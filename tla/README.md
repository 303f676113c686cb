# TLA+ models of Clevel hashing

This directory holds TLA+ models of the lock-free Clevel hash table in
`src/include/libpmemobj++/experimental/clevel_hash.hpp` and of the lock-based
Level hashing, CCEH and CLHT tables in `level_hash.hpp`, `cceh.hpp` and
`clht.hpp` beside it, together with the TLC
configurations that check them. `PROJECT.json` lists the components, the runs,
the mutants that show each property can fail, and the source lines each
definition models. It also lists the findings and the hazards.

## The system

Clevel hashing stores key/value entries in persistent memory (libpmemobj). Its parts:

* **Levels** (`level_bucket`). Each level is an array of buckets with `assoc_num`
  slots each. A slot holds a tagged pointer (`compound_pool_ptr`) to a `KV_entry`.
  Levels form a list through `up`, and each new level has twice the capacity of
  the one below.
* **LevelMeta** (`level_meta`). It records the first (top) level, the last
  (bottom) level and `is_resizing`. The root `meta` points to the current
  LevelMeta. Every change to it allocates a new LevelMeta and swings `meta` with
  a CAS.
* **Mutators**. `insert`, `search`, `update` and `erase` run on application
  threads without locks:
  * every operation reads `meta`;
  * it walks the levels, using `find` bottom-to-top or `find_empty_slot`
    top-to-bottom;
  * it changes a slot with a CAS;
  * it then re-checks `meta` and, for update, `expand_bucket`, and retries if a
    resize intervened.
* **Expansion** (`expand`). An inserter that finds no empty slot appends a level
  by CASing `up` of the top level, then publishes a LevelMeta naming it with
  `is_resizing` set. Threads that lose the race help publish.
* **The resize thread** (`resize`). This is a background thread. While the
  table has more than two levels, it moves the bottom level bucket by bucket
  (`expand_bucket`) into the top level:
  * it copies each slot with a CAS into an empty slot of the top level,
    expanding if there is none;
  * it clears the bottom slot with a plain store;
  * when the bottom level has been drained, it publishes a LevelMeta without
    that level.

## Modules

* `ClevelHash.tla` models one table shared by the mutator threads `Threads`,
  the resize thread `Resizer`, and expansions started by either.
* `MC_ClevelHash.tla` gives TLC its constants:
  * a hash function and partials for five keys;
  * the initial keys;
  * which operations each thread issues.

### State

| Variable | Code |
|---|---|
| `slot` | Every `b.slots[i].p` of every level. It holds an entry id or `Empty`. Levels are identified by creation order, so level `l` has `2^(HashPower-1+l)` buckets. |
| `numLevels` | The levels linked through `up`. |
| `metas`, `meta` | Every LevelMeta ever allocated, and the index `meta` points at (0 is null). An index is never reused, which is what the CAS on `meta.off` compares. |
| `tmpMeta`, `deadMetas` | The `tmp_meta` cells, indexed by the `thread_id` each actor passes (constant `ThreadId`; `resize()` hard-codes 0), and the LevelMetas passed to `delete_persistent_atomic`, which also nulls the cell. |
| `expandBucket` | `expand_bucket`. |
| `ekey`, `nextEntry`, `frees` | The persistent allocator: the key of each allocated entry, the next fresh entry, and the number of `pmemobj_free` calls on each. |
| `pc`, `t`, `ex`, `rz` | The program counter and the locals of each thread's operation, of `expand`, and of `resize`. |
| `crashes` | Crashes so far, bounded by `MaxCrashes`. |
| `inserted` | History only. It holds the keys whose insert has returned without an erase of the key overlapping it. |

### Actions

Each action is one step that changes shared state: one CAS, one store, one read
of `meta`, or the scan of one level. The locals carry what the code keeps across
the steps. The actions, by operation:

| Operation | Actions |
|---|---|
| Insert | `InsRetry` → `InsFind` (one level per step) → `InsCtx` → `InsCas` → `InsCheck` |
| Search | `SeRetry` → `SeScan` → `SeCtx` |
| Update | `UpdRetry` → `UpdEb` → `UpdFind` (including `del_dup` and the assert) → `UpdCtx` → `UpdCas` → `UpdCheck` |
| Erase | `ErRetry` → `ErScan` → `ErCtx` |
| Expand | `ExpStart` → `ExpUp` (append CAS) → `ExpAlloc` (new meta into `tmp_meta`) → `ExpMeta` (meta CAS, helper branch, delete) |
| Resize | `RzRehash` → `RzSrc` → `RzLoad` → `RzCopy` → `RzClear` → `RzInc` → `RzRetire` (new meta into `tmp_meta[0]`) → `RzRetireCas` (CAS, or delete and retry) → `RzReset` |

The bucket loops of `find` and `find_empty_slot`, with their vacancy preference
and dedup cases, are the pure operators `ScanBucket`, `ScanLevel` and
`ScanLevels`. `first_index` and `second_index` use `KeyHash` and a Murmur-style
low-bit mix given by `MurmurLow`. The rationale for the merged steps is under
Abstractions below.

`Crash` is a crash followed by a reopen of the pool:
* every persistent object keeps its last store, because each CAS or store is persisted before the thread's next step;
* the locals are lost;
* an operation in flight never returns, and it counts as issued;
* the resize thread stays stopped, because only the constructor (300–318) starts it;
* nothing runs a recovery pass, because the code has none.

`Terminated` is the point where every mutator has finished and the resize
thread is either asleep, with the table back to two levels, or gone after a
crash.

## Runs

Common settings:

* `HashPower = 2` (two buckets in level 0) and one slot per bucket, so buckets
  collide and expansion happens after a few inserts.
* Entry ids, LevelMetas and levels are bounded by `MaxEntries`, `MaxMetas` and
  `MaxLevels`. Operations per thread are bounded by `Budget`.

### Passing runs

| Run | Setup | Properties |
|---|---|---|
| `during_resize` | One thread inserting, updating and erasing, one searcher, resize thread, three keys prefilled, up to four levels. | `TypeOK`, `ResizingWhileMultiLevel`, `InsertedReachable`, `SearchFindsInserted`, `RootMetaLive`, `AppendedLevelPublished`, liveness `ResizeCompletes`, liveness `OperationsComplete` |
| `mutators` | Two threads with all four operations on a fixed two-level table, and one crash (`MaxCrashes = 1`). | `InsertedReachable`, `SearchFindsInserted` |

* `mutators` shows, with no resize running, that an insert that returned
  keeps its key reachable and that a search finds a key present throughout,
  across the insert redo, `del_dup` and the state a crash leaves at any point.
  It does not check freeing: `update_erase` below frees a published entry with
  no resize at all, and these scripts never put an update and an erase of the
  same key into that window.
* `during_resize` shows that, while the mutator expands and the resize
  thread migrates and retires levels, every published LevelMeta is well formed
  and resizing whenever it names more than two levels. Returned inserts stay
  reachable and are found. With distinct thread ids the root meta is never a
  deleted LevelMeta (`RootMetaLive`). Every level linked through `up` is the
  root meta's first level, except while its expander is between its two CASes
  (`AppendedLevelPublished`).
  The resize thread always drains the table back to two levels, and every
  operation returns, although the mutator keeps filling the top level.

### Violation runs

Each violation run checks one property, and TLC shows a trace that breaks it.
`PROJECT.json` allows at most twelve runs, shared by all the tables modelled.
So the first two rows are the checked runs (`lost_insert`, `erase_migrate`).
The other rows are further counterexamples, each reproduced by its cfg
(`tlc -config MC_ScratchShare.cfg MC_ClevelHash`, and so on) but outside the
checked runs.

| Run | Property | What the trace shows |
|---|---|---|
| `lost_insert` | `InsertedReachable` | An insert CASes into a bottom slot that was already migrated. The level is retired before the redo check at line 1064, so the insert returns while its key is unreachable. |
| `erase_migrate` | `NoDanglingEntry` | The resize thread publishes an entry that erase freed between its read (1471) and its CAS (1493). |
| `scratch_share` (`MC_ScratchShare.cfg`) | `RootMetaLive` | Mutator `t1` passes `thread_id` 0 (`MCThreadIdShared`), the id `resize()` hard-codes (1433). `t1` loses its expand meta CAS to a helper. Meanwhile the resize thread drains the bottom level and allocates its retiring meta into `tmp_meta[0]` (1547). `t1` then takes the helper branch and deletes `tmp_meta[0]` (1368): that is the resize thread's meta, and the cell is nulled. The resize thread's CAS (1550) then publishes null as `meta`. Spec section 4 says each thread owns its scratch cell. |
| `crash_expand` (`MC_CrashExpand.cfg`) | `AppendedLevelPublished` | A crash hits after expand's CAS on `cl->up` (1319) and before its meta CAS (1350). The new level is linked, but no meta names it. After the reopen, every expand finds `up` set and takes the helper branch. That branch sets `new_capacity = cl->capacity` (1382) and so republishes `m->first_level` (1388–1391). With `MaxCrashes = 1` added to the `during_resize` setup (`MC_CrashExpand.cfg`), an insert into a full bucket republishes identical metas until it hits `MaxMetas`, which TLC reports as a deadlock. Spec section 7 says every structural step is one CAS. |
| `crash_resize` (`MC_CrashResize.cfg`) | `ResizeCompletes` | The process crashes mid-resize. Nothing restarts the resize thread, so the table keeps its extra levels forever. |
| `erase_double_free` (`MC_EraseDoubleFree.cfg`) | `NoDoubleFree` | Erase frees a half-migrated entry twice (1142 and 1182): between the resize thread's copy CAS (1493) and its clear (1499) the entry is in both levels, and erase frees it once per slot. |
| `update_migrate` | `NoDanglingEntry` | After an update retries, `del_dup` frees the update's own entry (642), and the update then publishes it. |
| `update_erase` | `NoDanglingEntry` | With no resize at all, the update window check (1268) forces a retry that re-publishes an entry erase freed. |
| `update_leak` | `NoLeakedEntry` | Update never frees the entry it replaces. Spec section 8 says it does. |
| `uniqueness` | `UniqueAtQuiescence` | The insert redo leaves a key in two slots. Spec section 8.1 says at most one. |
| `assert_dup` | `NoAssertFailure` | Redo plus migration puts one entry twice into a level, and `find` reaches the `assert(false)` marked "Never fires!" (847/937). |

### Bounds

The bounds are the smallest at which each interesting case occurs:

* With two threads and a budget of two operations, an operation can overlap
  both a migration step and another thread's CAS.
* `lost_insert` and `assert_dup` need about 30 steps. They were found at
  `MaxEntries` 7 and 8.
* The passing runs use the same bounds or larger ones for the levels, and they
  reach every action (TLC coverage).
* A single crash (`MaxCrashes = 1`) can hit between any two steps, so it covers
  every point at which an operation can stop. `MC_CrashExpand.cfg` needs only
  that one crash.

Every passing run finishes in under a minute, except that `during_resize`
takes about two and a half minutes (111,052 distinct states).

## Fairness

Threads are preemptively scheduled and never block: every loop is a retry
around a CAS. So each mutator thread, together with its expansions, is weakly
fair, and so is the resize thread. The resize thread sleeps only while the
table has two levels (`RzRehash`'s guard). `Terminated` stutters at the end so
that the final state is not a deadlock.

## Abstractions

* **Entry ids.** Keys, values and entries are ids. Pointers, offsets and
  partials are ids, and a partial is implied by the entry's key.
* **Scans.** A level is scanned in one step. The code reads the slots of a
  level one by one, and a concurrent change in the middle of a level scan is
  not explored. A change between level scans is explored.
* **Persistence.** Persistence calls and printing are omitted. Each model step
  is a CAS or store together with its persist. So a crash falls between steps,
  and it never loses an unflushed store.
* **Allocation.** `make_persistent_atomic` of a LevelMeta or a level is a fresh
  id. A LevelMeta is allocated into its `tmp_meta` cell in one step and
  published by a CAS in the next, as in the code. A level is still appended in
  one step, so the `tmp_level` cell is not a variable.

## Level hashing (`LevelHash.tla`)

`level_hash.hpp` is a separate table benchmarked beside Clevel
(`src/tests/level_hash/level_hash_ycsb.cpp`). The two tables share no code or state.

### The code

* `levels[0]` (top, `2^level_size` buckets) and `levels[1]` (bottom, half as
  many). A bucket has `assoc_num` slots, each a token, a pointer to a key/value
  entry and a reader/writer mutex.
* A key's candidate buckets in a level of capacity `c` are
  `first_hash % (c/2)` and `second_hash % (c/2) + c/2`.
* `generic_insert` loops over three steps:
  1. It locks each candidate slot in turn, top level first, and takes a free one.
  2. `try_movement` locks a slot of a candidate bucket and keeps it locked. It
     reads that entry's key and locks the slots of the key's other bucket. If
     one is free, it moves the entry there and puts the new entry in its place.
  3. It sets `need_resizing` and retries.
* `b2t_movement` is guarded by `level_expand_time > 0`, and nothing ever
  increments that counter, so it never runs.
* `query`, `erase` and `generic_update` scan the first bucket's slots, then the
  second's, per level, locking one slot at a time. Erase only clears the token.
* `insert`, `query` and `erase` cross `resize_barrier` when `need_resizing` is
  set. The last thread of `count` runs `expand`:
  * it allocates an interim level twice the top's size;
  * it moves every bottom entry into it without locks, exiting the process if
    one does not fit;
  * it shifts the levels in a transaction and broadcasts.

### State and actions

| Variable | Code |
|---|---|
| `token`, `kv` | Every bucket's `tokens` and `slots`, by `<<level, bucket, slot>>`. Levels are ids in creation order, so level `l` has `2^(LevelPower-1+l)` buckets. |
| `levels`, `interim` | `levels[0..1]` and `interim_level`. |
| `needResizing`, `crossing`, `waiting` | `need_resizing`, `resize_barrier.crossing`, and the threads blocked in `pthread_cond_wait`. |
| `ekey`, `nextEntry` | The key of each allocated entry, and the allocator. |
| `pc`, `t` | Each thread's program counter and locals. `t.src` is the source slot lock that `try_movement` holds across steps. |
| `inserted`, `erased` | History only. |

A step is one slot's critical section:

| Operation | Actions |
|---|---|
| Start | `Begin` (allocate), then `Enter`, `BarWait` or `BarExpand` (need_resizing test and barrier) |
| Expand | `ExpSkip` / `ExpMove` per bottom slot (including the exit(1) branch), `ExpDone`, then `BarWake` for the waiters |
| Insert step 1 | `InsStore`, `InsNext` |
| Insert step 2 | `TmSrc` (lock the source, read its key), then `TmMove`, `TmNext` or `TmFail` (lock a destination) |
| Query, erase, update | `QueryHit`, `EraseHit`, `UpdateHit`, `ProbeNext` |

A slot held by another thread's `try_movement` disables the actions that need
that slot. So a lock-order deadlock appears as threads with no enabled step.

### Runs

Common settings:

* `LevelPower = 2`, one slot per bucket (`assoc_num` is 4 in the code), and
  four keys.
* The keys' low hash bits make them collide in levels 0 and 1; their higher
  bits separate them from level 3 on, as real 64-bit hashes would.
* The initial table is the drivers' single-thread load phase (`InitTable`).
* `MaxLevels` bounds expansions and `Budget` the operations per thread.

| Run | Expect | Setup | Properties | What it shows |
|---|---|---|---|---|
| `lh_single` | pass | One thread, all four operations, Budget 3, up to three expansions | `TypeOK`, `ImplementsMultiMap`, liveness `OperationsComplete` | The sequential algorithm implements an atomic multimap, through cuckoo moves and expansions, and every operation returns. |
| `lh_concurrent` | pass | An inserter and an inserter/eraser, Budget 2 | `InsertedReachable` | Concurrent try_movements, the barrier and expansion never lose a returned key. |
| `lh_linearizable` | violation | As `lh_concurrent` | `ImplementsMultiMap` | Not linearizable. try_movement moves the stale pointer of a slot that erase has just cleared, so the erased entry comes back. |
| `lh_lock_cycle` | violation | Two inserters | `NoLockCycle` | Two try_movements each hold the other's destination slot: a deadlock. |

`PROJECT.json` allows at most twelve runs across the project. Three further
counterexamples are kept as cfgs outside the checked runs, each reproduced by
`tlc -config <cfg> MC_LevelHash`:

| cfg | Property | What the trace shows |
|---|---|---|
| `LH_QueryMiss.cfg` | `SearchFindsInserted` | A query misses a key present throughout. try_movement moved the key from its second bucket into its first after the query had passed the first. |
| `LH_Resurrect.cfg` | `ErasedStaysErased` | The resurrection of `lh_linearizable`, stated directly on the slots. |
| `LH_BarrierHang.cfg` | `OperationsComplete` | An inserter and a querier. The querier finishes, and the inserter then waits in the barrier forever. |

### Refinement (`MultiMap.tla`)

`MultiMap` is what the table promises its callers: a set of `<<entry, key>>`
pairs on which each operation takes effect at one instant between its call and
its return.

* insert adds its entry, since there is no duplicate check.
* erase removes one entry of the key.
* update replaces one entry of the key.
* query reports whether the key has an entry.
* The process may exit.

`LevelHash` defines the refinement mapping:

| MultiMap | LevelHash |
|---|---|
| `store` | The pairs in the occupied slots of `levels[0]`, `levels[1]` and the interim level. |
| `busy` | The thread is between `Begin` and its return. |
| `req` | The thread's operation, key and new entry. |
| `res` | `t.out`. |
| `halted` | Some thread took the exit(1) branch. |

`ImplementsMultiMap == Abs!Spec` is checked as a PROPERTY:

* Every cuckoo move, expansion step and barrier step must leave the mapped
  state unchanged.
* Every returning step must be one whole abstract operation with its result.

It holds for one thread (`lh_single`). So it subsumes, for the sequential case,
`InsertedReachable`, `SearchFindsInserted` and `ErasedStaysErased`. It fails for two threads
(`lh_linearizable`).

Expand's exit(1) branch is modelled (pc `exit`), but no property about it is
checked. At the bounds TLC reaches, the bottom level holds two entries, and
the second of them always finds one of its two interim candidates free. A
property that expand never aborts would therefore hold by construction
whatever the code did. Reaching the branch needs a bottom level with more
entries than any interim bucket pair can take in the order expand places
them, which is beyond these run sizes.

`lh_concurrent`, `lh_linearizable`, `lh_lock_cycle` and the three cfgs above
set `CHECK_DEADLOCK FALSE`. The code really does stop in two situations: the lock
cycle, and the barrier wait once the other thread has finished. `lh_single`
checks deadlock. In its final state `Terminated` stutters.

### Fairness

Every thread is weakly fair (`WF_vars(Thread(th))`). Threads are preemptively
scheduled, and a thread blocked on a slot mutex or on the barrier has no enabled
action. Under this fairness, `LH_BarrierHang.cfg` shows a real hang, not a
scheduling artefact.

### Not modelled in LevelHash

* Spurious wakeups. `pthread_cond_wait` is called once, not in a predicate
  loop, so a spurious wakeup would let a thread run during `expand`.
* `level_power = 1`, where `first_index` divides by zero.
* `b2t_movement`, which is dead code.
* Persistence. Nothing in the repository recovers a Level hashing table.
* The unbounded expansion after more than `2*2*assoc_num` copies of one key.
  Each expansion adds a level, so TLC sees it only as reaching `MaxLevels`.
  `lh_single` therefore starts with one copy of each key.

## CCEH (`Cceh.tla`)

`cceh.hpp` is a third table benchmarked beside Clevel
(`src/tests/cceh/cceh_ycsb.cpp`). It shares no code or state with the other two.

### The code

* The directory holds `2^depth` segment pointers, a depth and a reader/writer
  lock `m`. A segment holds `KNumSlot` slots, a `local_depth`, a `pattern`, a
  segment lock and one lock per slot.
* `Insert` reads `dir->depth` and `dir->segments[x]` without a lock
  (`x = key_hash >> (64 - depth)`). It then calls `segment_insert`:
  * it checks the pattern (181) before it takes the segment read lock (183);
  * it probes a window of slots, each under its bucket lock, and takes a free
    slot or a slot whose key no longer matches the pattern.
* On a full window, `Split` try-acquires the segment write lock. It copies the
  keys whose next hash bit is 1 into a new segment (`Insert4split`), increments
  `local_depth`, sets the pattern and releases the lock (287). `Insert` then
  sets the new segment's pattern (376) and takes the directory write lock (378).
  * Without doubling (380–407), it points the upper half of the segment's
    directory entries at the new segment.
  * With doubling (409–437), it builds a directory twice the size, swings
    `dir`, deletes the old directory and releases the lock inside it.
* `Get` takes the directory read lock (460) and the segment read lock (469),
  then scans the window.

### State and actions

| Variable | Code |
|---|---|
| `segs` | Every segment ever allocated: its slots (a slot holds a key or `NoKey`), `local_depth`, `pattern` and segment lock. |
| `dirs`, `dir`, `freedDirs` | Every directory ever allocated, the root's `dir`, and the directories deleted by a doubling. |
| `pc`, `lv`, `next` | Each thread's program counter, locals and position in its run queue. |
| `inserted`, `res` | History only: the keys whose insert has returned, and each thread's last get. |

| Operation | Actions |
|---|---|
| Start | `Begin` (the next entry of the thread's run queue) |
| Insert | `InsX` → `InsTarget` → `InsCheck` (pattern) → `InsLock` → `InsProbe` (one slot per step) |
| Split | `InsSplit` (try_acquire, `SplitSlots`/`Insert4split`) → `InsSpDepth` → `InsSpPattern` → `InsS1Pattern` → `InsDirWait`/`InsDirLock` → `InsPublish` (`SplitEntries` or `Doubled`) → `InsDirUnlock` |
| Get | `GetDir` → `GetLock` → `GetX` (460, `x` from `dir->depth`) → `GetSeg` (462, `dir->segments[x]`, `dir` read again) → `GetSlock` → `GetScan` |

A KV_entry is its key, since CCEH never frees an entry and `Split` copies the
pointer. A probe is one step because it holds the slot's bucket lock for the
whole read, test and write.

### Runs

The common settings are as follows:

* hashes of four bits (`HashBits = 4`);
* an initial depth of 1;
* two slots per segment, probed as one window (`NumSlot = Probe = 2`);
* at most eight segments.

The ten keys' hashes (`MCKeyHash`) are chosen so that the inserts reach every
branch of the directory update: the doubling, the chunk loop, and the `x % 2`
cases at an even and an odd `x`.

| Run | Expect | Setup | Properties | What it shows |
|---|---|---|---|---|
| `cceh_splits` | pass | One thread inserting ten keys, one thread getting two of them | `TypeOK`, `DirectoryConsistent`, `InsertedReachable`, liveness `OperationsComplete` | With one inserter, whenever no split is pending every directory entry names a segment whose pattern is the entry's prefix, returned inserts stay reachable, and every operation returns (14,203 states, 3 s). Gets are not checked to find their keys: `CC_StaleGet.cfg` below shows they can miss. |
| `cceh_lost_insert` | violation | Two inserters (`MCScriptTwoInserters`) | `InsertedReachable` | `t2` passes the pattern check of segment 0 before `t1` splits it. It then overwrites `k2`, which now belongs to the unpublished new segment, so a get of `k2` misses. After the publish, `t2`'s own `k9` sits in segment 0 while the directory sends prefix 01 to segment 1, so `k9` is lost for good. |

Three further counterexamples are kept as cfgs outside the run budget, each
reproduced by `tlc -config <cfg> MC_Cceh`:

| cfg | Property | What the trace shows |
|---|---|---|
| `CC_DoubleSplit.cfg` | `DirectoryConsistent` | Two inserters both find segment 0 full and both split it, because `Split` does not re-check `local_depth` (260). The second directory update points entries at the wrong segment. It can also reach the state where `dir->depth - (local_depth - 1)` is negative and the `size_t` exponent at 399 wraps (pc `ins_wrap`). |
| `CC_FreedDir.cfg` | `FreedDirUnlocked` | A doubling deletes the old directory and then releases `lock_dir` through it (437). A `Get` that read `dir` before the swap then locks the freed mutex (460). |
| `CC_StaleGet.cfg` | `SearchFindsInserted` | The `cceh_splits` setup. `t2`'s get of `k2` reads `dir` and locks the old directory after `t1`'s doubling has swapped `dir` and freed it (435–437), so the lock excludes nothing. The get computes `x` from a depth read at 460, and `t1`'s next doubling swaps `dir` again before 462 reads `dir->segments[x]`. The get then scans segment 4 while `k2` is in segment 3, and it returns not found. |

### Fairness

Each thread is weakly fair (`WF_vars(Step(th))`). The driver runs one OS thread
per run queue, preemptively scheduled. A thread waiting for a lock has no
enabled step, and a failed `try_acquire` is a step that retries.

### Not modelled in Cceh

* Persistence and crashes. `cceh_cli.cpp` reopens a pool, but the table has
  no recovery pass. A crash between `Split` (283–287) and the directory update
  would leave the new segment unreachable, and that is not modelled yet.
* The per-slot bucket locks. A probe is one step instead.
* `Capacity` and the debug helpers. They change nothing a property observes.
  The table has no delete operation.
* Use of a freed directory beyond its mutex. `FreedDirUnlocked` marks the
  first use of freed memory.

## CLHT (`Clht.tla`)

`clht.hpp` is the persistent port of CLHT, the cache-line hash table that
the benchmarks run beside Clevel. `Clht.tla` models its concurrency
protocol and `MC_Clht.tla` instantiates it. The repository has no CLHT
driver under `src/tests`, so each thread's operations are a fixed `Script`.

### The code

* **Tables.** A `clht_hashtable_s` has `num_buckets` buckets. Each bucket
  is a chain of nodes with `ENTRIES_PER_BUCKET` slots, and the head node
  holds a one-byte lock: FREE, UPDATE or RESIZE. The root's `ht` names the
  current table. A table also holds `num_expands` and its threshold,
  `table_tmp`, `table_new`, `is_helper` and `helper_done`.
* **get** (336–358) reads `ht` and scans the key's chain without a lock.
* **put** (`generic_insert`, 413–499) does four things in order:
  * it allocates the entry;
  * it runs `key_exists` without a lock and returns if the key is there;
  * it takes the head lock with `get_lock`, then scans again;
  * it fills the first empty slot, or links a new node, which bumps
    `num_expands`.

  If the count reaches the threshold, the thread calls `ht_status`. That
  sizes the table and calls `ht_resize_pes`.
* **erase** (503–552) runs `key_exists`, then `get_lock`. It frees the
  entry (536) and then nulls its slot (538).
* **get_lock** (289–307) spins while the lock is UPDATE. On RESIZE it helps
  the resize (`ht_resize_help`) and waits for `table_new`, and the caller
  re-reads `ht` and retries.
* **ht_resize_pes** (672–758) does the following in order:
  * it reads `ht_old` (676) and only then takes `resize_lock` (677);
  * it allocates the new table;
  * it locks each old bucket RESIZE and copies its chain (`bucket_cpy`,
    `put_seq`), stopping at the first bucket already locked RESIZE;
  * it waits for a helper that started;
  * it switches `ht` (747) and sets `table_new` (749);
  * it unlocks, and resizes again if the new table is already past its
    threshold.

### State and actions

`tables` is a sequence of table records, and `ht` is an index into it.
Retired tables stay allocated, as in the code. The fields of a record are
the following:

* `chain` maps each bucket to its slots: one sequence of entry ids, EPB
  per node, in walk order, with 0 for nullptr;
* `lock` maps each bucket to its head lock;
* `tmp` and `new` hold `table_tmp` and `table_new`;
* `numExpands`, `threshold`, `isHelper` and `helperDone` are the fields of
  the same names.

`ekey` holds the key of each allocated entry, and `freed` holds the entries
passed to `pmemobj_free`. Each thread has a `pc` and the locals `lv` of its
operation. `present` is the set of keys whose put has published and whose
erase has not run. Every step of the code that changes shared state is an
action:

| Action | Code |
|---|---|
| `Begin` | allocate the entry and locate the bucket (419–425) |
| `GetScan` | `get` (336–358) |
| `InsExists`, `ErExists` | `key_exists` before the lock (435, 514) |
| `Lock` | `get_lock`'s CAS (289–307) |
| `HelpStart`, `HelpCpy`, `HelpDone`, `HelpWait` | `ht_resize_help`, the wait for `table_new` and the retry (300–304, 440–447, 820–835) |
| `InsScan` | the locked scan, the insert, the new node, the unlock (449–499) |
| `ErScan`, `ErClear` | free (536), then null and unlock (538–551) |
| `StBegin` | `ht_status` (581–650) |
| `RsBegin`, `RsTryLock` | read `ht_old` (676), then `try_lock` and allocate (677–706) |
| `RsCpy`, `BucketCpy`, `CpPut`, `Advance` | the copy loop, `bucket_cpy`, `put_seq` (708–719, 761–817) |
| `RsWait`, `RsSwitch`, `RsTableNew`, `RsUnlock` | 721–757 |

One `put_seq` is one step. The new table's size is a multiple of the old
one, so two old buckets never copy into the same new bucket, and the
bucket being filled is not yet reachable.

### Runs

| Run | Expect | What it shows |
|---|---|---|
| `clht_resize` (`CL_Resize.cfg`) | pass | `t1` puts four keys into 2 buckets and resizes. `t2` puts, erases and gets, and helps when it meets a RESIZE lock. The run checks four things: `TableHolds` (in every state, the current table reaches exactly the present keys); `UniqueKeys` (no key is stored twice); `SearchFindsInserted` (a get finds a key that was present all along); and `OperationsComplete` (every operation returns). 2,325 distinct states. |
| `clht_stale_resize` (`CL_StaleResize.cfg`) | violation of `TableHolds` | Both threads cross the threshold. One reads `ht_old` (676) while the other's resize runs, and it takes `resize_lock` after that resize has released it. Every bucket of the retired table is RESIZE-locked, so the copy stops at bucket 0. `is_helper` is still 1, so it does not wait. It then switches `ht` to an empty table, and every key is lost. |

Two more counterexamples are reproduced by their cfgs, outside the run
budget:

| cfg | Property | What the trace shows |
|---|---|---|
| `CL_LostOverflow.cfg` | `TableHolds` | Keys `k1` and `k6` hash to 0 and 16. They share bucket 0 of the 16-bucket table the resize allocates. `put_seq` creates an overflow node for the second key but never links it (805–811), so the key is gone after the switch. |
| `CL_ReadFreed.cfg` | `NoReadOfFreed` | A `get` scans `k1`'s bucket between erase's `pmemobj_free` (536) and its store of nullptr (538). The get then dereferences the freed entry. |

A put of a key that is already present returns at 436 or 457 and never
frees the entry it allocated at 419. The model allocates the entry in
`Begin` and never frees it, which reproduces the leak, but no property
counts allocations.

### Bounds

* **EPB = 1.** The slot loops are the same for any `ENTRIES_PER_BUCKET`.
  With one slot per node, two keys in a bucket already need a second node.
  That is what drives `num_expands` to its threshold, which is
  `CLHT_PERC_EXPANSIONS * num_buckets` = 2 for 2 buckets.
* **Sizes.** `ht_status` computes `full_ratio / 40`, rounded up to a power
  of two. A 2-bucket table resizes to 4, 8 or 16 buckets.
* **MaxTables = 3.** This allows a resize plus the second, stale resize.
* **MaxEntries = 6.** This covers every put of the scripts.
* **Shrinking is unreachable.** The shrink branch (626–628) needs a fill
  ratio below 5%, and the model's few keys never reach it.

### Fairness

Each thread is weakly fair (`WF_vars(Step(th))`), because each operation
runs on its own OS thread. A spin on an UPDATE lock, on `table_new` or on
`helper_done` is a state with no enabled step for that thread. So fairness
cannot make a spinning thread progress, and only the thread it waits for
can.

### Not modelled in Clht

* Persistence and crashes. Nothing reopens a CLHT pool in the repository's
  tests.
* `size`, `print`, `capacity`, and `ht_status`'s `just_print`, which only
  read.
* `status_lock`. Every call of `ht_status` passes `is_increase`, so the
  lock's result is ignored (584).
* The dead `#else` copy loop (727–734).

## Not modelled yet, and the plan

1. **Scratch cells.** `tmp_meta` is modelled (`scratch_share`). `tmp_level[0]`
   is shared in the same way (1304–1329): a mutator with id 0 that loses its
   append CAS deletes `tmp_level[0]`, which may be the level the resize
   thread just appended (1304). Checking this needs levels as objects rather
   than ids.
2. **Crash and restart.**
   * A store lost between a CAS and its persist is not modelled.
   * The leak of the in-flight `tmp_entry` on a crash (996) is not modelled.
   * A second call of `set_thread_num` is not modelled. It would delete the
     entry and the meta that the scratch cells still point at after a
     successful insert or expand (464).
   * The scratch arrays have no bound in the model. Both drivers call
     `set_thread_num(1)` and then insert with `thread_id` 1, so
     `tmp_entry[1]` (996) is written one past a one-cell array (489–492).
     That is memory corruption, which the model does not represent.
3. **An abstract map specification.** The spec would map keys to values, and
   `ClevelHash` would refine it through a mapping from slots to key sets. It
   would be checked on the runs where the properties above hold.
4. **CLHT persistence.** `Clht` models the volatile protocol only; a crash
   between the switch of `ht` (747) and `table_new` (749), or in the middle of
   a copy, is not modelled. `compound_pool_ptr.hpp` is data representation
   (offset plus pool id) and has no state change of its own.
5. **Update visibility.** A property that an update's value survives the
   resize thread's plain-store clear (1499) is planned.
