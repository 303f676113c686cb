-------------------------------- MODULE Clht --------------------------------
(***************************************************************************)
(* The persistent CLHT (src/include/libpmemobj++/experimental/clht.hpp):   *)
(* a table of num_buckets buckets, each a chain of ENTRIES_PER_BUCKET-slot *)
(* nodes whose head holds a one-byte lock (FREE, UPDATE, RESIZE).          *)
(*                                                                         *)
(*   get     reads ht and scans the key's chain without a lock.            *)
(*   put     allocates its entry, scans the chain without a lock          *)
(*           (key_exists), takes the head lock with get_lock and scans     *)
(*           again; a full chain gets a new node, and when the table's     *)
(*           num_expands reaches its threshold the thread resizes          *)
(*           (ht_status, ht_resize_pes).                                   *)
(*   erase   key_exists, get_lock, then frees the entry and nulls its slot.*)
(*   resize  takes resize_lock, allocates the new table, locks each old    *)
(*           bucket RESIZE and copies its chain (bucket_cpy, put_seq),     *)
(*           then switches ht and sets the old table's table_new.  A       *)
(*           thread that meets a RESIZE lock in get_lock helps from the    *)
(*           top bucket down (ht_resize_help) and waits for table_new.     *)
(*                                                                         *)
(* A chain is one sequence of slots, EPB per node, in the order the code   *)
(* walks them; an entry is an id with its key in ekey.  A scan without a   *)
(* lock reads the whole chain in one step.                                 *)
(***************************************************************************)
EXTENDS Integers, Sequences, SequencesExt, FiniteSets

CONSTANTS
    Threads,     \* application threads
    Keys,        \* keys
    KeyHash,     \* Keys -> Nat, hasher{}(key)
    EPB,         \* ENTRIES_PER_BUCKET
    InitBuckets, \* the constructor's n_buckets
    MaxEntries,  \* bound on allocated entries
    MaxTables,   \* bound on allocated hash tables
    Script       \* Threads -> Seq(<<op, key>>): each thread's operations

ASSUME EPB >= 1 /\ InitBuckets >= 1

\* The lock byte: LOCK_FREE, LOCK_UPDATE, LOCK_RESIZE.
LOCK_FREE == 0
LOCK_UPDATE == 1
LOCK_RESIZE == 2

VARIABLES
    tables,     \* Seq of clht_hashtable_s: nb, chain, lock, tmp, new,
                \*   numExpands, threshold, isHelper, helperDone
    ht,         \* the root's ht, an index into tables
    resizeLock, \* resize_lock
    ekey,       \* Seq: the key of each allocated entry
    freed,      \* entries passed to pmemobj_free
    pc,         \* Threads -> program counter
    next,       \* Threads -> index of the thread's next operation
    lv,         \* Threads -> locals of the operation in progress
    present,    \* keys whose put has published and no erase has removed
    res,        \* Threads -> result of the thread's last get
    readFreed   \* some scan without a lock dereferenced a freed entry

vars == <<tables, ht, resizeLock, ekey, freed, pc, next, lv, present, res,
          readFreed>>

Hash(k) == KeyHash[k]

\* hv % num_buckets.
BucketOf(k, t) == Hash(k) % tables[t].nb

\* Mutant: the slot loop runs one past ENTRIES_PER_BUCKET.
NodeOffByOne(e) == [j \in 0 .. EPB |-> IF j = 1 THEN e ELSE 0]

\* A new node: slots[0] = e, the others nullptr.
Node(e) == [j \in 1 .. EPB |-> IF j = 1 THEN e ELSE 0]

\* clht_hashtable_s(n): n empty buckets, hash = n - 1, num_expands 0,
\* num_expands_threshold = CLHT_PERC_EXPANSIONS * n (at least 1),
\* is_helper 1, helper_done 0.
NewTable(n) ==
    [nb |-> n, chain |-> [b \in 0 .. n - 1 |-> Node(0)],
     lock |-> [b \in 0 .. n - 1 |-> LOCK_FREE], tmp |-> 0, new |-> 0,
     numExpands |-> 0, threshold |-> IF n = 0 THEN 1 ELSE n,
     isHelper |-> 1, helperDone |-> 0]

\* The entries of a chain that hold key k.
Holding(c, k) == {p \in DOMAIN c : c[p] # 0 /\ ekey[c[p]] = k}

\* The entries a scan for k dereferences: every non-null slot up to and
\* including the first that holds k.
Derefs(c, k) ==
    LET stop == IF Holding(c, k) = {} THEN Len(c) ELSE Min(Holding(c, k))
    IN {c[p] : p \in {q \in 1 .. stop : c[q] # 0}}

\* The first null slot of a chain, or 0 when the chain is full.
FirstEmpty(c) ==
    LET free == {p \in DOMAIN c : c[p] = 0}
    IN IF free = {} THEN 0 ELSE Min(free)

\* put_seq (786-817): the entry goes into the first null slot of its
\* chain; a full chain gets a new bucket from clht_bucket_create_stats
\* that is never linked to bucket->next, so the entry is not stored.
PutSeq(T, e) ==
    LET b == Hash(ekey[e]) % T.nb
        p == FirstEmpty(T.chain[b])
    IN IF p # 0 THEN [T EXCEPT !.chain[b][p] = e]
       ELSE [T EXCEPT !.numExpands = @ + 1]

\* The non-null entries of a chain, in the order bucket_cpy walks them.
Entries(c) == SelectSeq(c, LAMBDA e : e # 0)

\* A key is reachable when get through the current ht finds it.
Reachable(k) ==
    tables[ht].nb > 0 /\ Holding(tables[ht].chain[BucketOf(k, ht)], k) # {}

\* pow2roundup (655-667).
RECURSIVE Pow2Above(_, _)
Pow2Above(x, p) == IF p >= x THEN p ELSE Pow2Above(x, 2 * p)
pow2roundup(x) == IF x = 0 THEN 1 ELSE Pow2Above(x, 1)

NoLocals == [op |-> "none", key |-> CHOOSE k \in Keys : TRUE, e |-> 0,
             h |-> 0, idx |-> 0, inc |-> TRUE, by |-> 0, old |-> 0,
             dst |-> 0, ci |-> 0, cp |-> <<>>, back |-> "none", again |-> FALSE,
             want |-> FALSE]

Init ==
    /\ tables = << NewTable(InitBuckets) >>
    /\ ht = 1
    /\ resizeLock = LOCK_FREE
    /\ ekey = <<>>
    /\ freed = {}
    /\ pc = [th \in Threads |-> "idle"]
    /\ next = [th \in Threads |-> 1]
    /\ lv = [th \in Threads |-> NoLocals]
    /\ present = {}
    /\ res = [th \in Threads |-> [found |-> FALSE, want |-> FALSE]]
    /\ readFreed = FALSE

Goto(th, p) == pc' = [pc EXCEPT ![th] = p]
SetLv(th, r) == lv' = [lv EXCEPT ![th] = r]

\* A lock word of table t.
SetLock(t, b, l) == tables' = [tables EXCEPT ![t].lock[b] = l]

-----------------------------------------------------------------------------
(* The caller's loop: the thread takes its next operation.  put allocates *)
(* its entry (allocate_KV, 420-421) before it reads ht.                    *)

Begin(th) ==
    /\ pc[th] = "idle"
    /\ next[th] <= Len(Script[th])
    /\ LET op == Script[th][next[th]][1]
           k == Script[th][next[th]][2]
           loc == [NoLocals EXCEPT !.op = op, !.key = k, !.h = ht,
                                   !.idx = BucketOf(k, ht)]
       IN \/ /\ op = "put"
             /\ Len(ekey) < MaxEntries
             /\ ekey' = Append(ekey, k)
             /\ SetLv(th, [loc EXCEPT !.e = Len(ekey) + 1])
             /\ Goto(th, "ins_exists")
             /\ UNCHANGED res
          \/ /\ op = "get"
             /\ SetLv(th, [loc EXCEPT !.want = k \in present])
             /\ Goto(th, "get_scan")
             /\ UNCHANGED <<ekey, res>>
          \/ /\ op = "erase"
             /\ SetLv(th, loc)
             /\ Goto(th, "er_exists")
             /\ UNCHANGED <<ekey, res>>
    /\ next' = [next EXCEPT ![th] = @ + 1]
    /\ UNCHANGED <<tables, ht, resizeLock, freed, present, readFreed>>

\* The chain a thread's operation works on, and whether a scan of it for
\* the thread's key dereferences a freed entry.
MyChain(th) == tables[lv[th].h].chain[lv[th].idx]
ScanReadsFreed(th) == readFreed' = (readFreed \/ Derefs(MyChain(th), lv[th].key) \cap freed # {})

\* Mutant: get scans the head node only, not bucket->next.
GetScanHeadOnly(th) ==
    /\ pc[th] = "get_scan"
    /\ ScanReadsFreed(th)
    /\ res' = [res EXCEPT ![th] = [found |-> Holding(SubSeq(MyChain(th), 1, EPB), lv[th].key) # {},
                                   want |-> lv[th].want]]
    /\ Goto(th, "idle")
    /\ UNCHANGED <<tables, ht, resizeLock, ekey, freed, next, lv, present>>

\* get (336-358): the chain scan without a lock.
GetScan(th) ==
    /\ pc[th] = "get_scan"
    /\ ScanReadsFreed(th)
    /\ res' = [res EXCEPT ![th] = [found |-> Holding(MyChain(th), lv[th].key) # {},
                                   want |-> lv[th].want]]
    /\ Goto(th, "idle")
    /\ UNCHANGED <<tables, ht, resizeLock, ekey, freed, next, lv, present>>

\* key_exists (362-375) before the lock, in put (435-436) and erase
\* (514-515).  put returns "exists" without freeing tmp_entry.
InsExists(th) ==
    /\ pc[th] = "ins_exists"
    /\ ScanReadsFreed(th)
    /\ Goto(th, IF Holding(MyChain(th), lv[th].key) # {} THEN "idle" ELSE "lock")
    /\ UNCHANGED <<tables, ht, resizeLock, ekey, freed, next, lv, present, res>>

ErExists(th) ==
    /\ pc[th] = "er_exists"
    /\ ScanReadsFreed(th)
    /\ Goto(th, IF Holding(MyChain(th), lv[th].key) = {} THEN "idle" ELSE "lock")
    /\ UNCHANGED <<tables, ht, resizeLock, ekey, freed, next, lv, present, res>>

\* get_lock (289-307): CAS(lock, FREE, UPDATE) spins while UPDATE; on
\* RESIZE the thread helps the resize of its table and waits for it.
Lock(th) ==
    LET h == lv[th].h
        b == lv[th].idx
    IN
    /\ pc[th] = "lock"
    /\ \/ /\ tables[h].lock[b] = LOCK_FREE
          /\ SetLock(h, b, LOCK_UPDATE)
          /\ Goto(th, IF lv[th].op = "put" THEN "ins_scan" ELSE "er_scan")
       \/ /\ tables[h].lock[b] = LOCK_RESIZE
          /\ Goto(th, "help_start")
          /\ UNCHANGED tables
    /\ UNCHANGED <<ht, resizeLock, ekey, freed, next, lv, present, res, readFreed>>

\* Mutant: the scan under the lock does not look for the key again.
InsScanNoRecheck(th) ==
    LET h == lv[th].h
        b == lv[th].idx
        c == MyChain(th)
        e == lv[th].e
        grown == tables[h].numExpands + 1
    IN
    /\ pc[th] = "ins_scan"
    /\ \/ /\ FirstEmpty(c) # 0
          /\ tables' = [tables EXCEPT ![h].chain[b][FirstEmpty(c)] = e,
                                      ![h].lock[b] = LOCK_FREE]
          /\ present' = present \cup {lv[th].key}
          /\ Goto(th, "idle")
       \/ /\ FirstEmpty(c) = 0
          /\ tables' = [tables EXCEPT ![h].chain[b] = c \o Node(e),
                                      ![h].numExpands = grown,
                                      ![h].lock[b] = LOCK_FREE]
          /\ present' = present \cup {lv[th].key}
          /\ Goto(th, IF grown >= tables[h].threshold THEN "st_begin" ELSE "idle")
    /\ UNCHANGED <<ht, resizeLock, ekey, freed, next, lv, res, readFreed>>

\* generic_insert under the lock (450-499): the key found returns
\* "exists"; otherwise the first null slot of the chain, or a new node
\* (clht_bucket_create_stats, 263-273) that may set resize; then unlock
\* (329-333) and, on resize, ht_status.
InsScan(th) ==
    LET h == lv[th].h
        b == lv[th].idx
        c == MyChain(th)
        e == lv[th].e
        grown == tables[h].numExpands + 1
    IN
    /\ pc[th] = "ins_scan"
    /\ \/ /\ Holding(c, lv[th].key) # {}
          /\ SetLock(h, b, LOCK_FREE)
          /\ Goto(th, "idle")
          /\ UNCHANGED present
       \/ /\ Holding(c, lv[th].key) = {}
          /\ FirstEmpty(c) # 0
          /\ tables' = [tables EXCEPT ![h].chain[b][FirstEmpty(c)] = e,
                                      ![h].lock[b] = LOCK_FREE]
          /\ present' = present \cup {lv[th].key}
          /\ Goto(th, "idle")
       \/ /\ Holding(c, lv[th].key) = {}
          /\ FirstEmpty(c) = 0
          /\ tables' = [tables EXCEPT ![h].chain[b] = c \o Node(e),
                                      ![h].numExpands = grown,
                                      ![h].lock[b] = LOCK_FREE]
          /\ present' = present \cup {lv[th].key}
          /\ Goto(th, IF grown >= tables[h].threshold THEN "st_begin" ELSE "idle")
    /\ UNCHANGED <<ht, resizeLock, ekey, freed, next, lv, res, readFreed>>

\* erase under the lock (527-552): pmemobj_free of the first entry with
\* the key, then (ErClear) its slot is nulled and the lock released.
ErScan(th) ==
    LET c == MyChain(th)
        hold == Holding(c, lv[th].key)
    IN
    /\ pc[th] = "er_scan"
    /\ \/ /\ hold # {}
          /\ freed' = freed \cup {c[Min(hold)]}
          /\ SetLv(th, [lv[th] EXCEPT !.ci = Min(hold)])
          /\ Goto(th, "er_clear")
          /\ UNCHANGED tables
       \/ /\ hold = {}
          /\ SetLock(lv[th].h, lv[th].idx, LOCK_FREE)
          /\ Goto(th, "idle")
          /\ UNCHANGED <<freed, lv>>
    /\ UNCHANGED <<ht, resizeLock, ekey, next, present, res, readFreed>>

ErClear(th) ==
    LET h == lv[th].h
        b == lv[th].idx
    IN
    /\ pc[th] = "er_clear"
    /\ tables' = [tables EXCEPT ![h].chain[b][lv[th].ci] = 0,
                                ![h].lock[b] = LOCK_FREE]
    /\ present' = present \ {lv[th].key}
    /\ Goto(th, "idle")
    /\ UNCHANGED <<ht, resizeLock, ekey, freed, next, lv, res, readFreed>>

-----------------------------------------------------------------------------
(* bucket_cpy (761-784) and put_seq (786-817), shared by the resizer and  *)
(* the helper.  lock_acq_resize (310-320) spins while UPDATE, returns 0 on *)
(* RESIZE (another copier has the bucket) and otherwise locks the bucket   *)
(* RESIZE for good; each entry is then put_seq'd into the new table.       *)
(* Copiers of distinct old buckets write distinct new buckets, since the  *)
(* new size is a multiple of the old one, so one put_seq is one step.      *)

\* The loop index after a bucket: the resizer walks up, the helper down.
Advance(th) == IF lv[th].back = "rs_cpy" THEN lv[th].ci + 1 ELSE lv[th].ci - 1

\* bucket_cpy of bucket ci of table src into table dst; brk is where the
\* caller's loop goes when it returns 0.
BucketCpy(th, src, dst, brk) ==
    LET b == lv[th].ci
        l == tables[src].lock[b]
        cp == Entries(tables[src].chain[b])
    IN
    \/ /\ l = LOCK_RESIZE
       /\ Goto(th, brk)
       /\ UNCHANGED <<tables, lv>>
    \/ /\ l = LOCK_FREE
       /\ SetLock(src, b, LOCK_RESIZE)
       /\ IF cp = <<>>
          THEN /\ SetLv(th, [lv[th] EXCEPT !.ci = Advance(th)])
               /\ UNCHANGED pc
          ELSE /\ SetLv(th, [lv[th] EXCEPT !.cp = cp, !.back = pc[th]])
               /\ Goto(th, "cp_put")

CpPut(th) ==
    LET d == lv[th].dst IN
    /\ pc[th] = "cp_put"
    /\ tables' = [tables EXCEPT ![d] = PutSeq(tables[d], Head(lv[th].cp))]
    /\ IF Len(lv[th].cp) = 1
       THEN /\ SetLv(th, [lv[th] EXCEPT !.cp = <<>>, !.ci = Advance(th)])
            /\ Goto(th, lv[th].back)
       ELSE /\ SetLv(th, [lv[th] EXCEPT !.cp = Tail(@)])
            /\ UNCHANGED pc
    /\ UNCHANGED <<ht, resizeLock, ekey, freed, next, present, res, readFreed>>

-----------------------------------------------------------------------------
(* ht_resize_help (820-834), called from get_lock on the locked bucket's  *)
(* table, then the wait for table_new (300-301) and the caller's retry on *)
(* the current ht (440-447, 519-526).                                      *)

\* __sync_fetch_and_sub(&is_helper, 1) <= 0: someone already helps.
HelpStart(th) ==
    LET h == lv[th].h
        was == tables[h].isHelper
    IN
    /\ pc[th] = "help_start"
    /\ tables' = [tables EXCEPT ![h].isHelper = was - 1]
    /\ SetLv(th, [lv[th] EXCEPT !.ci = tables[h].nb - 1, !.dst = tables[h].tmp])
    /\ Goto(th, IF was <= 0 THEN "help_wait" ELSE "help_cpy")
    /\ UNCHANGED <<ht, resizeLock, ekey, freed, next, present, res, readFreed>>

\* for (idx = hash; idx >= 0; idx--) if (!bucket_cpy(...)) break;
HelpCpy(th) ==
    /\ pc[th] = "help_cpy"
    /\ \/ /\ lv[th].ci >= 0
          /\ BucketCpy(th, lv[th].h, lv[th].dst, "help_done")
       \/ /\ lv[th].ci < 0
          /\ Goto(th, "help_done")
          /\ UNCHANGED <<tables, lv>>
    /\ UNCHANGED <<ht, resizeLock, ekey, freed, next, present, res, readFreed>>

\* Mutant: the helper never sets helper_done.
HelpDoneNoFlag(th) ==
    /\ pc[th] = "help_done"
    /\ Goto(th, "help_wait")
    /\ UNCHANGED <<tables, ht, resizeLock, ekey, freed, next, lv, present, res, readFreed>>

HelpDone(th) ==
    /\ pc[th] = "help_done"
    /\ tables' = [tables EXCEPT ![lv[th].h].helperDone = 1]
    /\ Goto(th, "help_wait")
    /\ UNCHANGED <<ht, resizeLock, ekey, freed, next, lv, present, res, readFreed>>

\* while (ht_ptr->table_new == nullptr); return false; the caller re-reads
\* ht and the bucket and calls get_lock again.
HelpWait(th) ==
    /\ pc[th] = "help_wait"
    /\ tables[lv[th].h].new # 0
    /\ SetLv(th, [lv[th] EXCEPT !.h = ht, !.idx = BucketOf(lv[th].key, ht)])
    /\ Goto(th, "lock")
    /\ UNCHANGED <<tables, ht, resizeLock, ekey, freed, next, present, res, readFreed>>

-----------------------------------------------------------------------------
(* ht_status (581-651) with is_increase, and ht_resize_pes (672-759).     *)
(* status_lock is taken by try_lock and released at the end, but with     *)
(* is_increase its value never decides anything, so it is not a variable; *)
(* the recursive ht_status after ht_resize_again is the loop back to      *)
(* StBegin.                                                                *)

\* The counts ht_status takes of the current table: the non-null slots,
\* full_ratio = 100 * size / (n_buckets * ENTRIES_PER_BUCKET), and the
\* branch and factor it passes to ht_resize_pes.
SizeOf(T) == MapThenSumSet(LAMBDA b : Len(Entries(T.chain[b])), 0 .. T.nb - 1)
Shrinks(T) == SizeOf(T) > 0 /\ 100 * SizeOf(T) < 5 * T.nb * EPB
IncBy(T) == LET p == pow2roundup((100 * SizeOf(T)) \div (40 * T.nb * EPB))
            IN IF p = 1 THEN 2 ELSE p

StBegin(th) ==
    LET T == tables[ht] IN
    /\ pc[th] = "st_begin"
    /\ SetLv(th, [lv[th] EXCEPT !.inc = ~Shrinks(T),
                                !.by = IF Shrinks(T) THEN 33 ELSE IncBy(T)])
    /\ Goto(th, "rs_begin")
    /\ UNCHANGED <<tables, ht, resizeLock, ekey, freed, next, present, res, readFreed>>

\* ht_old = ht, read before resize_lock is tried.
RsBegin(th) ==
    /\ pc[th] = "rs_begin"
    /\ SetLv(th, [lv[th] EXCEPT !.old = ht])
    /\ Goto(th, "rs_trylock")
    /\ UNCHANGED <<tables, ht, resizeLock, ekey, freed, next, present, res, readFreed>>

\* try_lock(resize_lock) returns the old byte: 1 means another resize, and
\* the thread returns through ht_status.  Otherwise the new table is
\* allocated (by * n, or n / CLHT_RATIO_HALVE with is_helper = 0 when
\* shrinking) and published in the old table's table_tmp.
RsTryLock(th) ==
    LET o == lv[th].old
        n == IF lv[th].inc THEN lv[th].by * tables[o].nb ELSE tables[o].nb \div 8
        d == Len(tables) + 1
    IN
    /\ pc[th] = "rs_trylock"
    /\ \/ /\ resizeLock = 1
          /\ Goto(th, "idle")
          /\ UNCHANGED <<tables, resizeLock, lv>>
       \/ /\ resizeLock = 0
          /\ Len(tables) < MaxTables
          /\ resizeLock' = 1
          /\ tables' = Append([tables EXCEPT
                                 ![o].isHelper = IF lv[th].inc THEN @ ELSE 0,
                                 ![o].tmp = d], NewTable(n))
          /\ SetLv(th, [lv[th] EXCEPT !.dst = d, !.ci = 0])
          /\ Goto(th, "rs_cpy")
    /\ UNCHANGED <<ht, ekey, freed, next, present, res, readFreed>>

\* for (idx = 0; idx < num_buckets; idx++) if (!bucket_cpy(...)) break;
RsCpy(th) ==
    /\ pc[th] = "rs_cpy"
    /\ \/ /\ lv[th].ci < tables[lv[th].old].nb
          /\ BucketCpy(th, lv[th].old, lv[th].dst, "rs_wait")
       \/ /\ lv[th].ci >= tables[lv[th].old].nb
          /\ Goto(th, "rs_wait")
          /\ UNCHANGED <<tables, lv>>
    /\ UNCHANGED <<ht, resizeLock, ekey, freed, next, present, res, readFreed>>

\* Mutant: the resizer does not wait for the helper.
RsWaitNoHelperWait(th) ==
    /\ pc[th] = "rs_wait"
    /\ Goto(th, "rs_switch")
    /\ UNCHANGED <<tables, ht, resizeLock, ekey, freed, next, lv, present, res, readFreed>>

\* if (is_increase && is_helper != 1) while (helper_done != 1);
RsWait(th) ==
    LET o == lv[th].old IN
    /\ pc[th] = "rs_wait"
    /\ lv[th].inc /\ tables[o].isHelper # 1 => tables[o].helperDone = 1
    /\ Goto(th, "rs_switch")
    /\ UNCHANGED <<tables, ht, resizeLock, ekey, freed, next, lv, present, res, readFreed>>

\* ht_resize_again from the new table's num_expands, then ht = ht_new.
RsSwitch(th) ==
    LET d == lv[th].dst IN
    /\ pc[th] = "rs_switch"
    /\ ht' = d
    /\ SetLv(th, [lv[th] EXCEPT !.again = tables[d].numExpands >= tables[d].threshold])
    /\ Goto(th, "rs_tnew")
    /\ UNCHANGED <<tables, resizeLock, ekey, freed, next, present, res, readFreed>>

\* ht_old->table_new = ht_new, which releases the threads in get_lock.
RsTableNew(th) ==
    /\ pc[th] = "rs_tnew"
    /\ tables' = [tables EXCEPT ![lv[th].old].new = lv[th].dst]
    /\ Goto(th, "rs_unlock")
    /\ UNCHANGED <<ht, resizeLock, ekey, freed, next, lv, present, res, readFreed>>

\* unlock(resize_lock); ht_resize_again calls ht_status once more.
RsUnlock(th) ==
    /\ pc[th] = "rs_unlock"
    /\ resizeLock' = 0
    /\ Goto(th, IF lv[th].again THEN "st_begin" ELSE "idle")
    /\ UNCHANGED <<tables, ht, ekey, freed, next, lv, present, res, readFreed>>

-----------------------------------------------------------------------------
Terminated ==
    /\ \A th \in Threads : pc[th] = "idle" /\ next[th] > Len(Script[th])
    /\ UNCHANGED vars

Step(th) ==
    \/ Begin(th) \/ GetScan(th) \/ InsExists(th) \/ ErExists(th) \/ Lock(th)
    \/ InsScan(th) \/ ErScan(th) \/ ErClear(th)
    \/ HelpStart(th) \/ HelpCpy(th) \/ HelpDone(th) \/ HelpWait(th) \/ CpPut(th)
    \/ StBegin(th) \/ RsBegin(th) \/ RsTryLock(th) \/ RsCpy(th) \/ RsWait(th)
    \/ RsSwitch(th) \/ RsTableNew(th) \/ RsUnlock(th)

Next == (\E th \in Threads : Step(th)) \/ Terminated

\* Threads are preemptively scheduled; a thread spinning on a lock byte,
\* on helper_done or on table_new has no enabled step.
Fairness == \A th \in Threads : WF_vars(Step(th))

Spec == Init /\ [][Next]_vars /\ Fairness

-----------------------------------------------------------------------------
PCs == {"idle", "get_scan", "ins_exists", "er_exists", "lock", "ins_scan",
        "er_scan", "er_clear", "help_start", "help_cpy", "help_done",
        "help_wait", "cp_put", "st_begin", "rs_begin", "rs_trylock", "rs_cpy",
        "rs_wait", "rs_switch", "rs_tnew", "rs_unlock"}

TypeOK ==
    /\ ht \in 1 .. Len(tables)
    /\ resizeLock \in {0, 1}
    /\ \A t \in 1 .. Len(tables) :
         /\ tables[t].lock \in [0 .. tables[t].nb - 1 -> {LOCK_FREE, LOCK_UPDATE, LOCK_RESIZE}]
         /\ \A b \in 0 .. tables[t].nb - 1 :
              LET c == tables[t].chain[b] IN
              /\ DOMAIN c = 1 .. Cardinality(DOMAIN c)
              /\ Cardinality(DOMAIN c) % EPB = 0
              /\ \A p \in DOMAIN c : c[p] \in 0 .. Len(ekey)
         /\ tables[t].tmp \in 0 .. Len(tables) /\ tables[t].new \in 0 .. Len(tables)
    /\ freed \subseteq 1 .. Len(ekey)
    /\ pc \in [Threads -> PCs]
    /\ present \subseteq Keys

\* The table holds exactly what the operations published: a key is found
\* through the current ht if and only if a put of it has stored its entry
\* and no erase has cleared it.  Resizes copy every bucket before ht moves
\* (bucket_cpy, put_seq, the helper handshake and the switch in
\* ht_resize_pes).
TableHolds == \A k \in Keys : Reachable(k) <=> k \in present

\* No key is stored twice in the current table: the key_exists check
\* before the lock and the scan under it in generic_insert.
UniqueKeys ==
    \A b \in 0 .. tables[ht].nb - 1, k \in Keys :
        Cardinality(Holding(tables[ht].chain[b], k)) <= 1

\* A get of a key that was present when the get began finds it, although
\* it scans without a lock while resizes move the chains.
SearchFindsInserted == \A th \in Threads : res[th].want => res[th].found

\* No scan without a lock dereferences an entry erase has freed.
NoReadOfFreed == ~readFreed

\* Every operation returns: no thread spins forever on a lock byte,
\* helper_done or table_new.
OperationsComplete ==
    <>(\A th \in Threads : pc[th] = "idle" /\ next[th] > Len(Script[th]))

====
