-------------------------------- MODULE Cceh --------------------------------
(***************************************************************************)
(* The CCEH variant (src/include/libpmemobj++/experimental/cceh.hpp):      *)
(* extendible hashing with a directory of 2^depth segment pointers, each   *)
(* segment holding KNumSlot slots, a local depth and a pattern.            *)
(*                                                                         *)
(*   insert  reads dir->depth and dir->segments[x] without a lock, checks  *)
(*           the segment's pattern, takes the segment lock shared and      *)
(*           probes kNumPairPerCacheLine * kNumCacheLine slots from y.     *)
(*           A full window makes it Split the segment (segment lock        *)
(*           exclusive, try_acquire), then take the directory lock and     *)
(*           either point half of the segment's directory entries at the   *)
(*           new segment or double the directory.                          *)
(*   get     takes the directory lock shared, then the segment lock        *)
(*           shared, and scans the window.                                 *)
(*                                                                         *)
(* A hash is a number of HashBits bits: its top bits index the directory   *)
(* (key_hash >> (64 - depth)); its low bits give the slot, KeyLoc, which   *)
(* stands for (key_hash & kMask) * kNumPairPerCacheLine.  A KV_entry is    *)
(* its key: CCEH never frees an entry, and Split copies the pointer.       *)
(* Each probe of a slot is one step: it holds bucket_lock[slot] for its    *)
(* whole read-test-write, and the only other writer of slots, Insert4split,*)
(* writes a segment no other thread can yet reach.                         *)
(***************************************************************************)
EXTENDS Integers, Sequences, SequencesExt

CONSTANTS
    Threads,    \* the driver's worker threads
    Keys,       \* keys
    NoKey,      \* an empty slot (slots[i] == nullptr)
    NoThread,   \* no lock holder
    KeyHash,    \* Keys -> 0..2^HashBits-1
    KeyLoc,     \* Keys -> 0..NumSlot-1, the first slot of the key's window
    HashBits,   \* width of a hash
    InitDepth,  \* the constructor's _depth
    NumSlot,    \* KNumSlot
    Probe,      \* kNumPairPerCacheLine * kNumCacheLine
    MaxSegs,    \* bound on the segments allocated
    Script      \* Threads -> Seq(<<op, key>>): each thread's run_queue

ASSUME /\ 1 <= InitDepth /\ InitDepth <= HashBits
       /\ 1 <= Probe /\ Probe <= NumSlot

VARIABLES
    segs,      \* Seq of segments: slots, ld (local_depth), pattern, lock
    dirs,      \* Seq of directories: segments, depth, lock
    dir,       \* the root's dir pointer, an index into dirs
    freedDirs, \* directories deleted by a doubling
    pc,        \* Threads -> program counter
    next,      \* Threads -> index of the thread's next run_queue entry
    lv,        \* Threads -> the locals of the operation in progress
    inserted,  \* keys whose insert has returned
    res        \* Threads -> result of the thread's last get

vars == <<segs, dirs, dir, freedDirs, pc, next, lv, inserted, res>>

Slots == 0 .. NumSlot - 1

\* A reader/writer lock: one writer or a set of readers.
FreeLock == [writer |-> NoThread, readers |-> {}]
Unlocked(l) == l.writer = NoThread /\ l.readers = {}

\* key_hash >> (8*sizeof(key_hash) - d): the top d bits of the hash.
Prefix(h, d) == h \div 2^(HashBits - d)
Hash(k) == KeyHash[k]

\* The probe order (loc + i) % KNumSlot of a key's window.
WinSlot(k, i) == (KeyLoc[k] + i) % NumSlot

\* (hv >> (64 - local_depth)) == pattern: the key belongs to segment s.
Matches(k, s) == Prefix(Hash(k), segs[s].ld) = segs[s].pattern

\* A slot insert may take: empty, or holding an entry a split left behind.
Takeable(cur, s) == IF cur = NoKey THEN TRUE ELSE ~Matches(cur, s)

InSeg(k, s) == \E i \in 0 .. Probe - 1 : segs[s].slots[WinSlot(k, i)] = k

\* The segment the current directory names for key k.
DirSeg(k) == dirs[dir].segs[Prefix(Hash(k), dirs[dir].depth)]

NoLocals == [key |-> NoKey, x |-> 0, target |-> 0, i |-> 0, s1 |-> 0,
             d |-> 0, want |-> FALSE]

Init ==
    /\ segs = [n \in 1 .. 2^InitDepth |->
                 [slots |-> [i \in Slots |-> NoKey], ld |-> InitDepth,
                  pattern |-> n - 1, lock |-> FreeLock]]
    /\ dirs = << [segs |-> [i \in 0 .. 2^InitDepth - 1 |-> i + 1],
                  depth |-> InitDepth, lock |-> FreeLock] >>
    /\ dir = 1
    /\ freedDirs = {}
    /\ pc = [th \in Threads |-> "idle"]
    /\ next = [th \in Threads |-> 1]
    /\ lv = [th \in Threads |-> NoLocals]
    /\ inserted = {}
    /\ res = [th \in Threads |-> [found |-> FALSE, want |-> FALSE]]

Goto(th, p) == pc' = [pc EXCEPT ![th] = p]
SetLv(th, r) == lv' = [lv EXCEPT ![th] = r]

\* Lock word updates on a segment or a directory.
SegLock(s, l) == segs' = [segs EXCEPT ![s].lock = l]

-----------------------------------------------------------------------------
(* The driver loop: the thread takes its next run_queue entry.            *)

Begin(th) ==
    /\ pc[th] = "idle"
    /\ next[th] <= Len(Script[th])
    /\ LET e == Script[th][next[th]] IN
         /\ SetLv(th, [NoLocals EXCEPT !.key = e[2]])
         /\ Goto(th, IF e[1] = "insert" THEN "ins_x" ELSE "get_dir")
    /\ next' = [next EXCEPT ![th] = @ + 1]
    /\ UNCHANGED <<segs, dirs, dir, freedDirs, inserted, res>>

-----------------------------------------------------------------------------
(* insert (353-452).  STARTOVER and RETRY both come back to InsX: the     *)
(* hash is a pure function of the key.                                    *)

\* 363: x from dir->depth, read without the directory lock.
InsX(th) ==
    /\ pc[th] = "ins_x"
    /\ SetLv(th, [lv[th] EXCEPT !.x = Prefix(Hash(lv[th].key), dirs[dir].depth)])
    /\ Goto(th, "ins_target")
    /\ UNCHANGED <<segs, dirs, dir, freedDirs, next, inserted, res>>

\* 364: target = dir->segments[x], again through the current dir.
InsTarget(th) ==
    /\ pc[th] = "ins_target"
    /\ SetLv(th, [lv[th] EXCEPT !.target = dirs[dir].segs[lv[th].x]])
    /\ Goto(th, "ins_check")
    /\ UNCHANGED <<segs, dirs, dir, freedDirs, next, inserted, res>>

\* 181: segment_insert tests the pattern before it takes the segment lock;
\* a mismatch returns 2 and insert goes to STARTOVER.
InsCheck(th) ==
    /\ pc[th] = "ins_check"
    /\ Goto(th, IF Matches(lv[th].key, lv[th].target) THEN "ins_lock" ELSE "ins_x")
    /\ UNCHANGED <<segs, dirs, dir, freedDirs, next, lv, inserted, res>>

\* 183: lock_segment(segment_lock, false) waits out a splitter.
InsLock(th) ==
    LET s == lv[th].target IN
    /\ pc[th] = "ins_lock"
    /\ segs[s].lock.writer = NoThread
    /\ SegLock(s, [segs[s].lock EXCEPT !.readers = @ \cup {th}])
    /\ SetLv(th, [lv[th] EXCEPT !.i = 0])
    /\ Goto(th, "ins_probe")
    /\ UNCHANGED <<dirs, dir, freedDirs, next, inserted, res>>

\* 184-231: one slot of the window under bucket_lock[slot_idx].  A free slot,
\* or one whose entry no longer matches the pattern (left behind by a
\* split), takes the new entry; a full window returns 1.
InsProbe(th) ==
    LET k == lv[th].key
        s == lv[th].target
        j == WinSlot(k, lv[th].i)
        cur == segs[s].slots[j]
        unlocked == [segs[s].lock EXCEPT !.readers = @ \ {th}]
    IN
    /\ pc[th] = "ins_probe"
    /\ \/ /\ Takeable(cur, s)
          /\ segs' = [segs EXCEPT ![s].slots[j] = k, ![s].lock = unlocked]
          /\ inserted' = inserted \cup {k}
          /\ Goto(th, "idle")
          /\ UNCHANGED lv
       \/ /\ ~Takeable(cur, s)
          /\ lv[th].i < Probe - 1
          /\ SetLv(th, [lv[th] EXCEPT !.i = @ + 1])
          /\ UNCHANGED <<segs, pc, inserted>>
       \/ /\ ~Takeable(cur, s)
          /\ lv[th].i = Probe - 1
          /\ SegLock(s, unlocked)
          /\ Goto(th, "ins_split")
          /\ UNCHANGED <<lv, inserted>>
    /\ UNCHANGED <<dirs, dir, freedDirs, next, res>>

\* Insert4split (238-254): the copied pointer goes to the first free slot
\* of its window in the new segment, and is dropped if there is none.
Insert4split(slots, k) ==
    LET free == {i \in 0 .. Probe - 1 : slots[WinSlot(k, i)] = NoKey}
        first == CHOOSE i \in free : \A m \in free : i <= m
    IN IF free = {} THEN slots ELSE [slots EXCEPT ![WinSlot(k, first)] = k]

\* Mutant: the migration tests bit local_depth instead of local_depth+1.
SplitSlotsWrongBit(s) ==
    LET ld == segs[s].ld
        moves(k) == k # NoKey /\ Prefix(Hash(k), ld) % 2 = 1
        step(acc, k) == IF moves(k) THEN Insert4split(acc, k) ELSE acc
    IN FoldLeft(step, [i \in Slots |-> NoKey],
                [n \in 1 .. NumSlot |-> segs[s].slots[n - 1]])

\* The loop of Split (269-280): slots in index order, those whose bit
\* local_depth+1 (from the top) is set are copied; the old segment keeps them.
SplitSlots(s) ==
    LET ld == segs[s].ld
        moves(k) == k # NoKey /\ Prefix(Hash(k), ld + 1) % 2 = 1
        step(acc, k) == IF moves(k) THEN Insert4split(acc, k) ELSE acc
    IN FoldLeft(step, [i \in Slots |-> NoKey],
                [n \in 1 .. NumSlot |-> segs[s].slots[n - 1]])

\* 256-282: Split takes the segment lock exclusively with try_acquire (a
\* failure returns nullptr and insert goes to RETRY), allocates the new
\* segment with local_depth+1 and migrates.  Its pattern is set at 376.
InsSplit(th) ==
    LET s == lv[th].target IN
    /\ pc[th] = "ins_split"
    /\ \/ /\ Unlocked(segs[s].lock)
          /\ Len(segs) < MaxSegs
          /\ segs' = Append([segs EXCEPT ![s].lock.writer = th],
                            [slots |-> SplitSlots(s), ld |-> segs[s].ld + 1,
                             pattern |-> 0, lock |-> FreeLock])
          /\ SetLv(th, [lv[th] EXCEPT !.s1 = Len(segs) + 1])
          /\ Goto(th, "ins_sp_depth")
       \/ /\ ~Unlocked(segs[s].lock)
          /\ Goto(th, "ins_x")
          /\ UNCHANGED <<segs, lv>>
    /\ UNCHANGED <<dirs, dir, freedDirs, next, inserted, res>>

\* 283-284: local_depth = local_depth + 1.
InsSpDepth(th) ==
    LET s == lv[th].target IN
    /\ pc[th] = "ins_sp_depth"
    /\ segs' = [segs EXCEPT ![s].ld = @ + 1]
    /\ Goto(th, "ins_sp_pattern")
    /\ UNCHANGED <<dirs, dir, freedDirs, next, lv, inserted, res>>

\* 285-287: the old segment's pattern from the inserted key's hash, then
\* the segment lock is released.
InsSpPattern(th) ==
    LET s == lv[th].target IN
    /\ pc[th] = "ins_sp_pattern"
    /\ segs' = [segs EXCEPT
                  ![s].pattern = Prefix(Hash(lv[th].key), segs[s].ld - 1) * 2,
                  ![s].lock.writer = NoThread]
    /\ Goto(th, "ins_s1_pattern")
    /\ UNCHANGED <<dirs, dir, freedDirs, next, lv, inserted, res>>

\* Mutant: the new segment's pattern without the "+ 1".
InsS1PatternNoOne(th) ==
    LET s == lv[th].target IN
    /\ pc[th] = "ins_s1_pattern"
    /\ segs' = [segs EXCEPT ![lv[th].s1].pattern =
                  Prefix(Hash(lv[th].key), segs[s].ld - 1) * 2]
    /\ Goto(th, "ins_dir_wait")
    /\ UNCHANGED <<dirs, dir, freedDirs, next, lv, inserted, res>>

\* 376: the new segment's pattern, from sp_segment[0]->local_depth as it
\* is now, with no lock held.
InsS1Pattern(th) ==
    LET s == lv[th].target IN
    /\ pc[th] = "ins_s1_pattern"
    /\ segs' = [segs EXCEPT ![lv[th].s1].pattern =
                  Prefix(Hash(lv[th].key), segs[s].ld - 1) * 2 + 1]
    /\ Goto(th, "ins_dir_wait")
    /\ UNCHANGED <<dirs, dir, freedDirs, next, lv, inserted, res>>

\* 378: lock_dir.acquire(dir->m, true) reads dir, then waits on that
\* directory's mutex.
InsDirWait(th) ==
    /\ pc[th] = "ins_dir_wait"
    /\ SetLv(th, [lv[th] EXCEPT !.d = dir])
    /\ Goto(th, "ins_dir_lock")
    /\ UNCHANGED <<segs, dirs, dir, freedDirs, next, inserted, res>>

InsDirLock(th) ==
    LET d == lv[th].d IN
    /\ pc[th] = "ins_dir_lock"
    /\ Unlocked(dirs[d].lock)
    /\ dirs' = [dirs EXCEPT ![d].lock.writer = th]
    /\ Goto(th, "ins_publish")
    /\ UNCHANGED <<segs, dir, freedDirs, next, lv, inserted, res>>

\* Mutant: the lower half of the chunk is pointed at the new segment.
SplitEntriesLowHalf(D, x, s, s1) ==
    LET ld0 == segs[s].ld
        chunk == 2^(D.depth - (ld0 - 1))
        base == x - (x % chunk)
    IN IF D.depth = ld0
       THEN IF x % 2 = 0 THEN {x + 1} ELSE {x}
       ELSE {base + i : i \in 0 .. chunk \div 2 - 1}

\* 380-407: segment split without directory doubling.  depth_diff and the
\* chunk size come from sp_segment[0]->local_depth as it is now; the chunk's
\* upper half is pointed at the new segment.  A local depth above
\* depth + 1 makes the size_t exponent wrap (pow of a huge number).
SplitEntries(D, x, s, s1) ==
    LET ld0 == segs[s].ld
        e == D.depth - (ld0 - 1)
        chunk == 2^e
        base == x - (x % chunk)
    IN IF D.depth = ld0
       THEN IF x % 2 = 0 THEN {x + 1} ELSE {x}
       ELSE {base + chunk \div 2 + i : i \in 0 .. chunk \div 2 - 1}

\* Mutant: the doubled directory keeps the old capacity.
DoubledSameSize(D, x, s, s1) ==
    [segs |-> [j \in 0 .. 2^D.depth - 1 |->
                 IF j \div 2 = x THEN (IF j % 2 = 0 THEN s ELSE s1)
                 ELSE D.segs[j \div 2]],
     depth |-> D.depth + 1, lock |-> FreeLock]

\* 409-436: directory doubling.  Entry x of the old directory becomes the
\* pair of split segments, every other entry i becomes 2i and 2i+1.
Doubled(D, x, s, s1) ==
    [segs |-> [j \in 0 .. 2^(D.depth + 1) - 1 |->
                 IF j \div 2 = x THEN (IF j % 2 = 0 THEN s ELSE s1)
                 ELSE D.segs[j \div 2]],
     depth |-> D.depth + 1, lock |-> FreeLock]

InsPublish(th) ==
    LET D == dirs[dir]
        s == lv[th].target
        s1 == lv[th].s1
        x == Prefix(Hash(lv[th].key), D.depth)
    IN
    /\ pc[th] = "ins_publish"
    /\ \/ /\ segs[D.segs[x]].ld - 1 < D.depth
          /\ segs[s].ld - 1 <= D.depth
          /\ dirs' = [dirs EXCEPT ![dir].segs =
                        [i \in DOMAIN D.segs |->
                           IF i \in SplitEntries(D, x, s, s1) THEN s1 ELSE D.segs[i]]]
          /\ UNCHANGED <<dir, freedDirs>>
          /\ Goto(th, "ins_dir_unlock")
       \/ /\ segs[D.segs[x]].ld - 1 < D.depth
          /\ segs[s].ld - 1 > D.depth
          /\ Goto(th, "ins_wrap")
          /\ UNCHANGED <<dirs, dir, freedDirs>>
       \/ /\ segs[D.segs[x]].ld - 1 >= D.depth
          /\ dirs' = Append(dirs, Doubled(D, x, s, s1))
          /\ dir' = Len(dirs) + 1
          /\ freedDirs' = freedDirs \cup {dir}
          /\ Goto(th, "ins_dir_unlock")
    /\ UNCHANGED <<segs, next, lv, inserted, res>>

\* 407 / 437: lock_dir.release() on the mutex it acquired, which a doubling
\* has just deleted with its directory; then goto RETRY.
InsDirUnlock(th) ==
    /\ pc[th] = "ins_dir_unlock"
    /\ dirs' = [dirs EXCEPT ![lv[th].d].lock.writer = NoThread]
    /\ Goto(th, "ins_x")
    /\ UNCHANGED <<segs, dir, freedDirs, next, lv, inserted, res>>

-----------------------------------------------------------------------------
(* get (454-484).                                                         *)

\* 460: scoped_t lock_dir(dir->m, false) reads dir, then waits on its mutex.
GetDir(th) ==
    /\ pc[th] = "get_dir"
    /\ SetLv(th, [lv[th] EXCEPT !.d = dir, !.want = lv[th].key \in inserted])
    /\ Goto(th, "get_lock")
    /\ UNCHANGED <<segs, dirs, dir, freedDirs, next, inserted, res>>

GetLock(th) ==
    LET d == lv[th].d IN
    /\ pc[th] = "get_lock"
    /\ dirs[d].lock.writer = NoThread
    /\ dirs' = [dirs EXCEPT ![d].lock.readers = @ \cup {th}]
    /\ Goto(th, "get_x")
    /\ UNCHANGED <<segs, dir, freedDirs, next, lv, inserted, res>>

\* 460: x from dir->depth, read through the global dir.
GetX(th) ==
    /\ pc[th] = "get_x"
    /\ SetLv(th, [lv[th] EXCEPT !.x = Prefix(Hash(lv[th].key), dirs[dir].depth)])
    /\ Goto(th, "get_seg")
    /\ UNCHANGED <<segs, dirs, dir, freedDirs, next, inserted, res>>

\* 462: target_segment = dir->segments[x], dir read again.  The x of
\* 463-466 only shapes the returned position.
GetSeg(th) ==
    /\ pc[th] = "get_seg"
    /\ SetLv(th, [lv[th] EXCEPT !.target = dirs[dir].segs[lv[th].x]])
    /\ Goto(th, "get_slock")
    /\ UNCHANGED <<segs, dirs, dir, freedDirs, next, inserted, res>>

\* 469: the segment lock, shared.
GetSlock(th) ==
    LET s == lv[th].target IN
    /\ pc[th] = "get_slock"
    /\ segs[s].lock.writer = NoThread
    /\ SegLock(s, [segs[s].lock EXCEPT !.readers = @ \cup {th}])
    /\ Goto(th, "get_scan")
    /\ UNCHANGED <<dirs, dir, freedDirs, next, lv, inserted, res>>

\* 470-483: scan the window, then release both locks.  The scan is one
\* step: under the shared segment lock only inserters write slots, and an
\* entry never moves between the slots of a segment.
GetScan(th) ==
    LET s == lv[th].target IN
    /\ pc[th] = "get_scan"
    /\ res' = [res EXCEPT ![th] = [found |-> InSeg(lv[th].key, s), want |-> lv[th].want]]
    /\ dirs' = [dirs EXCEPT ![lv[th].d].lock.readers = @ \ {th}]
    /\ SegLock(s, [segs[s].lock EXCEPT !.readers = @ \ {th}])
    /\ Goto(th, "idle")
    /\ UNCHANGED <<dir, freedDirs, next, lv, inserted>>

-----------------------------------------------------------------------------

\* Every worker has run its whole queue: the driver joins the threads.
Terminated ==
    /\ \A th \in Threads : pc[th] = "idle" /\ next[th] > Len(Script[th])
    /\ UNCHANGED vars

Step(th) ==
    \/ Begin(th)
    \/ InsX(th) \/ InsTarget(th) \/ InsCheck(th) \/ InsLock(th) \/ InsProbe(th)
    \/ InsSplit(th) \/ InsSpDepth(th) \/ InsSpPattern(th) \/ InsS1Pattern(th)
    \/ InsDirWait(th) \/ InsDirLock(th) \/ InsPublish(th) \/ InsDirUnlock(th)
    \/ GetDir(th) \/ GetLock(th) \/ GetX(th) \/ GetSeg(th) \/ GetSlock(th) \/ GetScan(th)

Next == (\E th \in Threads : Step(th)) \/ Terminated

\* Worker threads are OS threads: each keeps being scheduled.
Fairness == \A th \in Threads : WF_vars(Step(th))

Spec == Init /\ [][Next]_vars /\ Fairness

-----------------------------------------------------------------------------
(* Properties.                                                            *)

PCs == {"idle", "ins_x", "ins_target", "ins_check", "ins_lock", "ins_probe",
        "ins_split", "ins_sp_depth", "ins_sp_pattern", "ins_s1_pattern",
        "ins_dir_wait", "ins_dir_lock", "ins_publish", "ins_dir_unlock",
        "ins_wrap", "get_dir", "get_lock", "get_x", "get_seg", "get_slock", "get_scan"}

Lock == [writer : Threads \cup {NoThread}, readers : SUBSET Threads]

TypeOK ==
    /\ \A n \in DOMAIN segs :
         /\ segs[n].slots \in [Slots -> Keys \cup {NoKey}]
         /\ segs[n].ld \in 1 .. HashBits
         /\ segs[n].pattern \in 0 .. 2^segs[n].ld - 1
         /\ segs[n].lock \in Lock
    /\ \A n \in DOMAIN dirs :
         /\ dirs[n].depth \in 1 .. HashBits
         /\ dirs[n].segs \in [0 .. 2^dirs[n].depth - 1 -> DOMAIN segs]
         /\ dirs[n].lock \in Lock
    /\ dir \in DOMAIN dirs /\ freedDirs \subseteq DOMAIN dirs \ {dir}
    /\ pc \in [Threads -> PCs]
    /\ inserted \subseteq Keys

\* A split is in progress from Split's migration until its directory entries
\* are written.
SplitPending ==
    \E th \in Threads :
       pc[th] \in {"ins_sp_depth", "ins_sp_pattern", "ins_s1_pattern",
                  "ins_dir_wait", "ins_dir_lock", "ins_publish"}

\* The directory is well formed whenever no split is half done: entry i
\* names a segment whose local depth is at most the global depth and whose
\* pattern is the top local_depth bits of i, so every segment owns the
\* aligned block of 2^(depth - local_depth) entries that insert's pattern
\* check (181) and the chunk arithmetic of 399-405 rely on.
DirectoryConsistent ==
    ~SplitPending =>
       \A i \in DOMAIN dirs[dir].segs :
          LET s == dirs[dir].segs[i] IN
          /\ segs[s].ld <= dirs[dir].depth
          /\ i \div 2^(dirs[dir].depth - segs[s].ld) = segs[s].pattern

\* Every key whose insert has returned sits in the window of the segment
\* the current directory names for it, through the splits, migrations and
\* doublings that follow, and the overwriting of the entries a split left
\* behind.
InsertedReachable == \A k \in inserted : InSeg(k, DirSeg(k))

\* A get of a key whose insert returned before the get began finds it.
SearchFindsInserted == \A th \in Threads : res[th].want => res[th].found

\* Every thread runs its whole queue: no insert spins forever on STARTOVER
\* or RETRY, and no lock is waited on forever.
OperationsComplete ==
    <>(\A th \in Threads : pc[th] = "idle" /\ next[th] > Len(Script[th]))

\* No thread holds or waits for the mutex of a directory that a doubling
\* has deleted (435): the doubler's own release at 437, and a get that read
\* dir before the swap (460), both touch freed memory.
FreedDirUnlocked ==
    /\ \A d \in freedDirs : Unlocked(dirs[d].lock)
    /\ \A th \in Threads : pc[th] = "get_lock" => lv[th].d \notin freedDirs
====
