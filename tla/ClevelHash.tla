----------------------------- MODULE ClevelHash -----------------------------
(***************************************************************************)
(* The Clevel hashing engine of clevel_hash.hpp: a stack of levels of     *)
(* buckets of 64-bit slots, a LevelMeta root switched by CAS, mutator     *)
(* threads running insert / search / update / erase, and the background   *)
(* resize thread migrating the bottom level into the top one.             *)
(*                                                                         *)
(* Data abstraction.  A slot holds Empty or the id of a key/value entry;  *)
(* the partial stored in the slot's high bytes is implied by the entry's  *)
(* key.  Levels are numbered by creation: level l has capacity            *)
(* 2^(HashPower-1+l) and its `up` pointer, once set, names level l+1, so   *)
(* the chain last -> up -> ... -> first of a LevelMeta is an interval of  *)
(* level ids and `numLevels` is the number of levels published by the    *)
(* CAS on `up`.  LevelMeta objects are never reused, so a meta is the    *)
(* index of its record in the sequence `metas` and m_copy == meta is a   *)
(* comparison of indices.                                                 *)
(*                                                                         *)
(* Atomicity.  Each step reads or CASes one shared word, except that the  *)
(* Find walk reads one level (its two candidate buckets) per step, and    *)
(* erase clears the matches of one level per step.                        *)
(***************************************************************************)
EXTENDS Integers, Sequences, FiniteSets, Bitwise

CONSTANTS
    Threads,      \* mutator thread ids
    Resizer,      \* the background resize thread
    Keys,         \* keys
    NoKey,        \* key of an entry id not yet allocated
    KeyHash,      \* [Keys -> Nat]: low bits of hasher{}(key)
    KeyPartial,   \* [Keys -> Nat]: get_partial(hv), low bits
    HashPower,    \* template parameter HashPower
    Assoc,        \* assoc_num, slots per bucket
    MaxLevels,    \* bound: levels ever appended
    MaxMetas,     \* bound: LevelMeta objects ever allocated
    MaxEntries,   \* bound: key/value entries ever allocated
    MaxCrashes,   \* bound: crashes of the process
    Budget,       \* bound: operations each mutator thread issues
    Ops,          \* [Threads -> ...]: the operations each mutator issues
    InitKeys,     \* keys inserted by one thread before the run starts
    ThreadId      \* [Actors -> Nat]: the thread_id argument each actor passes

ASSUME /\ Resizer \notin Threads
       /\ NoKey \notin Keys
       /\ HashPower \in Nat \ {0, 1}
       /\ Assoc \in Nat \ {0}
       /\ MaxLevels \in 2..12
       /\ Ops \in [Threads -> SUBSET {"insert", "search", "update", "erase"}]
       /\ InitKeys \in Seq(Keys)
       /\ ThreadId[Resizer] = 0   \* resize(): size_type thread_id = 0

Actors == Threads \cup {Resizer}
\* The cells of tmp_meta that the actors index (set_thread_num sizes it).
TmpIds == {ThreadId[a] : a \in Actors}
LevelIds == 0..(MaxLevels - 1)
EntryIds == 1..MaxEntries
Empty == 0

\* Capacity of level l: the last level of a new table has 2^(HashPower-1)
\* buckets and every appended level twice its predecessor's (expand).
Cap(l) == 2 ^ (HashPower - 1 + l)

SlotIds == UNION {{<<l, b, j>> : b \in 0..(Cap(l) - 1), j \in 0..(Assoc - 1)}
                  : l \in LevelIds}

(***************************************************************************)
(* Bucket indexing: first_index and second_index.  0xc6a4a7935bd1e995 is  *)
(* multiplied modulo 2^64; only its low 12 bits (0x995) reach an index    *)
(* taken modulo a capacity of at most 2^12.                               *)
(***************************************************************************)
MurmurLow == 2453
ASSUME Cap(MaxLevels - 1) <= 4096

first_index(k, c) == KeyHash[k] % (c \div 2)

second_index(k, idx, c) ==
    LET nonzero_tag == (KeyPartial[k] \div 2) * 2 + 1
        hash_of_tag == (nonzero_tag * MurmurLow) % Cap(MaxLevels - 1)
    IN  ((idx ^^ hash_of_tag) % (c \div 2)) + c \div 2

(***************************************************************************)
(* Find walk over one level (find / find_empty_slot / search).  `acc` is  *)
(* the walk's result so far: the FindCode `res` with its locator          *)
(* (level_num, idx, slot_idx) and observed value old_e; `stop` is "found" *)
(* when a match ends the walk (fix_dup = false), "dedup" when a second    *)
(* match p1 holding e1 asks for del_dup.  `mode` is "find" (fix_dup =    *)
(* false), "fixdup" (fix_dup = true) or "empty" (find_empty_slot, which   *)
(* never compares keys).                                                  *)
(***************************************************************************)
IsFound(r) == r \in {"FOUND_IN_LEFT", "FOUND_IN_RIGHT"}
FoundCode(side) == IF side = "L" THEN "FOUND_IN_LEFT" ELSE "FOUND_IN_RIGHT"
VacancyCode(side) == IF side = "L" THEN "VACANCY_IN_LEFT" ELSE "VACANCY_IN_RIGHT"

NoResult == [res |-> "ABSENT_AND_NO_VACANCY", lvl |-> 0, bkt |-> 0, slt |-> 0,
             old |-> Empty, stop |-> "none", p1 |-> <<0, 0, 0>>, e1 |-> Empty]

RECURSIVE ScanBucket(_, _, _, _, _, _, _, _, _, _)
ScanBucket(s, ek, acc, k, l, b, side, mode, j, seenEmpty) ==
    IF j >= Assoc \/ acc.stop # "none" THEN acc
    ELSE LET e == s[<<l, b, j>>]
             here == [acc EXCEPT !.lvl = l, !.bkt = b, !.slt = j]
         IN
         IF e = Empty THEN
            IF IsFound(acc.res) \/ seenEmpty
            THEN ScanBucket(s, ek, acc, k, l, b, side, mode, j + 1, seenEmpty)
            \* "We prefer the less loaded bucket"
            ELSE IF side = "R" /\ acc.res = "VACANCY_IN_LEFT"
                    /\ acc.lvl = l /\ acc.slt <= j
            THEN ScanBucket(s, ek, acc, k, l, b, side, mode, j + 1, TRUE)
            ELSE ScanBucket(s, ek, [here EXCEPT !.res = VacancyCode(side),
                                                !.old = Empty],
                            k, l, b, side, mode, j + 1, TRUE)
         ELSE IF mode = "empty" \/ ek[e] # k
         THEN ScanBucket(s, ek, acc, k, l, b, side, mode, j + 1, seenEmpty)
         ELSE IF mode = "find"
         THEN [here EXCEPT !.res = FoundCode(side), !.stop = "found"]
         ELSE IF IsFound(acc.res)
         THEN [acc EXCEPT !.stop = "dedup", !.p1 = <<l, b, j>>, !.e1 = e]
         ELSE ScanBucket(s, ek, [here EXCEPT !.res = FoundCode(side), !.old = e],
                         k, l, b, side, mode, j + 1, seenEmpty)

ScanLevel(s, ek, acc, k, l, mode) ==
    LET f == first_index(k, Cap(l))
        sc == second_index(k, f, Cap(l))
    IN  ScanBucket(s, ek, ScanBucket(s, ek, acc, k, l, f, "L", mode, 0, FALSE),
                   k, l, sc, "R", mode, 0, FALSE)

RECURSIVE ScanLevels(_, _, _, _, _, _)
ScanLevels(s, ek, acc, k, l, top) ==
    IF l > top \/ acc.stop # "none" THEN acc
    ELSE ScanLevels(s, ek, ScanLevel(s, ek, acc, k, l, "find"), k, l + 1, top)

(***************************************************************************)
(* The initial table: the constructor's two empty levels (capacities      *)
(* 2^(HashPower-1) and 2^HashPower, is_resizing = false), into which one  *)
(* thread has inserted InitKeys in order while the resize thread slept:   *)
(* each insert takes the vacancy find reports, or expands and retries.    *)
(***************************************************************************)
InitEkey == [e \in EntryIds |-> IF e <= Len(InitKeys) THEN InitKeys[e] ELSE NoKey]

NewTable == [s |-> [x \in SlotIds |-> Empty], nl |-> 2,
             ms |-> <<[first |-> 1, last |-> 0, resizing |-> FALSE]>>]

RECURSIVE SeqInsert(_, _, _)
SeqInsert(st, k, e) ==
    LET m == st.ms[Len(st.ms)]
        a == ScanLevels(st.s, InitEkey, NoResult, k, m.last, m.first)
    IN  IF IsFound(a.res) THEN st
        ELSE IF a.res # "ABSENT_AND_NO_VACANCY" /\ (a.lvl # m.last \/ ~m.resizing)
        THEN [st EXCEPT !.s[<<a.lvl, a.bkt, a.slt>>] = e]
        ELSE IF st.nl >= MaxLevels THEN st
        ELSE SeqInsert([st EXCEPT !.nl = @ + 1,
                          !.ms = Append(@, [first |-> m.first + 1,
                                            last |-> m.last, resizing |-> TRUE])],
                       k, e)

RECURSIVE Prefill(_, _)
Prefill(st, i) ==
    IF i > Len(InitKeys) THEN st ELSE Prefill(SeqInsert(st, InitKeys[i], i), i + 1)

InitTable == Prefill(NewTable, 1)
ASSUME Len(InitKeys) < MaxEntries /\ Len(InitTable.ms) <= MaxMetas

-----------------------------------------------------------------------------
VARIABLES
    slot,          \* SlotIds -> entry id or Empty: every bucket's slots
    numLevels,     \* levels published through `up`: ids 0..numLevels-1
    metas,         \* every LevelMeta ever allocated, in order
    meta,          \* the root `meta`: index of the current LevelMeta (0: null)
    tmpMeta,       \* tmp_meta[thread_id]: index of a LevelMeta, or 0 (null)
    deadMetas,     \* LevelMetas passed to delete_persistent_atomic
    expandBucket,  \* expand_bucket: next bottom bucket to migrate
    ekey,          \* EntryIds -> key of the entry (NoKey: not allocated)
    nextEntry,     \* next entry id the allocator hands out
    frees,         \* EntryIds -> number of pmemobj_free calls on the entry
    pc,            \* Actors -> program counter
    t,             \* Threads -> locals of the running operation
    ex,            \* Actors -> locals of expand()
    rz,            \* locals of resize()
    inserted,      \* keys whose insert has returned (history)
    crashes        \* crashes so far

vars == <<slot, numLevels, metas, meta, tmpMeta, deadMetas, expandBucket, ekey,
          nextEntry, frees, pc, t, ex, rz, inserted, crashes>>

FirstLevel(m) == metas[m].first
LastLevel(m) == metas[m].last
Resizing(m) == metas[m].resizing
NLevels(m) == FirstLevel(m) - LastLevel(m) + 1

NoThread == [op |-> "none", key |-> NoKey, new |-> Empty, mc |-> 1, lv |-> 0,
             acc |-> NoResult, dup |-> TRUE, succ |-> FALSE, ebOld |-> 0,
             must |-> FALSE, raced |-> FALSE, ops |-> Budget, out |-> "none"]

Init ==
    /\ slot = InitTable.s
    /\ numLevels = InitTable.nl
    /\ metas = InitTable.ms
    /\ meta = Len(InitTable.ms)
    /\ tmpMeta = [i \in TmpIds |-> 0]
    /\ deadMetas = {}
    /\ expandBucket = 0
    /\ ekey = InitEkey
    /\ nextEntry = Len(InitKeys) + 1
    /\ frees = [e \in EntryIds |-> 0]
    /\ pc = [a \in Actors |-> IF a = Resizer THEN "rz_idle" ELSE "idle"]
    /\ t = [th \in Threads |-> NoThread]
    /\ ex = [a \in Actors |-> [cl |-> 0, nc |-> 0, mc |-> 1, ret |-> "idle"]]
    /\ rz = [mc |-> 1, bl |-> 0, slt |-> 0, src |-> Empty, j |-> 0, side |-> "L"]
    /\ inserted = {InitKeys[i] : i \in 1..Len(InitKeys)}
    /\ crashes = 0

Free(e) == frees' = [frees EXCEPT ![e] = @ + 1]

\* The operation of thread th returns with result r.
Return(th, r) ==
    /\ pc' = [pc EXCEPT ![th] = "idle"]
    /\ t' = [t EXCEPT ![th].out = r, ![th].ops = @ - 1]

Goto(a, l) == pc' = [pc EXCEPT ![a] = l]

\* History: the insert of thread th returned.  Its key is recorded unless
\* an erase of the key ran concurrently with the insert (`raced`: one
\* was running when it began, or one began during it).
Erasing(k) == \E u \in Threads : t[u].op = "erase" /\ pc[u] # "idle" /\ t[u].key = k

InsertReturned(th) ==
    inserted' = IF t[th].raced THEN inserted
                ELSE inserted \cup {t[th].key}

(***************************************************************************)
(* A thread starts an operation.  insert and update first allocate the    *)
(* new entry into the thread's tmp_entry cell (allocate_KV).              *)
(***************************************************************************)
Begin(th, op, k) ==
    /\ pc[th] = "idle"
    /\ t[th].ops > 0
    /\ op \in Ops[th]
    /\ IF op \in {"insert", "update"}
       THEN /\ nextEntry <= MaxEntries
            /\ ekey' = [ekey EXCEPT ![nextEntry] = k]
            /\ nextEntry' = nextEntry + 1
       ELSE UNCHANGED <<ekey, nextEntry>>
    /\ t' = [u \in Threads |->
              IF u = th
              THEN [NoThread EXCEPT
                      !.op = op, !.key = k, !.ops = t[th].ops,
                      !.new = IF op \in {"insert", "update"} THEN nextEntry ELSE Empty,
                      !.must = k \in inserted, !.raced = Erasing(k)]
              ELSE IF op = "erase" /\ t[u].key = k
              THEN [t[u] EXCEPT !.raced = TRUE]
              ELSE t[u]]
    /\ inserted' = IF op = "erase" THEN inserted \ {k} ELSE inserted
    /\ Goto(th, CASE op = "insert" -> "ins_retry"
                  [] op = "search" -> "se_retry"
                  [] op = "update" -> "upd_retry"
                  [] op = "erase"  -> "er_retry")
    /\ UNCHANGED <<crashes, slot, numLevels, metas, meta, tmpMeta, deadMetas,
                   expandBucket, frees, ex, rz>>

Frame == <<crashes, numLevels, metas, meta, tmpMeta, deadMetas, expandBucket, ekey,
          nextEntry, rz>>

\* First level a walk visits: find walks bottom-to-top, find_empty_slot
\* top-to-bottom.
WalkStart(m, mode) == IF mode = "empty" THEN FirstLevel(m) ELSE LastLevel(m)

\* Restart a walk of thread th on LevelMeta m.
Rewalk(th, m, mode) ==
    t' = [t EXCEPT ![th].mc = m, ![th].lv = WalkStart(m, mode),
                   ![th].acc = NoResult]

(***************************************************************************)
(* generic_insert                                                          *)
(***************************************************************************)
InsMode(th) == IF t[th].dup THEN "find" ELSE "empty"

\* What generic_insert does with the result a of its walk on m_copy = m.
InsertOutcome(th, a, m) ==
    CASE IsFound(a.res) ->
            /\ Free(t[th].new)
            /\ Return(th, "found")
            /\ InsertReturned(th)
            /\ UNCHANGED ex
      [] a.res # "ABSENT_AND_NO_VACANCY" /\ (a.lvl # LastLevel(m) \/ ~Resizing(m)) ->
            /\ t' = [t EXCEPT ![th].acc = a, ![th].mc = m]
            /\ Goto(th, "ins_cas")
            /\ UNCHANGED <<frees, ex, inserted>>
      [] OTHER ->
            \* start expanding
            /\ t' = [t EXCEPT ![th].acc = a, ![th].mc = m]
            /\ ex' = [ex EXCEPT ![th] = [cl |-> FirstLevel(m), nc |-> 0, mc |-> m,
                                         ret |-> "ins_retry"]]
            /\ Goto(th, "exp_start")
            /\ UNCHANGED <<frees, inserted>>

\* RETRY_INSERT: m_copy = meta.
InsRetry(th) ==
    /\ pc[th] = "ins_retry"
    /\ Rewalk(th, meta, InsMode(th))
    /\ Goto(th, "ins_find")
    /\ UNCHANGED <<slot, frees, ex, inserted, Frame>>

\* One level of find (fix_dup = false) or find_empty_slot.
InsFind(th) ==
    /\ pc[th] = "ins_find"
    /\ LET m == t[th].mc
           lv == t[th].lv
           a == ScanLevel(slot, ekey, t[th].acc, t[th].key, lv, InsMode(th))
           walked == IF t[th].dup THEN lv = FirstLevel(m)
                     ELSE a.res # "ABSENT_AND_NO_VACANCY" \/ lv = LastLevel(m)
       IN  IF a.stop = "found" THEN InsertOutcome(th, a, m)
           ELSE /\ t' = [t EXCEPT ![th].acc = a,
                                  ![th].lv = IF t[th].dup THEN lv + 1 ELSE lv - 1]
                /\ IF walked THEN Goto(th, "ins_ctx") ELSE UNCHANGED pc
                /\ UNCHANGED <<frees, ex, inserted>>
    /\ UNCHANGED <<slot, Frame>>

\* Context checking at the end of the walk: on a changed meta the walk
\* restarts on the new one.
InsCtx(th) ==
    /\ pc[th] = "ins_ctx"
    /\ IF t[th].mc = meta
       THEN InsertOutcome(th, t[th].acc, meta)
       ELSE /\ Rewalk(th, meta, InsMode(th))
            /\ Goto(th, "ins_find")
            /\ UNCHANGED <<frees, ex, inserted>>
    /\ UNCHANGED <<slot, Frame>>

AccSlot(a) == <<a.lvl, a.bkt, a.slt>>

\* Mutant: a plain store instead of the CAS.
InsCasStore(th) ==
    /\ pc[th] = "ins_cas"
    /\ slot' = [slot EXCEPT ![AccSlot(t[th].acc)] = t[th].new]
    /\ Goto(th, "ins_check")
    /\ UNCHANGED <<t, frees, ex, inserted, Frame>>

InsCas(th) ==
    /\ pc[th] = "ins_cas"
    /\ LET x == AccSlot(t[th].acc) IN
       IF slot[x] = t[th].acc.old
       THEN /\ slot' = [slot EXCEPT ![x] = t[th].new]
            /\ Goto(th, "ins_check")
       ELSE /\ Goto(th, "ins_retry")
            /\ UNCHANGED slot
    /\ UNCHANGED <<t, frees, ex, inserted, Frame>>

\* After a successful CAS into the bottom level: if resizing began since
\* m_copy was read, insert again (check_duplicate = false).
InsCheck(th) ==
    /\ pc[th] = "ins_check"
    /\ IF /\ ~Resizing(t[th].mc)
          /\ Resizing(meta)
          /\ t[th].acc.lvl = LastLevel(t[th].mc)
       THEN /\ t' = [t EXCEPT ![th].dup = FALSE]
            /\ Goto(th, "ins_retry")
            /\ UNCHANGED inserted
       ELSE /\ Return(th, "inserted")
            /\ InsertReturned(th)
    /\ UNCHANGED <<slot, frees, ex, Frame>>

(***************************************************************************)
(* search                                                                  *)
(***************************************************************************)
SeRetry(th) ==
    /\ pc[th] = "se_retry"
    /\ Rewalk(th, meta, "find")
    /\ Goto(th, "se_scan")
    /\ UNCHANGED <<slot, frees, ex, inserted, Frame>>

\* Mutant: the level loop stops after the bottom level.
SeScanBottomOnly(th) ==
    /\ pc[th] = "se_scan"
    /\ LET a == ScanLevel(slot, ekey, NoResult, t[th].key, t[th].lv, "find")
       IN  IF a.stop = "found" THEN Return(th, "found")
           ELSE Goto(th, "se_ctx") /\ UNCHANGED t
    /\ UNCHANGED <<slot, frees, ex, inserted, Frame>>

SeScan(th) ==
    /\ pc[th] = "se_scan"
    /\ LET lv == t[th].lv
           a == ScanLevel(slot, ekey, NoResult, t[th].key, lv, "find")
       IN  CASE a.stop = "found" -> Return(th, "found")
             [] lv = FirstLevel(t[th].mc) -> /\ Goto(th, "se_ctx")
                                             /\ UNCHANGED t
             [] OTHER -> /\ t' = [t EXCEPT ![th].lv = lv + 1]
                         /\ UNCHANGED pc
    /\ UNCHANGED <<slot, frees, ex, inserted, Frame>>

\* Mutant: not-found is returned without re-reading meta.
SeCtxNoRecheck(th) ==
    /\ pc[th] = "se_ctx"
    /\ Return(th, "notfound")
    /\ UNCHANGED <<slot, frees, ex, inserted, Frame>>

\* Mutant: the restart walks the stale m_copy again.
SeCtxStaleCopy(th) ==
    /\ pc[th] = "se_ctx"
    /\ IF t[th].mc = meta
       THEN Return(th, "notfound")
       ELSE /\ Rewalk(th, t[th].mc, "find")
            /\ Goto(th, "se_scan")
    /\ UNCHANGED <<slot, frees, ex, inserted, Frame>>

SeCtx(th) ==
    /\ pc[th] = "se_ctx"
    /\ IF t[th].mc = meta
       THEN Return(th, "notfound")
       ELSE /\ Rewalk(th, meta, "find")
            /\ Goto(th, "se_scan")
    /\ UNCHANGED <<slot, frees, ex, inserted, Frame>>

(***************************************************************************)
(* expand(m_copy), run by a mutator or by the resize thread.  ex[a].cl is *)
(* the level cl, ex[a].nc the level whose capacity is new_capacity, and   *)
(* ex[a].mc the m_copy of the meta loop.                                  *)
(***************************************************************************)
\* make_persistent_atomic<level_meta>(tmp_meta[i], ...): a fresh LevelMeta
\* whose pointer is stored in cell i.
AllocMeta(i, rec) ==
    /\ Len(metas) < MaxMetas
    /\ metas' = Append(metas, rec)
    /\ tmpMeta' = [tmpMeta EXCEPT ![i] = Len(metas) + 1]

\* delete_persistent_atomic(tmp_meta[i]): frees the object and nulls the
\* cell; a null cell is left alone.
DeleteTmpMeta(i) ==
    /\ deadMetas' = IF tmpMeta[i] = 0 THEN deadMetas ELSE deadMetas \cup {tmpMeta[i]}
    /\ tmpMeta' = [tmpMeta EXCEPT ![i] = 0]

\* Read cl->up.  If it is set, help update the meta (new_capacity =
\* cl->capacity) provided meta == m_copy still.
ExpStart(a) ==
    /\ pc[a] = "exp_start"
    /\ LET cl == ex[a].cl IN
       CASE cl = numLevels - 1 -> Goto(a, "exp_up") /\ UNCHANGED ex
         [] meta = ex[a].mc -> /\ ex' = [ex EXCEPT ![a].nc = cl]
                               /\ Goto(a, "exp_alloc")
         [] OTHER -> Goto(a, ex[a].ret) /\ UNCHANGED ex
    /\ UNCHANGED <<crashes, slot, numLevels, metas, meta, tmpMeta, deadMetas,
                   expandBucket, ekey, nextEntry, frees, t, rz, inserted>>

\* Append a new level: CAS(cl->up, 0, new level).  On failure the level
\* just allocated is freed.  The level is linked here and named by a meta
\* only at a later ExpMeta.
ExpUp(a) ==
    /\ pc[a] = "exp_up"
    /\ LET cl == ex[a].cl IN
       /\ IF cl = numLevels - 1
          THEN /\ numLevels < MaxLevels
               /\ numLevels' = numLevels + 1
          ELSE UNCHANGED numLevels
       /\ ex' = [ex EXCEPT ![a].nc = cl + 1]
    /\ Goto(a, "exp_alloc")
    /\ UNCHANGED <<crashes, slot, metas, meta, tmpMeta, deadMetas, expandBucket, ekey,
                   nextEntry, frees, t, rz, inserted>>

\* Mutant: the capacity test always takes the helper's record, so the
\* appender never names cl->up.
ExpMetaRecKeepFirst(a, m) ==
    [first |-> FirstLevel(m), last |-> LastLevel(m), resizing |-> TRUE]

\* The meta the loop builds on m_copy = m: {cl->up, last, true}, or
\* {first, last, true} when cl already has new_capacity.
ExpMetaRec(a, m) ==
    [first |-> IF ex[a].cl >= ex[a].nc THEN FirstLevel(m) ELSE ex[a].cl + 1,
     last |-> LastLevel(m), resizing |-> TRUE]

\* Mutant: the expanded meta is built with is_resizing = false.
ExpAllocNotResizing(a) ==
    /\ pc[a] = "exp_alloc"
    /\ AllocMeta(ThreadId[a], [ExpMetaRec(a, ex[a].mc) EXCEPT !.resizing = FALSE])
    /\ Goto(a, "exp_meta")
    /\ UNCHANGED <<crashes, slot, numLevels, meta, deadMetas, expandBucket, ekey,
                   nextEntry, frees, t, ex, rz, inserted>>

\* make_persistent_atomic<level_meta>(tmp_meta[thread_id], ...).
ExpAlloc(a) ==
    /\ pc[a] = "exp_alloc"
    /\ AllocMeta(ThreadId[a], ExpMetaRec(a, ex[a].mc))
    /\ Goto(a, "exp_meta")
    /\ UNCHANGED <<crashes, slot, numLevels, meta, deadMetas, expandBucket, ekey,
                   nextEntry, frees, t, ex, rz, inserted>>

\* CAS(meta, m_copy, tmp_meta[thread_id]).  On failure re-read meta: if
\* another thread already published a resizing meta whose first level has
\* new_capacity, delete tmp_meta and stop; otherwise allocate again (the
\* meta in tmp_meta is overwritten, not freed).
ExpMeta(a) ==
    /\ pc[a] = "exp_meta"
    /\ IF meta = ex[a].mc
       THEN /\ meta' = tmpMeta[ThreadId[a]]
            /\ Goto(a, ex[a].ret)
            /\ UNCHANGED <<tmpMeta, deadMetas, ex>>
       ELSE /\ ex' = [ex EXCEPT ![a].mc = meta, ![a].cl = FirstLevel(meta)]
            /\ IF FirstLevel(meta) >= ex[a].nc /\ Resizing(meta)
               THEN /\ DeleteTmpMeta(ThreadId[a])
                    /\ Goto(a, ex[a].ret)
               ELSE /\ Goto(a, "exp_alloc")
                    /\ UNCHANGED <<tmpMeta, deadMetas>>
            /\ UNCHANGED meta
    /\ UNCHANGED <<crashes, slot, numLevels, metas, expandBucket, ekey, nextEntry,
                   frees, t, rz, inserted>>

(***************************************************************************)
(* resize(): the background thread.  It sleeps while the meta names two  *)
(* levels; otherwise it migrates bottom bucket expand_bucket slot by slot *)
(* into the top level, and after the last bucket retires the bottom      *)
(* level with a new meta.                                                 *)
(***************************************************************************)
RzFrame == <<crashes, numLevels, ekey, nextEntry, frees, t, ex, inserted>>

\* Mutant: the n_levels == 2 sleep test is dropped.
RzRehashNoSleepGuard ==
    /\ pc[Resizer] = "rz_idle"
    /\ rz' = [rz EXCEPT !.mc = meta, !.bl = LastLevel(meta), !.slt = 0]
    /\ Goto(Resizer, "rz_load")
    /\ UNCHANGED <<slot, metas, meta, tmpMeta, deadMetas, expandBucket, RzFrame>>

\* Mutant: the sleep test off by one, sleeping while n_levels <= 3.
RzRehashSleepAtThree ==
    /\ pc[Resizer] = "rz_idle"
    /\ NLevels(meta) > 3
    /\ rz' = [rz EXCEPT !.mc = meta, !.bl = LastLevel(meta), !.slt = 0]
    /\ Goto(Resizer, "rz_load")
    /\ UNCHANGED <<slot, metas, meta, tmpMeta, deadMetas, expandBucket, RzFrame>>

\* RETRY_REHASH: m_copy = meta (the sleep while n_levels == 2 is a stutter).
RzRehash ==
    /\ pc[Resizer] = "rz_idle"
    /\ NLevels(meta) # 2
    /\ rz' = [rz EXCEPT !.mc = meta, !.bl = LastLevel(meta), !.slt = 0]
    /\ Goto(Resizer, "rz_load")
    /\ UNCHANGED <<slot, metas, meta, tmpMeta, deadMetas, expandBucket, RzFrame>>

\* The next slot of the bucket, or the bucket is done.
RzNextSlot == IF rz.slt + 1 < Assoc
              THEN /\ rz' = [rz EXCEPT !.slt = @ + 1]
                   /\ Goto(Resizer, "rz_load")
              ELSE /\ Goto(Resizer, "rz_inc")
                   /\ UNCHANGED rz

RzSrc == <<rz.bl, expandBucket, rz.slt>>

\* src_tmp = b.slots[slot_idx].p
RzLoad ==
    /\ pc[Resizer] = "rz_load"
    /\ IF slot[RzSrc] = Empty
       THEN RzNextSlot
       ELSE /\ rz' = [rz EXCEPT !.src = slot[RzSrc], !.j = 0, !.side = "L"]
            /\ Goto(Resizer, "rz_copy")
    /\ UNCHANGED <<slot, metas, meta, tmpMeta, deadMetas, expandBucket, RzFrame>>

\* Try slot j of dst_b1 then of dst_b2: CAS it from empty to src_tmp.
\* When all are taken, expand(m_copy) and go to RETRY_REHASH.
RzCopy ==
    /\ pc[Resizer] = "rz_copy"
    /\ LET tl == FirstLevel(rz.mc)
           k == ekey[rz.src]
           f == first_index(k, Cap(tl))
           d == <<tl, IF rz.side = "L" THEN f ELSE second_index(k, f, Cap(tl)), rz.j>>
       IN  CASE slot[d] = Empty ->
                   /\ slot' = [slot EXCEPT ![d] = rz.src]
                   /\ Goto(Resizer, "rz_clear")
                   /\ UNCHANGED <<rz, ex>>
             [] rz.side = "L" \/ rz.j + 1 < Assoc ->
                   /\ rz' = [rz EXCEPT !.side = IF @ = "L" THEN "R" ELSE "L",
                                       !.j = IF rz.side = "L" THEN @ ELSE @ + 1]
                   /\ UNCHANGED <<slot, pc, ex>>
             [] OTHER ->
                   /\ ex' = [ex EXCEPT ![Resizer] = [cl |-> tl, nc |-> 0,
                                                     mc |-> rz.mc, ret |-> "rz_idle"]]
                   /\ Goto(Resizer, "exp_start")
                   /\ UNCHANGED <<slot, rz>>
    /\ UNCHANGED <<crashes, numLevels, metas, meta, tmpMeta, deadMetas, expandBucket,
                   ekey, nextEntry, frees, t, inserted>>

\* b.slots[slot_idx].p = nullptr: a plain store, not a CAS.
RzClear ==
    /\ pc[Resizer] = "rz_clear"
    /\ slot' = [slot EXCEPT ![RzSrc] = Empty]
    /\ RzNextSlot
    /\ UNCHANGED <<metas, meta, tmpMeta, deadMetas, expandBucket, RzFrame>>

\* Mutant: the bottom level is retired one bucket early.
RzIncEarlyRetire ==
    /\ pc[Resizer] = "rz_inc"
    /\ expandBucket' = expandBucket + 1
    /\ Goto(Resizer, IF expandBucket + 2 = Cap(rz.bl) THEN "rz_retire" ELSE "rz_idle")
    /\ UNCHANGED <<slot, metas, meta, tmpMeta, deadMetas, rz, RzFrame>>

RzInc ==
    /\ pc[Resizer] = "rz_inc"
    /\ expandBucket' = expandBucket + 1
    /\ Goto(Resizer, IF expandBucket + 1 = Cap(rz.bl) THEN "rz_retire" ELSE "rz_idle")
    /\ UNCHANGED <<slot, metas, meta, tmpMeta, deadMetas, rz, RzFrame>>

\* Mutant: the new meta keeps bl as its last level.
\* make_persistent_atomic(tmp_meta[0], first, bl->up, levels_left != 2)
\* on the m_copy read last.
RzMetaRec(m) == [first |-> FirstLevel(m), last |-> rz.bl + 1,
                 resizing |-> FirstLevel(m) - LastLevel(m) # 2]

\* Mutant: the new meta keeps bl as its last level.
RzRetireKeepsBottom ==
    /\ pc[Resizer] = "rz_retire"
    /\ AllocMeta(ThreadId[Resizer],
                 [RzMetaRec(rz.mc) EXCEPT !.last = rz.bl])
    /\ Goto(Resizer, "rz_cas")
    /\ UNCHANGED <<slot, meta, deadMetas, expandBucket, rz, RzFrame>>

\* Allocate the meta that retires level bl into tmp_meta[thread_id].
RzRetire ==
    /\ pc[Resizer] = "rz_retire"
    /\ AllocMeta(ThreadId[Resizer], RzMetaRec(rz.mc))
    /\ Goto(Resizer, "rz_cas")
    /\ UNCHANGED <<slot, meta, deadMetas, expandBucket, rz, RzFrame>>

\* Mutant: tmp_meta is deleted after the CAS whether it won or lost.
RzRetireCasFreeAlways ==
    /\ pc[Resizer] = "rz_cas"
    /\ DeleteTmpMeta(ThreadId[Resizer])
    /\ IF meta = rz.mc
       THEN /\ meta' = tmpMeta[ThreadId[Resizer]]
            /\ Goto(Resizer, "rz_reset")
            /\ UNCHANGED rz
       ELSE /\ rz' = [rz EXCEPT !.mc = meta]
            /\ Goto(Resizer, "rz_retire")
            /\ UNCHANGED meta
    /\ UNCHANGED <<slot, metas, expandBucket, RzFrame>>

\* CAS(meta, m_copy, tmp_meta[thread_id]); on failure delete tmp_meta,
\* re-read m_copy = meta and allocate again.
RzRetireCas ==
    /\ pc[Resizer] = "rz_cas"
    /\ IF meta = rz.mc
       THEN /\ meta' = tmpMeta[ThreadId[Resizer]]
            /\ Goto(Resizer, "rz_reset")
            /\ UNCHANGED <<tmpMeta, deadMetas, rz>>
       ELSE /\ DeleteTmpMeta(ThreadId[Resizer])
            /\ rz' = [rz EXCEPT !.mc = meta]
            /\ Goto(Resizer, "rz_retire")
            /\ UNCHANGED meta
    /\ UNCHANGED <<slot, metas, expandBucket, RzFrame>>

RzReset ==
    /\ pc[Resizer] = "rz_reset"
    /\ expandBucket' = 0
    /\ Goto(Resizer, "rz_idle")
    /\ UNCHANGED <<slot, metas, meta, tmpMeta, deadMetas, rz, RzFrame>>

(***************************************************************************)
(* generic_update                                                          *)
(***************************************************************************)
UpdRetry(th) ==
    /\ pc[th] = "upd_retry"
    /\ Rewalk(th, meta, "fixdup")
    /\ Goto(th, "upd_eb")
    /\ UNCHANGED <<slot, frees, ex, inserted, Frame>>

\* expand_bucket_old = expand_bucket
UpdEb(th) ==
    /\ pc[th] = "upd_eb"
    /\ t' = [t EXCEPT ![th].ebOld = expandBucket]
    /\ Goto(th, "upd_find")
    /\ UNCHANGED <<slot, frees, ex, inserted, Frame>>

\* del_dup(p1, p2, e1, e2), with p2/e2 the match found first (lower) and
\* p1/e1 the second one.  The same entry twice: clear the lower slot, and
\* "Never fires!" assert(false) when both sit in one level.  Two entries:
\* clear the earlier one and free it.
DelDup(th, a) ==
    LET p2 == AccSlot(a)
        e2 == a.old
    IN  IF a.e1 = e2 /\ ~(a.lvl < a.p1[1])
        THEN /\ Goto(th, "assert_fail")
             /\ UNCHANGED <<slot, frees, t>>
        ELSE /\ IF slot[a.p1] = a.e1 /\ slot[p2] = e2
                THEN /\ slot' = [slot EXCEPT ![p2] = Empty]
                     /\ IF a.e1 = e2 THEN UNCHANGED frees ELSE Free(e2)
                ELSE UNCHANGED <<slot, frees>>
             \* goto RETRY_FIND: walk again on the same m_copy
             /\ Rewalk(th, t[th].mc, "fixdup")
             /\ UNCHANGED pc

\* What generic_update does with the result a of find on m_copy = m.
UpdateOutcome(th, a, m) ==
    CASE IsFound(a.res) /\ t[th].succ /\ a.old = t[th].new ->
            /\ Return(th, "updated")
            /\ UNCHANGED frees
      [] IsFound(a.res) ->
            /\ t' = [t EXCEPT ![th].acc = a, ![th].mc = m]
            /\ Goto(th, "upd_cas")
            /\ UNCHANGED frees
      [] OTHER ->
            /\ IF t[th].succ THEN UNCHANGED frees ELSE Free(t[th].new)
            /\ Return(th, IF t[th].succ THEN "updated" ELSE "notfound")

\* One level of find with fix_dup = true.
UpdFind(th) ==
    /\ pc[th] = "upd_find"
    /\ LET m == t[th].mc
           lv == t[th].lv
           a == ScanLevel(slot, ekey, t[th].acc, t[th].key, lv, "fixdup")
       IN  CASE a.stop = "dedup" -> DelDup(th, a)
             [] lv = FirstLevel(m) -> /\ t' = [t EXCEPT ![th].acc = a]
                                      /\ Goto(th, "upd_ctx")
                                      /\ UNCHANGED <<slot, frees>>
             [] OTHER -> /\ t' = [t EXCEPT ![th].acc = a, ![th].lv = lv + 1]
                         /\ UNCHANGED <<slot, frees, pc>>
    /\ UNCHANGED <<ex, inserted, Frame>>

UpdCtx(th) ==
    /\ pc[th] = "upd_ctx"
    /\ IF t[th].mc = meta
       THEN UpdateOutcome(th, t[th].acc, meta)
       ELSE /\ Rewalk(th, meta, "fixdup")
            /\ Goto(th, "upd_find")
            /\ UNCHANGED frees
    /\ UNCHANGED <<slot, ex, inserted, Frame>>

UpdCas(th) ==
    /\ pc[th] = "upd_cas"
    /\ LET x == AccSlot(t[th].acc) IN
       IF slot[x] = t[th].acc.old
       THEN /\ slot' = [slot EXCEPT ![x] = t[th].new]
            /\ Goto(th, "upd_check")
       ELSE /\ Goto(th, "upd_retry")
            /\ UNCHANGED slot
    /\ UNCHANGED <<t, frees, ex, inserted, Frame>>

\* Context checking after a successful CAS: the meta changed, or the slot
\* is in the bottom level within [expand_bucket_old, expand_bucket].
UpdCheck(th) ==
    /\ pc[th] = "upd_check"
    /\ LET a == t[th].acc IN
       IF \/ t[th].mc # meta
          \/ /\ a.lvl = LastLevel(t[th].mc)
             /\ a.bkt <= expandBucket
             /\ a.bkt >= t[th].ebOld
       THEN /\ t' = [t EXCEPT ![th].succ = TRUE]
            /\ Goto(th, "upd_retry")
       ELSE Return(th, "updated")
    /\ UNCHANGED <<slot, frees, ex, inserted, Frame>>

(***************************************************************************)
(* erase.  The context check after each successful CAS ends in `continue` *)
(* on both of its branches, so it changes nothing (and its read of the    *)
(* uninitialised expand_bucket_old has no effect).                        *)
(***************************************************************************)
ErRetry(th) ==
    /\ pc[th] = "er_retry"
    /\ Rewalk(th, meta, "find")
    /\ Goto(th, "er_scan")
    /\ UNCHANGED <<slot, frees, ex, inserted, Frame>>

\* The slots of level l's two candidate buckets for key k.
CandidateSlots(k, l) ==
    LET f == first_index(k, Cap(l))
    IN  {<<l, b, j>> : b \in {f, second_index(k, f, Cap(l))}, j \in 0..(Assoc - 1)}

\* CAS every slot of this level holding key k to zero and free its entry.
ErScan(th) ==
    /\ pc[th] = "er_scan"
    /\ LET lv == t[th].lv
           hit == {x \in CandidateSlots(t[th].key, lv) :
                      slot[x] # Empty /\ ekey[slot[x]] = t[th].key}
       IN  /\ slot' = [x \in SlotIds |-> IF x \in hit THEN Empty ELSE slot[x]]
           /\ frees' = [e \in EntryIds |->
                          frees[e] + Cardinality({x \in hit : slot[x] = e})]
           /\ t' = [t EXCEPT ![th].lv = lv + 1, ![th].succ = @ \/ hit # {}]
           /\ IF lv = FirstLevel(t[th].mc) THEN Goto(th, "er_ctx") ELSE UNCHANGED pc
    /\ UNCHANGED <<ex, inserted, Frame>>

ErCtx(th) ==
    /\ pc[th] = "er_ctx"
    /\ IF t[th].mc = meta
       THEN Return(th, IF t[th].succ THEN "erased" ELSE "notfound")
       ELSE /\ Rewalk(th, meta, "find")
            /\ Goto(th, "er_scan")
    /\ UNCHANGED <<slot, frees, ex, inserted, Frame>>

(***************************************************************************)
(* Crash and reopen                                                        *)
(***************************************************************************)

\* The process crashes and the pool is reopened.  The persistent objects
\* keep their last stores (every CAS and store is persisted before the
\* thread's next step); locals are lost, and an operation in flight never
\* returns but counts as issued.  Nothing recovers, and nothing starts the resize thread again: only the
\* constructor that creates the table does.
Crash ==
    /\ crashes < MaxCrashes
    /\ crashes' = crashes + 1
    /\ pc' = [a \in Actors |-> IF a = Resizer THEN "rz_gone" ELSE "idle"]
    /\ t' = [th \in Threads |->
              [NoThread EXCEPT !.ops = IF pc[th] = "idle" THEN t[th].ops ELSE t[th].ops - 1]]
    /\ ex' = [a \in Actors |-> [cl |-> 0, nc |-> 0, mc |-> 1, ret |-> "idle"]]
    /\ UNCHANGED <<slot, numLevels, metas, meta, tmpMeta, deadMetas, expandBucket,
                   ekey, nextEntry, frees, rz, inserted>>

-----------------------------------------------------------------------------
\* Every mutator has issued its operations and the resize thread sleeps.
Quiescent ==
    /\ \A th \in Threads : pc[th] = "idle" /\ t[th].ops = 0
    /\ pc[Resizer] = "rz_idle" /\ NLevels(meta) = 2

Mutator(th) ==
    \/ \E op \in Ops[th], k \in Keys : Begin(th, op, k)
    \/ InsRetry(th) \/ InsFind(th) \/ InsCtx(th) \/ InsCas(th) \/ InsCheck(th)
    \/ SeRetry(th) \/ SeScan(th) \/ SeCtx(th)
    \/ UpdRetry(th) \/ UpdEb(th) \/ UpdFind(th) \/ UpdCtx(th) \/ UpdCas(th)
    \/ UpdCheck(th)
    \/ ErRetry(th) \/ ErScan(th) \/ ErCtx(th)

Expander(a) == ExpStart(a) \/ ExpUp(a) \/ ExpAlloc(a) \/ ExpMeta(a)

ResizeThread ==
    \/ RzRehash \/ RzLoad \/ RzCopy \/ RzClear \/ RzInc \/ RzRetire \/ RzRetireCas
    \/ RzReset

\* Every mutator has issued its operations and the resize thread sleeps
\* (its n_levels == 2 test holds) or is gone after a crash: the program
\* only polls from here on.
Terminated ==
    /\ \A th \in Threads : pc[th] = "idle" /\ t[th].ops = 0
    /\ pc[Resizer] \in {"rz_idle", "rz_gone"} /\ ~ENABLED RzRehash
    /\ UNCHANGED vars

Next ==
    \/ \E th \in Threads : Mutator(th)
    \/ \E a \in Actors : Expander(a)
    \/ ResizeThread
    \/ Crash
    \/ Terminated

\* Threads are preemptively scheduled and never block: each keeps running.
Fairness ==
    /\ \A th \in Threads : WF_vars(Mutator(th) \/ Expander(th))
    /\ WF_vars(ResizeThread \/ Expander(Resizer))

Spec == Init /\ [][Next]_vars /\ Fairness

-----------------------------------------------------------------------------
PCs == {"idle", "ins_retry", "ins_find", "ins_ctx", "ins_cas", "ins_check",
        "se_retry", "se_scan", "se_ctx",
        "upd_retry", "upd_eb", "upd_find", "upd_ctx", "upd_cas", "upd_check",
        "er_retry", "er_scan", "er_ctx", "assert_fail",
        "exp_start", "exp_up", "exp_alloc", "exp_meta",
        "rz_idle", "rz_load", "rz_copy", "rz_clear", "rz_inc", "rz_retire",
        "rz_cas", "rz_reset", "rz_gone"}

TypeOK ==
    /\ slot \in [SlotIds -> EntryIds \cup {Empty}]
    /\ numLevels \in 2..MaxLevels
    /\ \A i \in 1..Len(metas) :
          /\ metas[i].last < metas[i].first
          /\ metas[i].first < numLevels
    /\ meta \in 1..Len(metas)
    /\ tmpMeta \in [TmpIds -> 0..Len(metas)]
    /\ deadMetas \subseteq 1..Len(metas)
    /\ crashes \in 0..MaxCrashes
    /\ expandBucket \in Nat
    /\ ekey \in [EntryIds -> Keys \cup {NoKey}]
    /\ nextEntry \in 1..(MaxEntries + 1)
    /\ frees \in [EntryIds -> Nat]
    /\ pc \in [Actors -> PCs]
    /\ inserted \subseteq Keys

\* The slots a reader of the current meta can reach.
LiveSlots == {x \in SlotIds : x[1] \in LastLevel(meta)..FirstLevel(meta)}

Present(k) == \E x \in LiveSlots : slot[x] # Empty /\ ekey[slot[x]] = k

(***************************************************************************)
(* Invariants                                                              *)
(***************************************************************************)

\* Whenever the current meta names more than two levels it says
\* is_resizing: inserts read that flag to keep off the bottom level the
\* resize thread is emptying.  Expanders, helpers and the resize thread
\* each publish metas.
ResizingWhileMultiLevel == NLevels(meta) > 2 => Resizing(meta)

\* The root meta is a LevelMeta that is allocated and not deleted.  An
\* expander that loses its meta CAS to a helper, and the resize thread
\* whenever it loses its CAS, delete the meta their tmp_meta cell holds;
\* the cell is indexed by thread_id and the resize thread passes 0.
RootMetaLive == meta \in (1..Len(metas)) \ deadMetas

\* Every level linked through `up` is the first level of the root meta,
\* except while an expander is between its append CAS and its meta CAS:
\* expand links the level and names it in two steps, and later expanders
\* that find `up` set only republish the first level they read.
AppendedLevelPublished ==
    (\A a \in Actors : pc[a] \notin {"exp_alloc", "exp_meta"})
        => FirstLevel(meta) = numLevels - 1

\* A key whose insert has returned stays reachable from the root meta,
\* across migration of its bucket and retirement of its level.
InsertedReachable == \A k \in inserted : Present(k)

\* A search that began after an insert of its key returned finds it, unless
\* an erase of the key began meanwhile.
SearchFindsInserted ==
    \A th \in Threads :
        ~(pc[th] = "idle" /\ t[th].out = "notfound" /\ t[th].must /\ ~t[th].raced)

\* No slot reachable from the root meta refers to an entry that has been
\* freed: erase, del_dup and insert free entries while the resize thread
\* and other mutators may still hold them in local copies (src_tmp,
\* tmp_entry) that they go on to publish.
NoDanglingEntry ==
    \A x \in LiveSlots : slot[x] # Empty => frees[slot[x]] = 0

\* No entry is passed to pmemobj_free twice: erase frees every slot it
\* clears, del_dup frees the older of two entries, insert and update free
\* their unused tmp_entry.
NoDoubleFree == \A e \in EntryIds : frees[e] <= 1

\* The "Never fires!" assert(false) in find (one entry in two slots of the
\* same level) is never reached.
NoAssertFailure == \A th \in Threads : pc[th] # "assert_fail"

\* Once everything is quiescent, every entry ever allocated is either
\* reachable from the root meta or freed: an update that replaces an
\* entry, and del_dup, must hand the old entry back to the allocator.
NoLeakedEntry ==
    Quiescent =>
        \A e \in 1..(nextEntry - 1) :
            frees[e] > 0 \/ \E x \in LiveSlots : slot[x] = e
\* Uniqueness at linearization: once everything is quiescent no key is
\* held by two reachable slots.  Concurrent inserts of one key each CAS
\* their own vacancy after a find that saw neither.
UniqueAtQuiescence ==
    Quiescent =>
        \A x, y \in LiveSlots :
            (x # y /\ slot[x] # Empty /\ slot[y] # Empty) => ekey[slot[x]] # ekey[slot[y]]
(***************************************************************************)
(* Liveness, under the fairness above                                      *)
(***************************************************************************)

\* The resize thread drains every extra level: a table holding more than
\* two levels eventually holds two again, although mutators keep filling
\* the top level and the resizer itself may have to expand mid-migration.
ResizeCompletes == NLevels(meta) > 2 ~> NLevels(meta) = 2

\* Every operation a mutator starts returns: the insert, search, update
\* and erase retry loops (meta changed, CAS lost, resize began) end.
OperationsComplete == \A th \in Threads : pc[th] # "idle" ~> pc[th] = "idle"
====
