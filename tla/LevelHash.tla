------------------------------ MODULE LevelHash ------------------------------
(***************************************************************************)
(* The concurrent Level hashing table of level_hash.hpp: two levels of    *)
(* buckets (levels[0] on top with twice the buckets of levels[1]), a      *)
(* reader/writer mutex per slot, one-step cuckoo displacement inside a    *)
(* level (try_movement), and a stop-the-world expansion run by the last   *)
(* thread to cross the resize barrier.                                    *)
(*                                                                         *)
(* Data abstraction.  A slot is a token (0 empty, 1 occupied) and a       *)
(* pointer, here the id of a key/value entry or Null; erase clears the    *)
(* token only, so the pointer of an empty slot is stale.  Levels are      *)
(* numbered by creation: level l has 2^(LevelPower-1+l) buckets, so the   *)
(* constructor's levels are 1 (top) and 0 (bottom) and expand() creates   *)
(* levels[0]+1.                                                           *)
(*                                                                         *)
(* Atomicity.  A step is one slot's critical section: lock, test, write,  *)
(* unlock.  try_movement keeps its source slot locked while it acquires   *)
(* destination slots, so that lock is held across steps (`src`).          *)
(* expand() takes no locks; it moves one bottom slot per step.            *)
(***************************************************************************)
EXTENDS Integers, Sequences, FiniteSets, SequencesExt

CONSTANTS
    Threads,      \* thread ids (the barrier counts all of them)
    Keys,         \* keys
    NoKey,        \* key of an entry id not yet allocated
    FirstHash,    \* [Keys -> Nat]: first_hash(key), low bits
    SecondHash,   \* [Keys -> Nat]: second_hash(key), low bits
    LevelPower,   \* constructor argument level_power
    Assoc,        \* assoc_num, slots per bucket
    MaxLevels,    \* bound: levels ever created
    MaxEntries,   \* bound: key/value entries ever allocated
    Budget,       \* bound: operations each thread issues
    Ops,          \* [Threads -> ...]: the operations each thread issues
    InitKeys      \* keys inserted by one thread before the run starts

ASSUME /\ NoKey \notin Keys
       /\ LevelPower \in Nat \ {0, 1}
       /\ Assoc \in Nat \ {0}
       /\ MaxLevels \in 2..8
       /\ Ops \in [Threads -> SUBSET {"insert", "query", "update", "erase"}]

LevelIds == 0..MaxLevels-1
Cap(l) == 2^(LevelPower - 1 + l)
SlotIds == UNION {{<<l, b, j>> : b \in 0..Cap(l)-1, j \in 0..Assoc-1} : l \in LevelIds}
NoSlot == <<-1, -1, -1>>
NoLevel == -1
EntryIds == 1..MaxEntries
Null == 0

first_index(hv, capacity) == hv % (capacity \div 2)
second_index(hv, capacity) == (hv % (capacity \div 2)) + capacity \div 2

\* The first (side 0) or second (side 1) candidate bucket of key k in level l.
Bucket(k, l, side) ==
    IF side = 0 THEN first_index(FirstHash[k], Cap(l))
    ELSE second_index(SecondHash[k], Cap(l))

\* The slots an insert tries in level l, in order: j-th slot of the first
\* bucket, then the j-th slot of the second bucket, for j = 0, 1, ...
\* generic_insert's step 1 and expand() both use this order.
InsertOrder(k, l) ==
    [n \in 1..2*Assoc |-> <<l, Bucket(k, l, (n-1) % 2), (n-1) \div 2>>]

\* Mutant: the scan never visits the second bucket.
ScanOrderFirstOnly(k, l) ==
    [n \in 1..2*Assoc |-> <<l, Bucket(k, l, 0), (n-1) % Assoc>>]

\* The slots query, erase and update visit in level l: every slot of the
\* first bucket, then every slot of the second.
ScanOrder(k, l) ==
    [n \in 1..2*Assoc |-> <<l, Bucket(k, l, (n-1) \div Assoc), (n-1) % Assoc>>]

\* Every slot of level l in the order expand() visits them.
LevelOrder(l) == [n \in 1..Cap(l)*Assoc |-> <<l, (n-1) \div Assoc, (n-1) % Assoc>>]

-----------------------------------------------------------------------------
\* The table after the load phase: one thread (count 1) inserts InitKeys
\* in order.  InitKeys are chosen so that step 1 places each of them, in
\* the first free slot of InsertOrder in levels[0] then levels[1]; an
\* InitKey that would need a movement or an expansion is an error here.
InitEkey == [e \in EntryIds |-> IF e <= Len(InitKeys) THEN InitKeys[e] ELSE NoKey]

LoadOne(tb, e) ==
    LET cand == InsertOrder(InitKeys[e], 1) \o InsertOrder(InitKeys[e], 0)
        i == SelectInSeq(cand, LAMBDA s : tb.tok[s] = 0)
    IN [tok |-> [tb.tok EXCEPT ![cand[i]] = 1], kv |-> [tb.kv EXCEPT ![cand[i]] = e]]

InitTable ==
    FoldLeft(LoadOne, [tok |-> [s \in SlotIds |-> 0], kv |-> [s \in SlotIds |-> Null]],
             [i \in 1..Len(InitKeys) |-> i])

-----------------------------------------------------------------------------
VARIABLES
    token,         \* SlotIds -> 0 or 1: every bucket's tokens
    kv,            \* SlotIds -> entry id or Null: every bucket's slot pointers
    levels,        \* 0..1 -> level id: levels[0] (top) and levels[1] (bottom)
    interim,       \* interim_level: a level id, or NoLevel
    needResizing,  \* need_resizing
    crossing,      \* resize_barrier.crossing
    waiting,       \* threads blocked in pthread_cond_wait on the barrier
    ekey,          \* EntryIds -> key of the entry (NoKey: not allocated)
    nextEntry,     \* next entry id the allocator hands out
    pc,            \* Threads -> program counter
    t,             \* Threads -> locals of the running operation
    inserted,      \* keys whose insert has returned (history)
    erased         \* entries whose slot an erase has cleared (history)

vars == <<token, kv, levels, interim, needResizing, crossing, waiting, ekey, nextEntry,
          pc, t, inserted, erased>>

\* The barrier's count: the drivers call set_thread_num(thread_num).
Count == Cardinality(Threads)

NoThread == [op |-> "none", key |-> NoKey, new |-> Null, n |-> 0, dj |-> 0,
             src |-> NoSlot, jdx |-> 0, must |-> FALSE, raced |-> FALSE,
             ops |-> Budget, out |-> "none"]

Init ==
    /\ token = InitTable.tok
    /\ kv = InitTable.kv
    /\ levels = (0 :> 1) @@ (1 :> 0)
    /\ interim = NoLevel
    /\ needResizing = FALSE
    /\ crossing = 0
    /\ waiting = {}
    /\ ekey = InitEkey
    /\ nextEntry = Len(InitKeys) + 1
    /\ pc = [th \in Threads |-> "idle"]
    /\ t = [th \in Threads |-> NoThread]
    /\ inserted = {InitKeys[i] : i \in 1..Len(InitKeys)}
    /\ erased = {}

-----------------------------------------------------------------------------
\* The slots of levels[0], levels[1] and the interim level; a cleared
\* level is unreachable.
LiveSlots == {s \in SlotIds : s[1] \in {levels[0], levels[1], interim}}

\* No other thread holds slot s across steps (try_movement's src_guard).
Unlocked(s) == \A u \in Threads : t[u].src # s

\* The operation of thread th returns with result r, releasing its locks.
Return(th, r) ==
    /\ pc' = [pc EXCEPT ![th] = "idle"]
    /\ t' = [t EXCEPT ![th].out = r, ![th].ops = @ - 1, ![th].src = NoSlot]

Goto(th, l) == pc' = [pc EXCEPT ![th] = l]

\* History: an erase of key k is running.
Erasing(k) == \E u \in Threads : t[u].op = "erase" /\ pc[u] # "idle" /\ t[u].key = k

\* History: the insert of thread th returned; its key is recorded unless an
\* erase of the key overlapped the insert.
InsertReturned(th) ==
    inserted' = IF t[th].raced THEN inserted ELSE inserted \cup {t[th].key}

(***************************************************************************)
(* A thread starts an operation.  insert and update first allocate the    *)
(* new entry (allocate_KV); insert, query and erase then test             *)
(* need_resizing, update does not.                                        *)
(***************************************************************************)
Begin(th, op, k) ==
    /\ pc[th] = "idle"
    /\ t[th].ops > 0
    /\ IF op \in {"insert", "update"}
       THEN /\ nextEntry <= MaxEntries
            /\ ekey' = [ekey EXCEPT ![nextEntry] = k]
            /\ nextEntry' = nextEntry + 1
       ELSE UNCHANGED <<ekey, nextEntry>>
    /\ t' = [u \in Threads |->
              IF u = th
              THEN [NoThread EXCEPT
                      !.op = op, !.key = k, !.ops = t[th].ops,
                      !.new = IF op \in {"insert", "update"} THEN nextEntry ELSE Null,
                      !.must = k \in inserted, !.raced = Erasing(k)]
              ELSE IF op = "erase" /\ t[u].key = k
              THEN [t[u] EXCEPT !.raced = TRUE]
              ELSE t[u]]
    /\ Goto(th, IF op = "update" THEN "probe" ELSE "enter")
    /\ inserted' = IF op = "erase" THEN inserted \ {k} ELSE inserted
    /\ UNCHANGED <<token, kv, levels, interim, needResizing, crossing, waiting, erased>>

\* Where an operation continues after the need_resizing test or the barrier.
Continue(th) == IF t[th].op = "insert" THEN "ins_probe" ELSE "probe"

\* need_resizing is false: go on to the table.
Enter(th) ==
    /\ pc[th] = "enter"
    /\ ~needResizing
    /\ Goto(th, Continue(th))
    /\ t' = [t EXCEPT ![th].n = 0]
    /\ UNCHANGED <<token, kv, levels, interim, needResizing, crossing, waiting, ekey,
                   nextEntry, inserted, erased>>

(***************************************************************************)
(* resize_barrier.cross: all but the last thread to arrive wait on the    *)
(* condition variable; the last one runs expand(), broadcasts and resets  *)
(* crossing.  pthread_cond_wait is called once, not in a loop.            *)
(***************************************************************************)
BarWait(th) ==
    /\ pc[th] = "enter"
    /\ needResizing
    /\ crossing + 1 < Count
    /\ crossing' = crossing + 1
    /\ waiting' = waiting \cup {th}
    /\ Goto(th, "bar_wait")
    /\ UNCHANGED <<token, kv, levels, interim, needResizing, ekey, nextEntry,
                   t, inserted, erased>>

\* The last thread to cross runs expand(): the interim level
\* levels[0]+1 is allocated empty, then the bottom level is walked.
BarExpand(th) ==
    /\ pc[th] = "enter"
    /\ needResizing
    /\ crossing + 1 >= Count
    /\ levels[0] + 1 \in LevelIds
    /\ interim' = levels[0] + 1
    /\ Goto(th, "expand")
    /\ t' = [t EXCEPT ![th].n = 0]
    /\ UNCHANGED <<token, kv, levels, needResizing, crossing, waiting, ekey,
                   nextEntry, inserted, erased>>

\* The bottom slot expand() visits next.
ExpSlot(th) == LevelOrder(levels[1])[t[th].n + 1]

\* An empty bottom slot is skipped.
ExpSkip(th) ==
    /\ pc[th] = "expand"
    /\ t[th].n < Cap(levels[1]) * Assoc
    /\ token[ExpSlot(th)] = 0
    /\ t' = [t EXCEPT ![th].n = @ + 1]
    /\ UNCHANGED <<token, kv, levels, interim, needResizing, crossing, waiting, ekey,
                   nextEntry, pc, inserted, erased>>

\* An occupied bottom slot goes to the first free slot of InsertOrder in
\* the interim level, and its token is cleared.  If there is none,
\* "The expanding fails: 3" and exit(1) end every thread with the bottom
\* level half migrated.
ExpMove(th) ==
    LET s == ExpSlot(th)
        cand == InsertOrder(ekey[kv[s]], interim)
        i == SelectInSeq(cand, LAMBDA d : token[d] = 0)
    IN /\ pc[th] = "expand"
       /\ t[th].n < Cap(levels[1]) * Assoc
       /\ token[s] = 1
       /\ IF i # 0
          THEN /\ token' = [token EXCEPT ![cand[i]] = 1, ![s] = 0]
               /\ kv' = [kv EXCEPT ![cand[i]] = kv[s]]
               /\ t' = [t EXCEPT ![th].n = @ + 1]
               /\ UNCHANGED pc
          ELSE /\ pc' = [u \in Threads |-> "exit"]
               /\ UNCHANGED <<token, kv, t>>
       /\ UNCHANGED <<levels, interim, needResizing, crossing, waiting, ekey,
                      nextEntry, inserted, erased>>

\* Mutant: the levels are not shifted, only the top is replaced.
ExpDoneNoShift(th) ==
    /\ pc[th] = "expand"
    /\ t[th].n = Cap(levels[1]) * Assoc
    /\ levels' = (0 :> interim) @@ (1 :> levels[1])
    /\ interim' = NoLevel
    /\ needResizing' = FALSE
    /\ crossing' = 0
    /\ waiting' = {}
    /\ Goto(th, Continue(th))
    /\ t' = [t EXCEPT ![th].n = 0]
    /\ UNCHANGED <<token, kv, ekey, nextEntry, inserted, erased>>

\* The closing transaction: the bottom level is cleared, levels shift,
\* need_resizing is reset; then the barrier broadcasts and crossing = 0.
ExpDone(th) ==
    /\ pc[th] = "expand"
    /\ t[th].n = Cap(levels[1]) * Assoc
    /\ levels' = (0 :> interim) @@ (1 :> levels[0])
    /\ interim' = NoLevel
    /\ needResizing' = FALSE
    /\ crossing' = 0
    /\ waiting' = {}
    /\ Goto(th, Continue(th))
    /\ t' = [t EXCEPT ![th].n = 0]
    /\ UNCHANGED <<token, kv, ekey, nextEntry, inserted, erased>>

\* A waiter returns from pthread_cond_wait after the broadcast.
BarWake(th) ==
    /\ pc[th] = "bar_wait"
    /\ th \notin waiting
    /\ Goto(th, Continue(th))
    /\ t' = [t EXCEPT ![th].n = 0]
    /\ UNCHANGED <<token, kv, levels, interim, needResizing, crossing, waiting, ekey,
                   nextEntry, inserted, erased>>

-----------------------------------------------------------------------------
(***************************************************************************)
(* generic_insert, step 1: for levels[0] then levels[1], for j in         *)
(* 0..assoc_num-1, lock slot j of the first bucket and take it if its     *)
(* token is 0, else do the same with slot j of the second bucket.         *)
(***************************************************************************)
NProbes == 4 * Assoc

InsSlot(th) ==
    LET n == t[th].n
    IN InsertOrder(t[th].key, levels[n \div (2 * Assoc)])[(n % (2 * Assoc)) + 1]

\* insert_empty_slot(created): write the pointer, then set the token.
InsStore(th) ==
    LET s == InsSlot(th)
    IN /\ pc[th] = "ins_probe"
       /\ Unlocked(s)
       /\ token[s] = 0
       /\ token' = [token EXCEPT ![s] = 1]
       /\ kv' = [kv EXCEPT ![s] = t[th].new]
       /\ InsertReturned(th)
       /\ Return(th, "inserted")
       /\ UNCHANGED <<levels, interim, needResizing, crossing, waiting, ekey, nextEntry,
                      erased>>

InsNext(th) ==
    LET s == InsSlot(th)
    IN /\ pc[th] = "ins_probe"
       /\ Unlocked(s)
       /\ token[s] = 1
       /\ t' = [t EXCEPT ![th].n = IF @ + 1 = NProbes THEN 0 ELSE @ + 1]
       /\ Goto(th, IF t[th].n + 1 = NProbes THEN "tm_src" ELSE "ins_probe")
       /\ UNCHANGED <<token, kv, levels, interim, needResizing, crossing, waiting, ekey,
                      nextEntry, inserted, erased>>

(***************************************************************************)
(* Step 2: try_movement(i, f_idx) then try_movement(i, s_idx) for i = 0,  *)
(* 1.  try_movement locks each slot of the bucket in turn (src_guard),    *)
(* reads the key of its entry without testing the token, and while still *)
(* holding it locks each slot of that key's other bucket (dst_guard); a   *)
(* free one receives the entry, the source token is cleared and the new   *)
(* entry is written into the source slot.  t.n numbers (call, source      *)
(* slot) pairs.                                                           *)
(***************************************************************************)
TmLevel(th) == levels[(t[th].n \div Assoc) \div 2]

TmSrcSlot(th) ==
    LET c == t[th].n \div Assoc
    IN <<TmLevel(th), Bucket(t[th].key, TmLevel(th), c % 2), t[th].n % Assoc>>

\* The key read through the slot's pointer; a never-written slot points at
\* the pool's offset 0, whose bytes are no entry of ours.
MKeys(s) == IF kv[s] = Null THEN Keys ELSE {ekey[kv[s]]}

\* jdx = (f_idx == bucket_idx) ? s_idx : f_idx for the source's key.
TmSrc(th) ==
    LET s == TmSrcSlot(th)
    IN /\ pc[th] = "tm_src"
       /\ Unlocked(s)
       /\ \E mk \in MKeys(s) :
             t' = [t EXCEPT ![th].src = s, ![th].dj = 0,
                            ![th].jdx = IF Bucket(mk, s[1], 0) = s[2]
                                        THEN Bucket(mk, s[1], 1)
                                        ELSE Bucket(mk, s[1], 0)]
       /\ Goto(th, "tm_dst")
       /\ UNCHANGED <<token, kv, levels, interim, needResizing, crossing, waiting, ekey,
                      nextEntry, inserted, erased>>

TmDstSlot(th) == <<t[th].src[1], t[th].jdx, t[th].dj>>

\* Mutant: the source slot is overwritten before the entry is copied out.
TmMoveNoCopy(th) ==
    LET s == t[th].src
        d == TmDstSlot(th)
    IN /\ pc[th] = "tm_dst"
       /\ Unlocked(d)
       /\ token[d] = 0
       /\ token' = [token EXCEPT ![s] = 1]
       /\ kv' = [kv EXCEPT ![s] = t[th].new]
       /\ InsertReturned(th)
       /\ Return(th, "inserted")
       /\ UNCHANGED <<levels, interim, needResizing, crossing, waiting, ekey, nextEntry,
                      erased>>

\* The destination is free: move the source's entry there, clear the
\* source token, insert_empty_slot(created) into the source slot.
TmMove(th) ==
    LET s == t[th].src
        d == TmDstSlot(th)
    IN /\ pc[th] = "tm_dst"
       /\ Unlocked(d)
       /\ token[d] = 0
       /\ token' = [token EXCEPT ![d] = 1, ![s] = 1]
       /\ kv' = [kv EXCEPT ![d] = kv[s], ![s] = t[th].new]
       /\ InsertReturned(th)
       /\ Return(th, "inserted")
       /\ UNCHANGED <<levels, interim, needResizing, crossing, waiting, ekey, nextEntry,
                      erased>>

\* The destination slot is occupied: try the next one, else release the
\* source and go on to the next source slot.
TmNext(th) ==
    /\ pc[th] = "tm_dst"
    /\ Unlocked(TmDstSlot(th))
    /\ token[TmDstSlot(th)] = 1
    /\ ~(t[th].dj + 1 = Assoc /\ t[th].n + 1 = NProbes)
    /\ IF t[th].dj + 1 < Assoc
       THEN /\ t' = [t EXCEPT ![th].dj = @ + 1]
            /\ UNCHANGED pc
       ELSE /\ t' = [t EXCEPT ![th].src = NoSlot, ![th].n = @ + 1]
            /\ Goto(th, "tm_src")
    /\ UNCHANGED <<token, kv, levels, interim, needResizing, crossing, waiting, ekey,
                   nextEntry, inserted, erased>>

\* Mutant: need_resizing is not set, and the loop retries as it is.
TmFailNoResize(th) ==
    /\ pc[th] = "tm_dst"
    /\ Unlocked(TmDstSlot(th))
    /\ token[TmDstSlot(th)] = 1
    /\ t[th].dj + 1 = Assoc /\ t[th].n + 1 = NProbes
    /\ t' = [t EXCEPT ![th].src = NoSlot]
    /\ Goto(th, "enter")
    /\ UNCHANGED <<token, kv, levels, interim, needResizing, crossing, waiting, ekey,
                   nextEntry, inserted, erased>>

\* Every movement failed.  Step 3 (b2t_movement) runs only when
\* level_expand_time > 0, which nothing ever sets; so need_resizing is set
\* and the loop restarts at its need_resizing test.
TmFail(th) ==
    /\ pc[th] = "tm_dst"
    /\ Unlocked(TmDstSlot(th))
    /\ token[TmDstSlot(th)] = 1
    /\ t[th].dj + 1 = Assoc /\ t[th].n + 1 = NProbes
    /\ needResizing' = TRUE
    /\ t' = [t EXCEPT ![th].src = NoSlot]
    /\ Goto(th, "enter")
    /\ UNCHANGED <<token, kv, levels, interim, crossing, waiting, ekey, nextEntry,
                   inserted, erased>>

-----------------------------------------------------------------------------
(***************************************************************************)
(* query, erase and generic_update: for levels[0] then levels[1], lock    *)
(* each slot of the first bucket, then of the second (shared for query    *)
(* and update, exclusive for erase), and act on the first slot whose      *)
(* token is 1 and whose entry has the key.                                *)
(***************************************************************************)
ScanSlot(th) ==
    LET n == t[th].n
    IN ScanOrder(t[th].key, levels[n \div (2 * Assoc)])[(n % (2 * Assoc)) + 1]

Match(th, s) == token[s] = 1 /\ ekey[kv[s]] = t[th].key

QueryHit(th) ==
    /\ pc[th] = "probe" /\ t[th].op = "query"
    /\ Unlocked(ScanSlot(th))
    /\ Match(th, ScanSlot(th))
    /\ Return(th, "found")
    /\ UNCHANGED <<token, kv, levels, interim, needResizing, crossing, waiting, ekey,
                   nextEntry, inserted, erased>>

\* erase clears the token; the entry is not freed and the pointer stays.
EraseHit(th) ==
    LET s == ScanSlot(th)
    IN /\ pc[th] = "probe" /\ t[th].op = "erase"
       /\ Unlocked(s)
       /\ Match(th, s)
       /\ token' = [token EXCEPT ![s] = 0]
       /\ erased' = erased \cup {kv[s]}
       /\ Return(th, "found")
       /\ UNCHANGED <<kv, levels, interim, needResizing, crossing, waiting, ekey,
                      nextEntry, inserted>>

\* update writes the new pointer and token 1 under the shared lock.
UpdateHit(th) ==
    LET s == ScanSlot(th)
    IN /\ pc[th] = "probe" /\ t[th].op = "update"
       /\ Unlocked(s)
       /\ Match(th, s)
       /\ kv' = [kv EXCEPT ![s] = t[th].new]
       /\ token' = [token EXCEPT ![s] = 1]
       /\ Return(th, "found")
       /\ UNCHANGED <<levels, interim, needResizing, crossing, waiting, ekey,
                      nextEntry, inserted, erased>>

\* No match in this slot: the next one, or return ret() (not found).
ProbeNext(th) ==
    /\ pc[th] = "probe"
    /\ Unlocked(ScanSlot(th))
    /\ ~Match(th, ScanSlot(th))
    /\ IF t[th].n + 1 = NProbes
       THEN Return(th, "none")
       ELSE /\ t' = [t EXCEPT ![th].n = @ + 1]
            /\ UNCHANGED pc
    /\ UNCHANGED <<token, kv, levels, interim, needResizing, crossing, waiting, ekey,
                   nextEntry, inserted, erased>>

-----------------------------------------------------------------------------
Thread(th) ==
    \/ \E op \in Ops[th], k \in Keys : Begin(th, op, k)
    \/ Enter(th) \/ BarWait(th) \/ BarExpand(th) \/ BarWake(th)
    \/ ExpSkip(th) \/ ExpMove(th) \/ ExpDone(th)
    \/ InsStore(th) \/ InsNext(th)
    \/ TmSrc(th) \/ TmMove(th) \/ TmNext(th) \/ TmFail(th)
    \/ QueryHit(th) \/ EraseHit(th) \/ UpdateHit(th) \/ ProbeNext(th)

\* Every thread has issued its operations, or the process has exited.
Terminated ==
    /\ \A th \in Threads : (pc[th] = "idle" /\ t[th].ops = 0) \/ pc[th] = "exit"
    /\ UNCHANGED vars

Next ==
    \/ \E th \in Threads : Thread(th)
    \/ Terminated

\* Threads are preemptively scheduled; a thread blocked on a lock or on the
\* barrier is simply not enabled.
Fairness == \A th \in Threads : WF_vars(Thread(th))

Spec == Init /\ [][Next]_vars /\ Fairness

-----------------------------------------------------------------------------
PCs == {"exit", "idle", "enter", "bar_wait", "expand", "ins_probe", "tm_src", "tm_dst", "probe"}

TypeOK ==
    /\ token \in [SlotIds -> {0, 1}]
    /\ kv \in [SlotIds -> EntryIds \cup {Null}]
    /\ levels[0] = levels[1] + 1
    /\ interim \in {NoLevel, levels[0] + 1}
    /\ crossing \in 0..Count-1
    /\ waiting \subseteq Threads
    /\ pc \in [Threads -> PCs]
    /\ nextEntry \in 1..MaxEntries+1
    /\ \A s \in LiveSlots : token[s] = 1 => kv[s] # Null

\* A slot whose token is 1 holds an entry with a key.
Present(k) == \E s \in LiveSlots : token[s] = 1 /\ ekey[kv[s]] = k

\* Once an insert of k has returned, and no erase of k has begun since or
\* overlapped it, k is in an occupied slot of levels[0] or levels[1]: the
\* cuckoo moves of try_movement and the expansion never lose an entry.
InsertedReachable == \A k \in inserted : Present(k)

\* A query that began after an insert of its key returned, with no erase of
\* the key begun meanwhile, finds the key: its slot-by-slot scan is never
\* overtaken by a try_movement of that entry.
SearchFindsInserted ==
    \A th \in Threads :
        (pc[th] = "idle" /\ t[th].op = "query" /\ t[th].must /\ ~t[th].raced)
            => t[th].out = "found"

\* An entry whose slot erase cleared never becomes reachable again: no
\* move of a stale pointer (try_movement reads the pointer of its source
\* slot without testing the token) brings an erased entry back.
ErasedStaysErased ==
    \A s \in LiveSlots : token[s] = 1 => kv[s] \notin erased

\* The slot a thread is about to lock.
NeedSlot(u) ==
    CASE pc[u] = "ins_probe" -> InsSlot(u)
      [] pc[u] = "tm_src"    -> TmSrcSlot(u)
      [] pc[u] = "tm_dst"    -> TmDstSlot(u)
      [] pc[u] = "probe"     -> ScanSlot(u)
      [] OTHER               -> NoSlot

Blocks(u, v) == u # v /\ t[v].src # NoSlot /\ NeedSlot(u) = t[v].src

\* No two threads wait for each other's lock: try_movement holds its
\* source slot while it acquires a destination slot, and another
\* try_movement may hold that destination as its source.
NoLockCycle == ~\E u, v \in Threads : Blocks(u, v) /\ Blocks(v, u)

\* Every operation returns: the insert loop terminates and no thread is
\* left waiting in the resize barrier.
OperationsComplete == \A th \in Threads : pc[th] # "idle" ~> pc[th] = "idle"
-----------------------------------------------------------------------------
(***************************************************************************)
(* Refinement.  The abstract table is the set of <<entry, key>> pairs in  *)
(* the occupied slots of levels[0], levels[1] and the interim level; a    *)
(* thread is busy from Begin until its Return; its request is its         *)
(* operation, key and new entry; its result is t.out.  Each operation     *)
(* takes effect in the step that returns it.                              *)
(***************************************************************************)
AbsStore == {<<kv[s], ekey[kv[s]]>> : s \in {s \in LiveSlots : token[s] = 1}}

AbsBusy == [th \in Threads |-> pc[th] \notin {"idle", "exit"}]

AbsReq == [th \in Threads |->
             IF AbsBusy[th] THEN [op |-> t[th].op, key |-> t[th].key, new |-> t[th].new]
             ELSE [op |-> "none", key |-> NoKey, new |-> Null]]

Abs == INSTANCE MultiMap WITH Entries <- EntryIds, NoEntry <- Null,
         store <- AbsStore, busy <- AbsBusy, req <- AbsReq,
         res <- [th \in Threads |-> t[th].out],
         halted <- \E th \in Threads : pc[th] = "exit"

\* The table behaves as an atomic multimap: every step either leaves the
\* abstract table, requests and results alone, or is one call, one whole
\* operation returning its result, or the process exiting.  Cuckoo moves,
\* expansion and the barrier are invisible to callers.
ImplementsMultiMap == Abs!Spec

====
