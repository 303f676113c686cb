--------------------------- MODULE MC_ClevelHash ---------------------------
(* Model-checking instance of ClevelHash: five keys whose hashes collide *)
(* in every level, so that a few inserts fill their candidate buckets    *)
(* and force expansion and migration.                                    *)
EXTENDS ClevelHash, TLC

CONSTANTS k1, k2, k3, k4, k5, t1, t2

\* k1..k5 share both candidate buckets of level 0 and of level 1 per
\* parity; level 2 separates them into buckets 0, 2, 5 and 7.
MCKeyHash == (k1 :> 0) @@ (k2 :> 2) @@ (k3 :> 0) @@ (k4 :> 2) @@ (k5 :> 0)
MCKeyPartial == (k1 :> 0) @@ (k2 :> 2) @@ (k3 :> 4) @@ (k4 :> 6) @@ (k5 :> 2)
MCInitKeys == <<k1, k2, k3>>
MCInitMutators == <<k1>>
MCInitNone == << >>
\* Enough keys that the prefill leaves the table mid-resize.
MCInitResizing == <<k1, k2, k3, k4, k5>>
\* The operations each mutator issues.
MCAllOps == [th \in Threads |-> {"insert", "search", "update", "erase"}]
MCInsertOps == [th \in Threads |-> {"insert"}]
MCUpdateOps == [th \in Threads |-> {"update"}]
MCEraseOps == [th \in Threads |-> {"erase"}]
\* One inserter and one searcher.
MCInsertSearchOps == (t1 :> {"insert"}) @@ (t2 :> {"search"})
\* One thread that inserts, updates and erases, and one searcher.
MCMixedSearchOps == (t1 :> {"insert", "update", "erase"}) @@ (t2 :> {"search"})
\* One inserter and one thread that inserts and updates.
MCInsertUpdateOps == (t1 :> {"insert"}) @@ (t2 :> {"insert", "update"})
\* One updater and one thread that erases and re-inserts.
MCUpdateEraseOps == (t1 :> {"update"}) @@ (t2 :> {"erase", "insert"})
\* The thread_id each actor passes: the resize thread 0, mutators 1 and 2.
MCThreadId == [a \in Actors |-> IF a = Resizer THEN 0 ELSE IF a = t1 THEN 1 ELSE 2]
\* Mutator t1 passes thread_id 0, the id the resize thread hard-codes.
MCThreadIdShared == [a \in Actors |-> IF a = t2 THEN 1 ELSE 0]
====
