--------------------------- MODULE MC_LevelHash ---------------------------
(* Model-checking instance of LevelHash: four keys whose candidate       *)
(* buckets overlap in the initial levels, so that a few inserts fill     *)
(* them and need cuckoo moves and expansion.                             *)
EXTENDS LevelHash, TLC

CONSTANTS k1, k2, k3, k4, t1, t2

\* Level 0 (2 buckets) gives every key buckets 0 and 1; level 1 (4
\* buckets) gives first bucket FirstHash % 2 and second SecondHash % 2 + 2:
\* k1 -> 0, 2; k2 -> 0, 3; k3 -> 1, 3; k4 -> 0, 3.  The higher bits
\* differ, so that from level 3 on no two keys share both buckets.
MCFirstHash == (k1 :> 0) @@ (k2 :> 4) @@ (k3 :> 1) @@ (k4 :> 2)
MCSecondHash == (k1 :> 0) @@ (k2 :> 5) @@ (k3 :> 3) @@ (k4 :> 7)
\* The load leaves level 1 as [k1, k3, -, k2] and level 0 as [k4, k4]:
\* k2 sits in its second bucket behind k1.
MCInitKeys == <<k1, k2, k3, k4, k4>>
MCInitNone == << >>
\* The same load with one copy of k4: level 0 is [k4, -].
MCInitOnce == <<k1, k2, k3, k4>>
MCAllOps == [th \in Threads |-> {"insert", "query", "update", "erase"}]
MCInsertOps == [th \in Threads |-> {"insert"}]
MCInsertQueryOps == (t1 :> {"insert"}) @@ (t2 :> {"query"})
MCInsertEraseOps == (t1 :> {"insert"}) @@ (t2 :> {"insert", "erase"})
\* One thread that erases and inserts, one searcher.
MCMoverQueryOps == (t1 :> {"insert", "erase"}) @@ (t2 :> {"query"})
\* One inserter, one eraser.
MCInserterEraserOps == (t1 :> {"insert"}) @@ (t2 :> {"erase"})
====
