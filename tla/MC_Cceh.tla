------------------------------ MODULE MC_Cceh -------------------------------
(* Model-checking instance of Cceh: hashes of four bits, two slots per     *)
(* segment probed as one window, and a directory of depth 1.               *)
EXTENDS Cceh, TLC

CONSTANTS k1, k2, k3, k4, k5, k6, k7, k8, k9, k10, t1, t2

\* Hashes in binary: k1 0000, k2 0100, k3 0010, k4 0001, k5 1000, k6 1100,
\* k7 1010, k8 0110, k9 0101, k10 1011.
MCKeyHash == (k1 :> 0) @@ (k2 :> 4) @@ (k3 :> 2) @@ (k4 :> 1) @@ (k5 :> 8)
             @@ (k6 :> 12) @@ (k7 :> 10) @@ (k8 :> 6) @@ (k9 :> 5) @@ (k10 :> 11)
MCKeyLoc == [k \in {k1, k2, k3, k4, k5, k6, k7, k8, k9, k10} |-> 0]
Ins(k) == <<"insert", k>>
Get(k) == <<"get", k>>
\* One inserter whose keys take every branch of the split: k3 and k4 double
\* the directory, k7 splits a segment of local depth 1 under depth 3
\* (the chunk loop), k9 and k10 split segments of local depth 2 at an even
\* and an odd x; and one reader of keys that the splits move.
MCScriptSplits ==
    (t1 :> <<Ins(k1), Ins(k2), Ins(k3), Ins(k4), Ins(k5), Ins(k6), Ins(k7),
             Ins(k8), Ins(k9), Ins(k10)>>)
    @@ (t2 :> <<Get(k2), Get(k7)>>)
\* Two inserters: t1 fills and splits the segment of prefix 0, t2 inserts
\* a key of prefix 01 into it.
MCScriptTwoInserters ==
    (t1 :> <<Ins(k1), Ins(k2), Ins(k3)>>) @@ (t2 :> <<Ins(k9)>>)
\* Two inserters that both find the segment of prefix 0 full.
MCScriptSameSegment ==
    (t1 :> <<Ins(k1), Ins(k2), Ins(k3)>>) @@ (t2 :> <<Ins(k4), Ins(k8)>>)
\* One inserter that doubles the directory and one reader.
MCScriptDoubleGet == (t1 :> <<Ins(k1), Ins(k2), Ins(k3)>>) @@ (t2 :> <<Get(k1)>>)
====
