------------------------------ MODULE MC_Clht -------------------------------
(* Model-checking instance of Clht: one slot per bucket node and a table  *)
(* of two buckets, so that four puts chain two buckets and reach the      *)
(* num_expands threshold.                                                  *)
EXTENDS Clht, TLC

CONSTANTS k1, k2, k3, k4, k5, k6, t1, t2

\* Hashes: k1 0 and k2 2 share bucket 0 of two, k3 1 and k4 3 bucket 1;
\* k5 4 is bucket 0 again.  No two of k1..k5 share a bucket of 8 or more;
\* k6 16 shares bucket 0 with k1 in a table of 16.
MCKeyHash == (k1 :> 0) @@ (k2 :> 2) @@ (k3 :> 1) @@ (k4 :> 3) @@ (k5 :> 4)
             @@ (k6 :> 16)
Put(k) == <<"put", k>>
Get(k) == <<"get", k>>
Erase(k) == <<"erase", k>>
\* One thread puts four keys, resizing once; the other puts a duplicate,
\* reads and erases, meeting the resize in get_lock and helping it.
MCScriptResize ==
    (t1 :> <<Put(k1), Put(k2), Put(k3), Put(k4)>>)
    @@ (t2 :> <<Put(k1), Erase(k4), Get(k2)>>)
\* Two threads whose puts both chain a bucket of the first table.
MCScriptTwoResizers ==
    (t1 :> <<Put(k1), Put(k2), Put(k5)>>) @@ (t2 :> <<Put(k3), Put(k4)>>)
\* One thread: k1 and k6 chain bucket 0, k3 and k4 bucket 1; the resize
\* to 16 buckets copies k1 and k6 into one bucket.
MCScriptOverflow ==
    (t1 :> <<Put(k1), Put(k6), Put(k3), Put(k4)>>) @@ (t2 :> <<>>)
\* A put and get of k1 beside its erase.
MCScriptEraseGet == (t1 :> <<Put(k1), Get(k1)>>) @@ (t2 :> <<Erase(k1)>>)
====
