------------------------------ MODULE MultiMap ------------------------------
(***************************************************************************)
(* What the Level hashing table promises its callers: a set of entries,   *)
(* each carrying a key, on which every operation takes effect at a single *)
(* instant between its call and its return.                               *)
(*                                                                         *)
(*   insert  adds its new entry; there is no duplicate check, so a key    *)
(*           may have several entries;                                     *)
(*   erase   removes one entry of the key, if there is one;               *)
(*   update  replaces one entry of the key by its new entry, if there is  *)
(*           one;                                                          *)
(*   query   tells whether the key has an entry.                          *)
(*                                                                         *)
(* The process may also exit, after which nothing happens.                *)
(***************************************************************************)
EXTENDS FiniteSets

CONSTANTS
    Threads,   \* callers
    Keys,      \* keys
    Entries,   \* key/value entries an insert or update may create
    NoKey,     \* key of no request
    NoEntry    \* new entry of a query, an erase, or no request

Ops == {"insert", "query", "update", "erase"}

\* The requests a caller may make: insert and update bring a new entry.
Reqs == [op : {"insert", "update"}, key : Keys, new : Entries]
        \cup [op : {"query", "erase"}, key : Keys, new : {NoEntry}]

NoReq == [op |-> "none", key |-> NoKey, new |-> NoEntry]

VARIABLES
    store,   \* the entries in the table, as <<entry, key>> pairs
    busy,    \* Threads -> BOOLEAN: the caller has called and not returned
    req,     \* Threads -> the pending request, or NoReq
    res,     \* Threads -> the result of the caller's last operation
    halted   \* the process has exited

vars == <<store, busy, req, res, halted>>

Init ==
    /\ store \subseteq Entries \X Keys
    /\ busy = [th \in Threads |-> FALSE]
    /\ req = [th \in Threads |-> NoReq]
    /\ res = [th \in Threads |-> "none"]
    /\ halted = FALSE

\* The entries of key k.
Of(k) == {p \in store : p[2] = k}

\* A caller makes a request; a new entry is one not in the table.
Call(th) ==
    /\ ~halted
    /\ ~busy[th]
    /\ \E r \in Reqs :
          /\ r.new \notin {p[1] : p \in store}
          /\ req' = [req EXCEPT ![th] = r]
    /\ busy' = [busy EXCEPT ![th] = TRUE]
    /\ res' = [res EXCEPT ![th] = "none"]
    /\ UNCHANGED <<store, halted>>

\* The request of th takes effect and returns r.
Done(th, r) ==
    /\ busy' = [busy EXCEPT ![th] = FALSE]
    /\ req' = [req EXCEPT ![th] = NoReq]
    /\ res' = [res EXCEPT ![th] = r]
    /\ UNCHANGED halted

Insert(th) ==
    /\ busy[th] /\ req[th].op = "insert"
    /\ store' = store \cup {<<req[th].new, req[th].key>>}
    /\ Done(th, "inserted")

Query(th) ==
    /\ busy[th] /\ req[th].op = "query"
    /\ Done(th, IF Of(req[th].key) # {} THEN "found" ELSE "none")
    /\ UNCHANGED store

Erase(th) ==
    /\ busy[th] /\ req[th].op = "erase"
    /\ \/ \E p \in Of(req[th].key) :
             /\ store' = store \ {p}
             /\ Done(th, "found")
       \/ /\ Of(req[th].key) = {}
          /\ Done(th, "none")
          /\ UNCHANGED store

Update(th) ==
    /\ busy[th] /\ req[th].op = "update"
    /\ \/ \E p \in Of(req[th].key) :
             /\ store' = (store \ {p}) \cup {<<req[th].new, req[th].key>>}
             /\ Done(th, "found")
       \/ /\ Of(req[th].key) = {}
          /\ Done(th, "none")
          /\ UNCHANGED store

\* The process exits: every caller stops where it is.
Exit ==
    /\ ~halted
    /\ halted' = TRUE
    /\ busy' = [th \in Threads |-> FALSE]
    /\ req' = [th \in Threads |-> NoReq]
    /\ UNCHANGED <<store, res>>

Next ==
    \/ \E th \in Threads : Call(th) \/ Insert(th) \/ Query(th) \/ Erase(th) \/ Update(th)
    \/ Exit

Spec == Init /\ [][Next]_vars

=============================================================================
