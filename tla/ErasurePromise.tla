--------------------------- MODULE ErasurePromise ---------------------------
(***************************************************************************)
(* What the privacy control plane promises about a subject's data, however *)
(* its locks, handlers and retries work: a scope is closed once and for    *)
(* good; nothing enters the store or the search index of a closed scope;   *)
(* data leaves only closed scopes; and an erasure is certified only when   *)
(* store and index are empty, after which neither can fill again.          *)
(***************************************************************************)
CONSTANTS
    Scopes,  \* (tenant, subject) pairs
    Rows,    \* rows derived from a subject's data
    Keys     \* idempotency keys of erasure requests

VARIABLES
    closed,     \* scopes that are closed
    store,      \* store[s]: rows kept for s
    index,      \* index[s]: rows of s that a search can find
    certified   \* certified[s]: erasure requests of s certified as done

vars == <<closed, store, index, certified>>

Init ==
    /\ closed = {}
    /\ store = [s \in Scopes |-> {}]
    /\ index = [s \in Scopes |-> {}]
    /\ certified = [s \in Scopes |-> {}]

\* A row is kept for an open scope.
Keep(s, r) ==
    /\ s \notin closed
    /\ store' = [store EXCEPT ![s] = @ \cup {r}]
    /\ UNCHANGED <<closed, index, certified>>

\* A kept row becomes searchable while its scope is open.
Find(s, r) ==
    /\ s \notin closed
    /\ r \in store[s]
    /\ index' = [index EXCEPT ![s] = @ \cup {r}]
    /\ UNCHANGED <<closed, store, certified>>

Close(s) ==
    /\ closed' = closed \cup {s}
    /\ UNCHANGED <<store, index, certified>>

\* Data of a closed scope is removed, the index never after the store.
Remove(s) ==
    /\ s \in closed
    /\ \E kept \in SUBSET store[s], found \in SUBSET index[s] :
        /\ found \subseteq kept
        /\ store' = [store EXCEPT ![s] = kept]
        /\ index' = [index EXCEPT ![s] = found]
    /\ UNCHANGED <<closed, certified>>

Certify(s, k) ==
    /\ s \in closed
    /\ store[s] = {} /\ index[s] = {}
    /\ certified' = [certified EXCEPT ![s] = @ \cup {k}]
    /\ UNCHANGED <<closed, store, index>>

Next ==
    \E s \in Scopes :
        \/ \E r \in Rows : Keep(s, r) \/ Find(s, r)
        \/ Close(s)
        \/ Remove(s)
        \/ \E k \in Keys : Certify(s, k)

Spec == Init /\ [][Next]_vars
=============================================================================
