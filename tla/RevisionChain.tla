--------------------------- MODULE RevisionChain ---------------------------
(***************************************************************************)
(* What a memory store promises its callers, whatever its backend: within  *)
(* a scope every memory identity (a preference key in a context) owns one  *)
(* append-only chain of revisions, and an accepted ingestion (named by its *)
(* idempotency key) put exactly one revision at the end of one chain.      *)
(* Only erasing the scope removes revisions.                               *)
(*                                                                         *)
(* Times, confidence and evidence are left to the detailed specifications: *)
(* PreferenceLedger (the in-memory store) and PgMemory (PostgreSQL rows    *)
(* and concurrent transactions) both implement this one.                   *)
(***************************************************************************)
EXTENDS Naturals, Sequences

CONSTANTS
    Scopes,   \* (tenant, subject) pairs
    Idents,   \* (key, context fingerprint) pairs
    Values,   \* preference values
    Keys      \* idempotency keys

VARIABLE chain  \* chain[s][i]: revisions of identity i in scope s, oldest first

Revision == [key : Keys, value : Values]

Empty == [i \in Idents |-> <<>>]

Init == chain = [s \in Scopes |-> Empty]

\* An ingestion that was not accepted before adds one revision to one chain.
Accept(s, i, k, v) ==
    /\ \A j \in Idents : \A n \in DOMAIN chain[s][j] : chain[s][j][n].key # k
    /\ chain' = [chain EXCEPT ![s][i] = Append(@, [key |-> k, value |-> v])]

\* Erasure forgets the scope as a whole.
Erase(s) == chain' = [chain EXCEPT ![s] = Empty]

Next ==
    \E s \in Scopes :
        \/ \E i \in Idents, k \in Keys, v \in Values : Accept(s, i, k, v)
        \/ Erase(s)

Spec == Init /\ [][Next]_chain
=============================================================================
