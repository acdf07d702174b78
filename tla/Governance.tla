----------------------------- MODULE Governance -----------------------------
(***************************************************************************)
(* Processing grants, suppression fences and the erasure workflow, with    *)
(* the requests and the projection worker that run beside them             *)
(* (application/access.py, application/governance.py and the PostgreSQL    *)
(* and in-memory governance adapters).                                     *)
(*                                                                         *)
(* A request is authorised, reads the clock, takes a connection of the     *)
(* governance pool, waits for the scope's lock in shared mode, checks the  *)
(* fence and the grants, does its work in the memory store and unlocks.    *)
(* Suppression and the first part of an erasure take the same lock in      *)
(* exclusive mode for one transaction, which is one action here; the rest  *)
(* of an erasure (projection, store, receipt) runs without the lock.  The  *)
(* in-memory adapter holds one reentrant lock over the same sections, so   *)
(* its behaviours are those without the pool.  The development bypass is   *)
(* the instance whose grants always cover.                                 *)
(*                                                                         *)
(* The rows of a scope are those of one table of the memory store, any of  *)
(* them: an erasure counts each table with a statement of its own and      *)
(* deletes from all of them in one transaction.  A denied or failed        *)
(* authorisation changes nothing but the audit log; the purposes of a      *)
(* grant are left out.                                                     *)
(***************************************************************************)
EXTENDS Naturals, FiniteSets

CONSTANTS
    Scopes,    \* (tenant, subject) pairs
    Clients,   \* threads of the API and projection workers
    Rows,      \* rows a scope may hold in a table
    Keys,      \* idempotency keys of erasures
    GrantKeys, \* idempotency keys of grants
    PoolSize,  \* connections of the governance pool
    MaxTime,   \* bound on the clock
    None

ASSUME PoolAssumption == PoolSize \in Nat \ {0}
ASSUME TimeAssumption == MaxTime \in Nat
ASSUME FiniteAssumption == IsFiniteSet(Clients) /\ IsFiniteSet(Rows)

VARIABLES
    clock,
    grants,    \* grants[s]: issued grants
    fenced,    \* scopes with a suppression fence
    erasures,  \* erasures[s]: erasure requests by key
    rows,      \* rows[s]: rows of the memory store
    docs,      \* docs[s]: rows whose document is in the search index
    holders,   \* holders[s]: clients holding the scope's lock in shared mode
    ahead,     \* ahead[c]: clients that asked for the lock c waits for before c
    pc,        \* pc[c]: what client c does next
    job,       \* job[c]: the request or item c works on
    removed    \* history variable: removed[s], rows erasures have deleted so far

data == <<rows, docs, removed>>
control == <<grants, fenced, erasures>>
locks == <<holders, ahead>>
local == <<pc, job>>
vars == <<clock, control, data, locks, local>>

Time == 0..MaxTime

\* A grant without an end is one that ends after the last instant.
Grant == [key : GrantKeys, from : Time, until : 1..MaxTime + 1, revoked : BOOLEAN]

Erasure == [status : {"pending", "completed"}, error : BOOLEAN, summary : Nat]

ASSUME NoneAssumption == None \notin Erasure

Idle == [op |-> "none"]

Jobs == [op : {"none"}]
        \cup [op : {"process"}, scope : Scopes, at : Time]
        \cup [op : {"project"}, scope : Scopes, row : Rows]
        \cup [op : {"suppress"}, scope : Scopes]
        \cup [op : {"erase"}, scope : Scopes, key : Keys, count : Nat]

Steps == {"idle", "queued", "waiting", "working",
          "projection", "store", "counted", "receipt", "completing"}

Init ==
    /\ clock = 0
    /\ grants = [s \in Scopes |-> {}]
    /\ fenced = {}
    /\ erasures = [s \in Scopes |-> [k \in Keys |-> None]]
    /\ rows = [s \in Scopes |-> {}]
    /\ docs = [s \in Scopes |-> {}]
    /\ removed = [s \in Scopes |-> {}]
    /\ holders = [s \in Scopes |-> {}]
    /\ ahead = [c \in Clients |-> {}]
    /\ pc = [c \in Clients |-> "idle"]
    /\ job = [c \in Clients |-> Idle]

-----------------------------------------------------------------------------
(* The control plane: grants. *)

\* A key that was used returns the grant it issued, and changes nothing.
Issue(s, g, from, until) ==
    /\ \A h \in grants[s] : h.key # g
    /\ from < until
    /\ grants' = [grants EXCEPT ![s] = @ \cup
                     {[key |-> g, from |-> from, until |-> until, revoked |-> FALSE]}]
    /\ UNCHANGED <<clock, fenced, erasures, data, locks, local>>

\* Revocation locks the grant's row only: requests past the gate go on.
Revoke(s, h) ==
    /\ h \in grants[s] /\ ~h.revoked
    /\ grants' = [grants EXCEPT ![s] = (@ \ {h}) \cup {[h EXCEPT !.revoked = TRUE]}]
    /\ UNCHANGED <<clock, fenced, erasures, data, locks, local>>

Covered(s, at) == \E h \in grants[s] : ~h.revoked /\ h.from <= at /\ at < h.until

-----------------------------------------------------------------------------
(* Requests that process a subject's data, and the projection worker. *)

\* Clients that hold a connection of the governance pool.
Connected == {c \in Clients : pc[c] \in {"waiting", "working", "completing"}}

Goto(c, step) == pc' = [pc EXCEPT ![c] = step]

Start(c, new) ==
    /\ pc[c] = "idle"
    /\ job' = [job EXCEPT ![c] = new]
    /\ Goto(c, "queued")
    /\ UNCHANGED <<clock, control, data, locks>>

\* c waits for the scope's lock no longer.
Unqueue(c) == ahead' = [d \in Clients |-> IF d = c THEN {} ELSE ahead[d] \ {c}]

\* Faulty variant: the lock is not released.
LeaveHoldingLock(c) ==
    /\ Goto(c, "idle")
    /\ job' = [job EXCEPT ![c] = Idle]
    /\ UNCHANGED holders
    /\ Unqueue(c)

\* The call returns or raises; its connection and lock are given back.
Leave(c) ==
    /\ Goto(c, "idle")
    /\ job' = [job EXCEPT ![c] = Idle]
    /\ holders' = [s \in Scopes |-> holders[s] \ {c}]
    /\ Unqueue(c)

\* After authorisation the clock is read, then the governance lock is asked for.
Request(c, s) == Start(c, [op |-> "process", scope |-> s, at |-> clock])

\* The worker loads a claimed item's revision before it enters the gate.
Load(c, s, r) == r \in rows[s] /\ Start(c, [op |-> "project", scope |-> s, row |-> r])

Suppress(c, s) == Start(c, [op |-> "suppress", scope |-> s])

Erase(c, s, k) == Start(c, [op |-> "erase", scope |-> s, key |-> k, count |-> 0])

\* A free connection of the pool, to queue for the lock or to write a receipt.
Connect(c) ==
    /\ Cardinality(Connected) < PoolSize
    /\ \/ /\ pc[c] = "queued"
          /\ Goto(c, "waiting")
          /\ ahead' = [ahead EXCEPT ![c] =
                 {d \in Clients : pc[d] = "waiting" /\ job[d].scope = job[c].scope}]
       \/ pc[c] = "receipt" /\ Goto(c, "completing") /\ UNCHANGED ahead
    /\ UNCHANGED <<clock, control, data, holders, job>>

Shared == {"process", "project"}

\* Faulty variant: a grant is enough, the fence is not looked at.
RefusedByGrant(c, s) == job[c].op = "process" /\ ~Covered(s, job[c].at)

Refused(c, s) ==
    \/ s \in fenced
    \/ job[c].op = "process" /\ ~Covered(s, job[c].at)

\* processing_context and projection_context: the lock is held in shared mode
\* while the work goes on; a refusal unlocks at once.
Gate(c, s) ==
    /\ pc[c] = "waiting"
    /\ job[c].op \in Shared /\ s = job[c].scope
    /\ \A d \in ahead[c] : job[d].op \in Shared
    /\ IF Refused(c, s)
       THEN Leave(c)
       ELSE /\ Goto(c, "working")
            /\ holders' = [holders EXCEPT ![s] = @ \cup {c}]
            /\ Unqueue(c)
            /\ UNCHANGED job
    /\ UNCHANGED <<clock, control, data>>

\* A read, a replay or a failure adds nothing; a write commits its row.
Process(c, s) ==
    /\ pc[c] = "working" /\ job[c].op = "process" /\ s = job[c].scope
    /\ \/ UNCHANGED rows
       \/ \E r \in Rows \ rows[s] : rows' = [rows EXCEPT ![s] = @ \cup {r}]
    /\ Leave(c)
    /\ UNCHANGED <<clock, control, docs, removed>>

\* An upsert that raises may or may not have reached the index.
Project(c, s) ==
    /\ pc[c] = "working" /\ job[c].op = "project" /\ s = job[c].scope
    /\ \/ UNCHANGED docs
       \/ docs' = [docs EXCEPT ![s] = @ \cup {job[c].row}]
    /\ Leave(c)
    /\ UNCHANGED <<clock, control, rows, removed>>

-----------------------------------------------------------------------------
(* Suppression and erasure. *)

\* Faulty variant: the lock is not asked for.
ExclusiveAtOnce(c, op, s) ==
    /\ pc[c] = "waiting"
    /\ job[c].op = op /\ s = job[c].scope

\* pg_advisory_xact_lock waits for its turn and for every holder of the lock.
Exclusive(c, op, s) ==
    /\ pc[c] = "waiting"
    /\ job[c].op = op /\ s = job[c].scope
    /\ ahead[c] = {} /\ holders[s] = {}

Fence(c, s) ==
    /\ Exclusive(c, "suppress", s)
    /\ fenced' = fenced \cup {s}
    /\ Leave(c)
    /\ UNCHANGED <<clock, grants, erasures, data>>

Pending == [status |-> "pending", error |-> FALSE, summary |-> 0]

Completed(s) == {k \in Keys : erasures[s][k] # None /\ erasures[s][k].status = "completed"}

\* Faulty variant: an erasure starts without a fence.
BeginUnfenced(c, s) ==
    /\ Exclusive(c, "erase", s)
    /\ erasures[s][job[c].key] = None
    /\ erasures' = [erasures EXCEPT ![s][job[c].key] = Pending]
    /\ Goto(c, "projection") /\ Unqueue(c)
    /\ UNCHANGED <<clock, grants, fenced, data, holders, job>>

\* One transaction: the fence and the pending request, or the request the key
\* made before.  A completed one is returned, one with another reason or policy
\* version (a choice here) is a conflict, a pending one is resumed.
BeginErasure(c, s) ==
    LET k == job[c].key
        known == erasures[s][k]
    IN /\ Exclusive(c, "erase", s)
       /\ \/ /\ known = None
             /\ fenced' = fenced \cup {s}
             /\ erasures' = [erasures EXCEPT ![s][k] = Pending]
             /\ Goto(c, "projection") /\ Unqueue(c)
             /\ UNCHANGED <<job, holders>>
          \/ /\ known # None
             /\ Leave(c)
             /\ UNCHANGED <<fenced, erasures>>
          \/ /\ known # None
             /\ k \notin Completed(s)
             /\ Goto(c, "projection") /\ Unqueue(c)
             /\ UNCHANGED <<fenced, erasures, job, holders>>
       /\ UNCHANGED <<clock, grants, data>>

\* projection.delete_scope, then the store in a transaction of its own.
DeleteProjection(c, s) ==
    /\ pc[c] = "projection" /\ s = job[c].scope
    /\ docs' = [docs EXCEPT ![s] = {}]
    /\ Goto(c, "store")
    /\ UNCHANGED <<clock, control, rows, removed, locks, job>>

\* The SELECT that counts the table locks nothing: another eraser's transaction
\* may count the same rows, or commit before the DELETE.
CountRows(c, s) ==
    /\ pc[c] = "store" /\ s = job[c].scope
    /\ job' = [job EXCEPT ![c].count = Cardinality(rows[s])]
    /\ Goto(c, "counted")
    /\ UNCHANGED <<clock, control, data, locks>>

\* The DELETE waits for rows another eraser is deleting, and then finds none.
RowsDeleted(s) ==
    /\ rows' = [rows EXCEPT ![s] = {}]
    /\ removed' = [removed EXCEPT ![s] = @ \cup rows[s]]

\* The DELETE and the commit.
DeleteRows(c, s) ==
    /\ pc[c] = "counted" /\ s = job[c].scope
    /\ RowsDeleted(s)
    /\ Goto(c, "receipt")
    /\ UNCHANGED <<clock, control, docs, locks, job>>

\* The first to complete writes the receipt, later ones are handed it.
Receipt(c, s) ==
    LET k == job[c].key
    IN IF k \in Completed(s)
       THEN UNCHANGED erasures
       ELSE erasures' = [erasures EXCEPT ![s][k] =
                            [@ EXCEPT !.status = "completed", !.error = FALSE,
                                      !.summary = job[c].count]]

CompleteErasure(c, s) ==
    /\ pc[c] = "completing" /\ s = job[c].scope
    /\ Receipt(c, s)
    /\ Leave(c)
    /\ UNCHANGED <<clock, grants, fenced, data>>

\* Faulty variant: a failure reopens a request another eraser completed.
FailedAnyway(c, s) ==
    erasures' = [erasures EXCEPT ![s][job[c].key] =
                    [@ EXCEPT !.status = "pending", !.error = TRUE]]

Failed(c, s) ==
    LET k == job[c].key
    IN IF k \in Completed(s)
       THEN UNCHANGED erasures
       ELSE erasures' = [erasures EXCEPT ![s][k].error = TRUE]

\* A handler raises, perhaps after it took effect, and the caller is told that
\* the erasure stays pending.
HandlerFails(c, s) ==
    /\ pc[c] \in {"projection", "store", "counted", "receipt", "completing"} /\ s = job[c].scope
    /\ \/ /\ pc[c] = "projection"
          /\ \E left \in SUBSET docs[s] : docs' = [docs EXCEPT ![s] = left]
          /\ UNCHANGED <<rows, removed>>
       \/ pc[c] = "counted" /\ RowsDeleted(s) /\ UNCHANGED docs
       \/ pc[c] # "projection" /\ UNCHANGED data
    /\ Failed(c, s)
    /\ Leave(c)
    /\ UNCHANGED <<clock, grants, fenced>>

-----------------------------------------------------------------------------

\* A process dies, or its caller gives up waiting for the pool: PostgreSQL
\* drops its locks and its open transaction.
Crash(c) ==
    /\ pc[c] # "idle"
    /\ Leave(c)
    /\ UNCHANGED <<clock, control, data>>

Tick ==
    /\ clock < MaxTime
    /\ clock' = clock + 1
    /\ UNCHANGED <<control, data, locks, local>>

Arrive(c) ==
    \E s \in Scopes :
        \/ Request(c, s)
        \/ \E r \in Rows : Load(c, s, r)
        \/ Suppress(c, s)
        \/ \E k \in Keys : Erase(c, s, k)

Advance(c, s) ==
    \/ Gate(c, s)
    \/ Process(c, s) \/ Project(c, s)
    \/ Fence(c, s) \/ BeginErasure(c, s)
    \/ DeleteProjection(c, s) \/ CountRows(c, s) \/ DeleteRows(c, s) \/ CompleteErasure(c, s)

Next ==
    \/ \E s \in Scopes, g \in GrantKeys, from \in Time, until \in 1..MaxTime + 1 : Issue(s, g, from, until)
    \/ \E s \in Scopes : \E h \in grants[s] : Revoke(s, h)
    \/ \E c \in Clients : Arrive(c) \/ Connect(c) \/ Crash(c)
    \/ \E c \in Clients, s \in Scopes : Advance(c, s) \/ HandlerFails(c, s)
    \/ Tick

Spec == Init /\ [][Next]_vars

\* Threads run; the pool and PostgreSQL's lock queue serve their waiters.
FairSpec ==
    /\ Spec
    /\ \A c \in Clients :
        /\ SF_vars(Connect(c))
        /\ WF_vars(\E s \in Scopes : Advance(c, s))

-----------------------------------------------------------------------------

\* Tables, locks and local state stay well formed, and the pool's bound holds.
TypeOK ==
    /\ clock \in Time
    /\ grants \in [Scopes -> SUBSET Grant]
    /\ fenced \subseteq Scopes
    /\ erasures \in [Scopes -> [Keys -> Erasure \cup {None}]]
    /\ rows \in [Scopes -> SUBSET Rows]
    /\ docs \in [Scopes -> SUBSET Rows]
    /\ removed \in [Scopes -> SUBSET Rows]
    /\ holders \in [Scopes -> SUBSET Clients]
    /\ ahead \in [Clients -> SUBSET Clients]
    /\ pc \in [Clients -> Steps]
    /\ job \in [Clients -> Jobs]
    /\ Cardinality(Connected) <= PoolSize

\* An erased scope stays empty: while a request is completed, neither the store
\* nor the index holds anything of the scope, and no client is past the gate to
\* put something back (the promise of governance.md for the time after an
\* erasure; the handlers run without the lock, so only the fence keeps it).
ErasedStaysErased ==
    \A s \in Scopes : Completed(s) # {} =>
        rows[s] = {} /\ docs[s] = {} /\ holders[s] = {}

\* The search index never shows what the store has lost: an erasure empties the
\* index first, and no late upsert of a row loaded before outlives it.
IndexFollowsStore == \A s \in Scopes : docs[s] \subseteq rows[s]

\* When suppress or begin_erasure has returned, no old request that had passed
\* the gate writes any more, into the store or the index.
NothingWrittenBehindTheFence ==
    [][\A s \in fenced : rows'[s] \subseteq rows[s] /\ docs'[s] \subseteq docs[s]]_vars

\* A completed receipt is final, whatever concurrent erasers of the same key,
\* failing handlers and retries still do.
ReceiptIsFinal ==
    [][\A s \in Scopes : \A k \in Completed(s) : erasures'[s][k] = erasures[s][k]]_vars

\* Control plane, handlers and requests together keep the promise.
Promise == INSTANCE ErasurePromise WITH
    closed <- fenced,
    store <- rows,
    index <- docs,
    certified <- [s \in Scopes |-> Completed(s)]
ImplementsErasurePromise == Promise!Spec

\* No call waits for ever: neither a request behind an eraser, nor an eraser
\* behind requests, nor any of them for a connection of the pool.
EveryCallEnds == \A c \in Clients : pc[c] # "idle" ~> pc[c] = "idle"

\* What a receipt counts is never a part of what was there: it is every row the
\* scope had when its fence rose, or nothing, whichever erasers raced between their
\* counts and their deletions.  (Receipts of several keys may all count the same
\* rows, and none may if the eraser that counted stops before its receipt.)
ReceiptCountsAllOrNothing ==
    \A s \in Scopes : \A k \in Completed(s) :
        erasures[s][k].summary \in {0, Cardinality(removed[s])}
=============================================================================
