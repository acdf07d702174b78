----------------------------- MODULE Projection -----------------------------
(***************************************************************************)
(* The projection worker and its queue: revision events of the outbox,     *)
(* leased jobs in PostgreSQL, documents in the Milvus collection, rebuilds *)
(* and the erasure of a scope (application/projection.py,                  *)
(* adapters/projection_outbox.py, adapters/milvus.py, projector.py).       *)
(*                                                                         *)
(* Each statement or transaction on the queue is one action, so workers,   *)
(* rebuilds and erasures interleave between them.  Instants are left out:  *)
(* a job is ready or not, and time passing makes it ready (its backoff or  *)
(* its lease ends).  An event stands for the revision it announces and for *)
(* that revision's document; events are numbered in the order              *)
(* (occurred_at, id) in which jobs are claimed.                            *)
(***************************************************************************)
EXTENDS Naturals, FiniteSets

CONSTANTS
    Events,       \* revision events, numbered in claim order
    Scopes,       \* (tenant, subject) pairs
    ScopeOf,      \* the scope of an event's revision
    Workers,      \* worker processes, restarted when they stop
    BatchSize,    \* projection_worker_batch_size
    MaxAttempts,  \* projection_worker_max_attempts
    MaxFaults,    \* bound on crashes and on leases that end under their worker
    Rebuilds,     \* runs of the rebuild command, each by a process of its own
    None

ASSUME EventsAssumption == Events \subseteq Nat \ {0} /\ IsFiniteSet(Events)
ASSUME ScopeAssumption == ScopeOf \in [Events -> Scopes]
ASSUME BoundsAssumption ==
    /\ BatchSize \in Nat \ {0} /\ MaxAttempts \in Nat \ {0}
    /\ MaxFaults \in Nat
ASSUME NoneAssumption == None \notin Workers /\ None \notin Events

VARIABLES
    outbox,      \* events of committed revisions
    jobs,        \* jobs[e]: the row of projection_jobs, or None
    cursor,      \* last_event_occurred_at of projection_cursors, 0 if there is none
    docs,        \* events whose document is in the collection
    batch,       \* batch[w]: claimed events worker w has yet to take up
    item,        \* item[w]: the event w works on, or None
    pc,          \* pc[w]: what w does next
    rebuild,     \* rebuild[r]: the step of rebuild r
    seen,        \* seen[r]: the jobs in the snapshot of r's requeueing UPDATE
    fenced,      \* scopes under suppression or erasure
    cleared,     \* fenced scopes whose documents an erasure has deleted
    faults,      \* counts crashes and leases lost, up to MaxFaults
    gap,         \* history variable: jobs a reset found and no requeue has covered since
    missed       \* history variable: done jobs a requeue left out when it deleted the cursor

queue == <<jobs, cursor>>
index == <<docs, gap, missed>>
worker == <<batch, item, pc>>
privacy == <<fenced, cleared>>
rebuilding == <<rebuild, seen>>
vars == <<outbox, queue, index, worker, rebuilding, privacy, faults>>

Statuses == {"pending", "processing", "failed", "succeeded", "dead_letter"}

Job == [status : Statuses, attempts : Nat, ready : BOOLEAN, owner : Workers \cup {None}]

ASSUME JobAssumption == None \notin Job

Steps == {"idle", "work", "loaded", "gated", "indexed", "failing"}

NewJob == [status |-> "pending", attempts |-> 0, ready |-> TRUE, owner |-> None]

Init ==
    /\ outbox = {} /\ jobs = [e \in Events |-> None] /\ cursor = 0
    /\ docs = {} /\ gap = {} /\ missed = {}
    /\ batch = [w \in Workers |-> {}]
    /\ item = [w \in Workers |-> None]
    /\ pc = [w \in Workers |-> "idle"]
    /\ rebuild = [r \in Rebuilds |-> "none"]
    /\ seen = [r \in Rebuilds |-> {}]
    /\ fenced = {} /\ cleared = {}
    /\ faults = 0

-----------------------------------------------------------------------------
(* The authoritative store, and the passing of time. *)

\* A request of an open scope commits a revision with its event.  Commits may
\* come in another order than the instants of their events.
Commit(e) ==
    /\ e \notin outbox /\ ScopeOf[e] \notin fenced
    /\ outbox' = outbox \cup {e}
    /\ UNCHANGED <<queue, index, worker, rebuilding, privacy, faults>>

\* INSERT ... ON CONFLICT DO NOTHING of a job for every event without one.
Discovered == [e \in Events |-> IF e \in outbox /\ jobs[e] = None THEN NewJob ELSE jobs[e]]

Held(e) == \E w \in Workers : e \in batch[w] \/ item[w] = e

\* A backoff ends, or a lease; a lease whose worker is still busy is a fault.
Elapse(e) ==
    /\ jobs[e] # None /\ ~jobs[e].ready
    /\ jobs[e].status \in {"failed", "processing"}
    /\ IF jobs[e].status = "processing" /\ Held(e)
       THEN faults < MaxFaults /\ faults' = faults + 1
       ELSE UNCHANGED faults
    /\ jobs' = [jobs EXCEPT ![e].ready = TRUE]
    /\ UNCHANGED <<outbox, cursor, index, worker, rebuilding, privacy>>

-----------------------------------------------------------------------------
(* One pass of a worker: discover, claim, and each claimed item in turn. *)

Goto(w, step) == pc' = [pc EXCEPT ![w] = step]

\* Faulty variant: a job whose lease ran out is not claimed again.
WaitingJobs == {e \in outbox : Discovered[e].ready /\ Discovered[e].status \in {"pending", "failed"}}

Claimable ==
    {e \in outbox : Discovered[e].ready /\ Discovered[e].status \in {"pending", "failed", "processing"}}

\* The oldest rows come first, up to the limit.
Oldest(S) == {e \in S : Cardinality({d \in S : d < e}) < BatchSize}

\* One attempt more.  Beyond the maximum, which decides about the dead letter, they
\* are not told apart.
Counted(n) == IF n < MaxAttempts THEN n + 1 ELSE n

Claimed(e, w) == [Discovered[e] EXCEPT !.status = "processing", !.attempts = Counted(@),
                                       !.ready = FALSE, !.owner = w]

\* A pass starts: one transaction adds the missing jobs (which any other pass
\* would add as well, so it is not told apart from the next one), a second one
\* claims the oldest.  Rows that another session has locked right now are skipped.
Claim(w, locked) ==
    LET taken == Oldest(Claimable \ locked)
    IN /\ pc[w] = "idle"
       /\ jobs' = [e \in Events |-> IF e \in taken THEN Claimed(e, w) ELSE Discovered[e]]
       /\ batch' = [batch EXCEPT ![w] = taken]
       /\ Goto(w, IF taken = {} THEN "idle" ELSE "work")
       /\ UNCHANGED <<outbox, cursor, index, item, rebuilding, privacy, faults>>

\* load_document: a revision that is gone is an error, like a lost connection.
Load(w, e) ==
    /\ pc[w] = "work" /\ e \in batch[w]
    /\ item' = [item EXCEPT ![w] = e]
    /\ batch' = [batch EXCEPT ![w] = @ \ {e}]
    /\ \/ e \in outbox /\ Goto(w, "loaded")
       \/ Goto(w, "failing")
    /\ UNCHANGED <<outbox, queue, index, rebuilding, privacy, faults>>

\* Faulty variant: the fence is not looked at.
EnterAnyway(w) ==
    /\ pc[w] = "loaded"
    /\ Goto(w, "gated")
    /\ UNCHANGED <<outbox, queue, index, batch, item, rebuilding, privacy, faults>>

\* projection_context: from here to the upsert the scope's lock is held.
Enter(w) ==
    /\ pc[w] = "loaded"
    /\ \/ ScopeOf[item[w]] \notin fenced /\ Goto(w, "gated")
       \/ Goto(w, "failing")
    /\ UNCHANGED <<outbox, queue, index, batch, item, rebuilding, privacy, faults>>

\* The projection id is a function of the revision, so an upsert overwrites.  One
\* that raises may have taken effect.
Upsert(w) ==
    /\ pc[w] = "gated"
    /\ \/ docs' = docs \cup {item[w]} /\ Goto(w, "indexed")
       \/ docs' = docs \cup {item[w]} /\ Goto(w, "failing")
       \/ docs' = docs /\ Goto(w, "failing")
    /\ UNCHANGED <<outbox, queue, gap, missed, batch, item, rebuilding, privacy, faults>>

\* Faulty variant: any lease will do.
OwnsAny(w, e) == jobs[e] # None /\ jobs[e].status = "processing"

\* The row the conditional UPDATE of complete and fail must find.
Owns(w, e) == jobs[e] # None /\ jobs[e].status = "processing" /\ jobs[e].owner = w

Settled(e, status) == [jobs[e] EXCEPT !.status = status, !.owner = None, !.ready = FALSE]

\* w has finished its item and goes on with its batch, or with a new pass.
NextItem(w) ==
    /\ item' = [item EXCEPT ![w] = None]
    /\ Goto(w, IF batch[w] = {} THEN "idle" ELSE "work")
    /\ UNCHANGED batch

\* Faulty variant: the cursor follows the last completion.
MovedToLast(e) == e

Moved(e) == IF e >= cursor THEN e ELSE cursor

\* One transaction: the job and the cursor.  It fails when the lease was lost, and
\* a connection may break before or after the commit.
Complete(w) ==
    LET e == item[w]
    IN /\ pc[w] = "indexed"
       /\ \/ /\ Owns(w, e)
             /\ jobs' = [jobs EXCEPT ![e] = Settled(e, "succeeded")]
             /\ cursor' = Moved(e)
             /\ \/ NextItem(w)
                \/ Goto(w, "failing") /\ UNCHANGED <<batch, item>>
          \/ /\ Goto(w, "failing")
             /\ UNCHANGED <<batch, item, queue>>
       /\ UNCHANGED <<outbox, index, rebuilding, privacy, faults>>

\* The process ends; what it had claimed stays leased until the lease runs out.
Stop(w) ==
    /\ batch' = [batch EXCEPT ![w] = {}]
    /\ item' = [item EXCEPT ![w] = None]
    /\ Goto(w, "idle")

\* The attempts of a claimed item are those of its job while the lease is held.
\* A lost lease raises out of run_once and ends the process.
Fail(w) ==
    LET e == item[w]
        status == IF jobs[e].attempts >= MaxAttempts THEN "dead_letter" ELSE "failed"
    IN /\ pc[w] = "failing"
       /\ IF Owns(w, e)
          THEN jobs' = [jobs EXCEPT ![e] = Settled(e, status)] /\ NextItem(w)
          ELSE Stop(w) /\ UNCHANGED jobs
       /\ UNCHANGED <<outbox, cursor, index, rebuilding, privacy, faults>>

Crash(w) ==
    /\ pc[w] # "idle"
    /\ faults < MaxFaults /\ faults' = faults + 1
    /\ Stop(w)
    /\ UNCHANGED <<outbox, queue, index, rebuilding, privacy>>

-----------------------------------------------------------------------------
(* Rebuilds, run by processes of their own. *)

\* The collection is dropped and created; upserts in between just fail.
Reset(r) ==
    /\ rebuild[r] = "none" /\ rebuild' = [rebuild EXCEPT ![r] = "reset"]
    /\ docs' = {} /\ gap' = gap \cup {e \in Events : jobs[e] # None}
    /\ UNCHANGED <<outbox, queue, missed, worker, seen, privacy, faults>>

\* discover, and the snapshot with which the UPDATE of requeue_all then starts.
\* What commits between the two transactions might as well commit before or after.
SeeJobs(r) ==
    /\ rebuild[r] = "reset" /\ rebuild' = [rebuild EXCEPT ![r] = "requeue"]
    /\ jobs' = Discovered
    /\ seen' = [seen EXCEPT ![r] = {e \in Events : Discovered[e] # None}]
    /\ UNCHANGED <<outbox, cursor, index, worker, privacy, faults>>

\* The transaction ends: done jobs the UPDATE did not see keep their status, and
\* their cursor goes.
Requeued(r) ==
    /\ rebuild[r] = "requeue" /\ rebuild' = [rebuild EXCEPT ![r] = "ended"]
    /\ seen' = [seen EXCEPT ![r] = {}]
    /\ cursor' = 0
    /\ gap' = gap \ seen[r]
    /\ missed' = {e \in Events \ seen[r] : jobs[e] # None /\ jobs[e].status = "succeeded"}
    /\ UNCHANGED <<outbox, docs, worker, privacy, faults>>

\* Faulty variant: only jobs that were not done are queued again.
RequeueUnfinished(r) ==
    /\ Requeued(r)
    /\ jobs' = [e \in Events |->
                   IF e \in seen[r] /\ jobs[e] # None /\ jobs[e].status # "succeeded"
                   THEN NewJob ELSE jobs[e]]

\* The rest of requeue_all: the UPDATE waits for each row it saw, overwrites what
\* the row has become and takes leases from their workers; a job that was inserted
\* after its snapshot stays as it is.  The DELETE has a later snapshot and takes
\* whatever cursor there is by then.  A row the UPDATE has locked cannot change
\* before the commit, so that all rows may be written with the DELETE.
RequeueAll(r) ==
    /\ Requeued(r)
    /\ jobs' = [e \in Events |-> IF e \in seen[r] /\ jobs[e] # None THEN NewJob ELSE jobs[e]]

\* The process ends before the commit; the operator has to start over.
AbortRebuild(r) ==
    /\ rebuild[r] \in {"reset", "requeue"} /\ rebuild' = [rebuild EXCEPT ![r] = "ended"]
    /\ seen' = [seen EXCEPT ![r] = {}]
    /\ UNCHANGED <<outbox, queue, index, worker, privacy, faults>>

-----------------------------------------------------------------------------
(* Erasure of a scope: the fence, the documents, then the rows (Governance). *)

\* The fence waits for workers that hold the scope's lock.
Fence(s) ==
    /\ s \notin fenced
    /\ \A w \in Workers : pc[w] = "gated" => ScopeOf[item[w]] # s
    /\ fenced' = fenced \cup {s}
    /\ UNCHANGED <<outbox, queue, index, worker, rebuilding, cleared, faults>>

DeleteDocuments(s) ==
    /\ s \in fenced
    /\ docs' = {e \in docs : ScopeOf[e] # s}
    /\ cleared' = cleared \cup {s}
    /\ UNCHANGED <<outbox, queue, gap, missed, worker, rebuilding, fenced, faults>>

\* Jobs go with their events (ON DELETE CASCADE), the cursor keeps its instant.
EraseRows(s) ==
    /\ s \in cleared
    /\ outbox' = {e \in outbox : ScopeOf[e] # s}
    /\ jobs' = [e \in Events |-> IF e \in outbox /\ ScopeOf[e] = s THEN None ELSE jobs[e]]
    /\ UNCHANGED <<cursor, index, worker, rebuilding, privacy, faults>>

-----------------------------------------------------------------------------

Handle(w) ==
    \/ \E e \in Events : Load(w, e)
    \/ Enter(w) \/ Upsert(w) \/ Complete(w) \/ Fail(w)

Next ==
    \/ \E e \in Events : Commit(e) \/ Elapse(e)
    \/ \E w \in Workers :
        \/ Handle(w) \/ Crash(w)
        \/ \E locked \in SUBSET Events : Claim(w, locked)
    \/ \E r \in Rebuilds : Reset(r) \/ SeeJobs(r) \/ RequeueAll(r) \/ AbortRebuild(r)
    \/ \E s \in Scopes : Fence(s) \/ DeleteDocuments(s) \/ EraseRows(s)

Spec == Init /\ [][Next]_vars

\* Workers run and are restarted (restart: unless-stopped), row locks are short,
\* and time passes.
FairSpec ==
    /\ Spec
    /\ \A w \in Workers :
        /\ WF_vars(Handle(w)) /\ SF_vars(Claim(w, {}))
    /\ \A e \in Events : WF_vars(Elapse(e))

-----------------------------------------------------------------------------

\* Rows satisfy the table's checks; a worker has an item exactly when it handles one.
TypeOK ==
    /\ outbox \subseteq Events /\ docs \subseteq Events
    /\ gap \subseteq Events /\ missed \subseteq Events
    /\ jobs \in [Events -> Job \cup {None}]
    /\ \A e \in Events : jobs[e] # None =>
           (jobs[e].status = "processing" <=> jobs[e].owner # None)
    /\ cursor \in Events \cup {0}
    /\ batch \in [Workers -> SUBSET Events]
    /\ item \in [Workers -> Events \cup {None}]
    /\ pc \in [Workers -> Steps]
    /\ \A w \in Workers : item[w] # None <=> pc[w] \in {"loaded", "gated", "indexed", "failing"}
    /\ rebuild \in [Rebuilds -> {"none", "reset", "requeue", "ended"}]
    /\ seen \in [Rebuilds -> SUBSET Events]
    /\ fenced \subseteq Scopes /\ cleared \subseteq fenced
    /\ faults \in 0..MaxFaults

Done(e) == jobs[e] # None /\ jobs[e].status = "succeeded"

\* A job that is done has its document in the collection, also after rebuilds
\* beside workers whose leases were taken away; exceptions are an erasure under
\* way and jobs that a reset found and that were not queued again since.
SucceededIsIndexed ==
    \A e \in Events : Done(e) => e \in docs \/ ScopeOf[e] \in fenced \/ e \in gap

\* No document outlives its revision, whichever worker loaded it before the
\* erasure and upserts it late.
IndexedExists == docs \subseteq outbox

\* The cursor is never behind a job that is done, in whatever order jobs finish,
\* but for jobs that came while a rebuild was queueing the others again: the
\* rebuild deletes the cursor they have just moved.
CursorCoversDone == \A e \in Events : Done(e) => e <= cursor \/ e \in missed

\* Whoever settles a lease, as done or as failed, is the worker that holds it, and
\* is at work on that item: a slow worker that comes late never answers for its
\* successor, not even while the successor works on the same item.
OnlyHolderSettles ==
    [][\A e \in Events :
        (jobs[e] # None /\ jobs'[e] # None /\ jobs[e].status = "processing"
            /\ jobs'[e].status \in {"succeeded", "failed", "dead_letter"})
        => \E w \in Workers :
            /\ jobs[e].owner = w /\ item[w] = e
            /\ \A v \in Workers : pc'[v] # pc[v] <=> v = w]_vars

\* The backlog always drains: again and again every event of the outbox is either
\* projected or parked, with workers that crash, leases that run out, failing
\* upserts and rebuilds in between.
BacklogDrains ==
    []<>(\A e \in outbox : jobs[e] # None /\ jobs[e].status \in {"succeeded", "dead_letter"})
=============================================================================
