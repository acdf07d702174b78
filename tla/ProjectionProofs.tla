-------------------------- MODULE ProjectionProofs --------------------------
(***************************************************************************)
(* Proofs about Projection, for any number of events, scopes and workers   *)
(* and any bounds on attempts, faults and rebuilds: the rows stay well     *)
(* formed, a job that is done is indexed, nothing is indexed that is gone, *)
(* and only the holder of a lease settles it.                              *)
(*                                                                         *)
(* The argument: what a worker has upserted stays in the collection as     *)
(* long as it holds the lease, or a reset or an erasure is under way       *)
(* (UpsertedOK); a worker past the gate works on a revision that exists    *)
(* (GateOK), and a cleared scope stays without documents (ClearedOK).      *)
(***************************************************************************)
EXTENDS Projection, TLAPS

\* The document of e is there, or is not promised at the moment.
Indexed(e) == e \in docs \/ ScopeOf[e] \in fenced \/ e \in gap

UpsertedOK == \A w \in Workers : pc[w] = "indexed" /\ Owns(w, item[w]) => Indexed(item[w])

GateOK ==
    \A w \in Workers :
        /\ pc[w] = "loaded" => item[w] \in outbox \/ ScopeOf[item[w]] \in fenced
        /\ pc[w] = "gated" => item[w] \in outbox /\ ScopeOf[item[w]] \notin fenced

ClearedOK == \A e \in docs : ScopeOf[e] \notin cleared

Inv ==
    /\ TypeOK
    /\ UpsertedOK
    /\ SucceededIsIndexed
    /\ GateOK
    /\ ClearedOK
    /\ IndexedExists
    /\ CursorCoversDone

\* What a step does to leases that are settled by it.
Settles ==
    \A e \in Events :
        (jobs[e] # None /\ jobs'[e] # None /\ jobs[e].status = "processing"
            /\ jobs'[e].status \in {"succeeded", "failed", "dead_letter"})
        => \E w \in Workers :
            /\ jobs[e].owner = w /\ item[w] = e
            /\ \A v \in Workers : pc'[v] # pc[v] <=> v = w

-----------------------------------------------------------------------------
(* Types. *)

JobsOK(table) ==
    /\ table \in [Events -> Job \cup {None}]
    /\ \A e \in Events : table[e] # None =>
           (table[e].status = "processing" <=> table[e].owner # None)

LEMMA InitType == Init => TypeOK
<1> SUFFICES ASSUME Init PROVE TypeOK OBVIOUS
<1>1. 0 \in 0..MaxFaults BY BoundsAssumption
<1>2. \A w \in Workers : item[w] = None /\ pc[w] = "idle" BY DEF Init
<1>3. /\ batch \in [Workers -> SUBSET Events]
      /\ item \in [Workers -> Events \cup {None}]
      /\ pc \in [Workers -> Steps]
  BY DEF Init, Steps
<1>4. jobs \in [Events -> Job \cup {None}] /\ \A e \in Events : jobs[e] = None
  BY DEF Init
<1> QED BY <1>1, <1>2, <1>3, <1>4 DEF Init, TypeOK

LEMMA NewJobType ==
    NewJob \in Job /\ NewJob # None /\ NewJob.owner = None /\ NewJob.status = "pending"
<1>1. NewJob.owner = None /\ NewJob.status = "pending" BY DEF NewJob
<1>2. NewJob \in Job
  <2>1. "pending" \in Statuses /\ 0 \in Nat /\ TRUE \in BOOLEAN BY DEF Statuses
  <2> QED BY <2>1 DEF NewJob, Job
<1> QED BY <1>1, <1>2, JobAssumption

LEMMA DiscoveredType ==
    ASSUME TypeOK
    PROVE  /\ JobsOK(Discovered)
           /\ \A e \in Events : Discovered[e] = jobs[e] \/ (jobs[e] = None /\ Discovered[e] = NewJob)
           /\ \A e \in outbox : Discovered[e] # None
BY NewJobType DEF TypeOK, JobsOK, Discovered

LEMMA ClaimedType ==
    ASSUME TypeOK, NEW w \in Workers, NEW e \in outbox
    PROVE  Claimed(e, w) \in Job /\ Claimed(e, w) # None
           /\ Claimed(e, w).status = "processing" /\ Claimed(e, w).owner = w
<1>1. e \in Events BY DEF TypeOK
<1>2. Discovered[e] \in Job BY <1>1, DiscoveredType DEF JobsOK
<1>3. Discovered[e].attempts + 1 \in Nat BY <1>2 DEF Job
<1>4. /\ Claimed(e, w) \in Job /\ Claimed(e, w).status = "processing"
      /\ Claimed(e, w).owner = w
  BY <1>2, <1>3 DEF Claimed, Counted, Job, Statuses
<1> QED BY <1>4, JobAssumption

LEMMA SettledType ==
    ASSUME TypeOK, NEW e \in Events, jobs[e] # None,
           NEW status \in Statuses \ {"processing"}
    PROVE  /\ Settled(e, status) \in Job /\ Settled(e, status) # None
           /\ Settled(e, status).status = status /\ Settled(e, status).owner = None
<1>1. jobs[e] \in Job BY DEF TypeOK
<1>2. /\ Settled(e, status) \in Job
      /\ Settled(e, status).status = status /\ Settled(e, status).owner = None
  BY <1>1 DEF Settled, Job, Statuses
<1> QED BY <1>2, JobAssumption

\* Replacing one row by a settled one.
LEMMA SettleType ==
    ASSUME TypeOK, NEW e \in Events, jobs[e] # None,
           NEW status \in Statuses \ {"processing"},
           jobs' = [jobs EXCEPT ![e] = Settled(e, status)]
    PROVE  /\ JobsOK(jobs') /\ jobs'[e].status = status /\ jobs'[e].owner = None
           /\ jobs'[e] # None
           /\ \A d \in Events \ {e} : jobs'[d] = jobs[d]
<1>1. /\ jobs'[e] = Settled(e, status)
      /\ \A d \in Events \ {e} : jobs'[d] = jobs[d]
      /\ jobs' \in [Events -> Job \cup {None}]
  BY SettledType DEF TypeOK
<1> QED BY <1>1, SettledType DEF TypeOK, JobsOK

\* The steps of a worker on its own state.
WorkerOK ==
    /\ batch \in [Workers -> SUBSET Events]
    /\ item \in [Workers -> Events \cup {None}]
    /\ pc \in [Workers -> Steps]
    /\ \A w \in Workers : item[w] # None <=> pc[w] \in {"loaded", "gated", "indexed", "failing"}

Others(w) == \A v \in Workers \ {w} : pc'[v] = pc[v] /\ item'[v] = item[v]

LEMMA StopEffect ==
    ASSUME TypeOK, NEW w \in Workers, Stop(w)
    PROVE  WorkerOK' /\ Others(w) /\ pc'[w] = "idle"
BY DEF Stop, Goto, TypeOK, WorkerOK, Others, Steps

LEMMA NextItemEffect ==
    ASSUME TypeOK, NEW w \in Workers, NextItem(w)
    PROVE  WorkerOK' /\ Others(w) /\ pc'[w] \in {"idle", "work"}
BY DEF NextItem, Goto, TypeOK, WorkerOK, Others, Steps

LEMMA GotoEffect ==
    ASSUME TypeOK, NEW w \in Workers, item[w] # None,
           NEW step \in {"loaded", "gated", "indexed", "failing"},
           Goto(w, step), UNCHANGED <<batch, item>>
    PROVE  WorkerOK' /\ Others(w) /\ pc'[w] = step /\ item'[w] = item[w]
BY DEF Goto, TypeOK, WorkerOK, Others, Steps

\* TypeOK is made of the table, the workers and the rest.
RestOK ==
    /\ outbox \subseteq Events /\ docs \subseteq Events
    /\ gap \subseteq Events /\ missed \subseteq Events
    /\ cursor \in Events \cup {0}
    /\ rebuild \in [Rebuilds -> {"none", "reset", "requeue", "ended"}]
    /\ seen \in [Rebuilds -> SUBSET Events]
    /\ fenced \subseteq Scopes /\ cleared \subseteq fenced
    /\ faults \in 0..MaxFaults

LEMMA Parts == TypeOK <=> JobsOK(jobs) /\ WorkerOK /\ RestOK
BY DEF TypeOK, JobsOK, WorkerOK, RestOK

LEMMA NextParts ==
    ASSUME JobsOK(jobs'), WorkerOK', RestOK'
    PROVE  TypeOK'
BY DEF TypeOK, JobsOK, WorkerOK, RestOK

-----------------------------------------------------------------------------
(* Steps that leave documents, fences and the cursor alone. *)

\* What a table may become without breaking a promise about done or owned jobs.
TableOK ==
    /\ \A e \in Events : Done(e)' => Done(e)
    /\ \A w \in Workers : pc'[w] = "indexed" =>
           pc[w] = "indexed" /\ item'[w] = item[w] /\ (Owns(w, item[w])' => Owns(w, item[w]))

LEMMA TableKeeps ==
    ASSUME Inv, TableOK, UNCHANGED <<docs, gap, missed, fenced, cursor>>
    PROVE  UpsertedOK' /\ SucceededIsIndexed' /\ CursorCoversDone'
<1>1. \A e \in Events : Indexed(e)' <=> Indexed(e) BY DEF Indexed
<1>2. \A e \in Events : Done(e)' => Indexed(e) /\ (e <= cursor \/ e \in missed)
  BY DEF TableOK, Inv, SucceededIsIndexed, CursorCoversDone, Indexed
<1>3. SucceededIsIndexed' BY <1>1, <1>2 DEF SucceededIsIndexed, Indexed
<1>4. CursorCoversDone' BY <1>2 DEF CursorCoversDone
<1>5. ASSUME NEW w \in Workers, pc'[w] = "indexed", Owns(w, item[w])'
      PROVE  Indexed(item[w])'
  <2>1. pc[w] = "indexed" /\ item'[w] = item[w] /\ Owns(w, item[w])
    BY <1>5 DEF TableOK
  <2>2. Indexed(item[w]) BY <2>1 DEF Inv, UpsertedOK
  <2> QED BY <2>1, <2>2 DEF Indexed
<1>6. UpsertedOK' BY <1>5 DEF UpsertedOK
<1> QED BY <1>3, <1>4, <1>6


\* The gate and the index, when only workers that are not past the gate move.
LEMMA GateKeeps ==
    ASSUME Inv, NEW w \in Workers, Others(w), UNCHANGED <<outbox, fenced>>,
           pc'[w] \notin {"loaded", "gated"}
    PROVE  GateOK'
BY DEF Inv, GateOK, Others

LEMMA IndexKeeps ==
    ASSUME Inv, UNCHANGED <<outbox, docs, cleared>>
    PROVE  ClearedOK' /\ IndexedExists'
BY DEF Inv, ClearedOK, IndexedExists

LEMMA ClaimKeeps ==
    ASSUME Inv, NEW w \in Workers, NEW locked \in SUBSET Events, Claim(w, locked)
    PROVE  Inv' /\ Settles
<1> DEFINE taken == Oldest(Claimable \ locked)
<1>1. TypeOK /\ taken \subseteq outbox /\ taken \subseteq Events
  BY DEF Inv, TypeOK, Oldest, Claimable
<1>2. /\ jobs' = [e \in Events |-> IF e \in taken THEN Claimed(e, w) ELSE Discovered[e]]
      /\ batch' = [batch EXCEPT ![w] = taken] /\ item' = item
      /\ pc' = [pc EXCEPT ![w] = IF taken = {} THEN "idle" ELSE "work"]
      /\ pc[w] = "idle"
  BY DEF Claim, Goto
<1>3. UNCHANGED <<outbox, cursor, docs, gap, rebuild, seen, missed, fenced, cleared, faults>>
  BY DEF Claim, index, privacy, rebuilding
<1> HIDE DEF taken
<1>4. \A e \in taken : /\ jobs'[e] \in Job /\ jobs'[e] # None
                       /\ jobs'[e].status = "processing" /\ jobs'[e].owner = w
  BY <1>1, <1>2, ClaimedType
<1>5. \A e \in Events \ taken : jobs'[e] = Discovered[e] BY <1>2
<1>6. JobsOK(jobs')
  <2>1. JobsOK(Discovered) BY <1>1, DiscoveredType
  <2>2. jobs' \in [Events -> Job \cup {None}] BY <1>2, <1>4, <1>5, <2>1 DEF JobsOK
  <2>3. \A e \in Events : jobs'[e] # None =>
            (jobs'[e].status = "processing" <=> jobs'[e].owner # None)
    BY <1>4, <1>5, <2>1, NoneAssumption DEF JobsOK
  <2> QED BY <2>2, <2>3 DEF JobsOK
<1>7. WorkerOK' BY <1>1, <1>2 DEF TypeOK, WorkerOK, Steps
<1>8. RestOK' BY <1>1, <1>3, Parts DEF RestOK
<1>9. TypeOK' BY <1>6, <1>7, <1>8, NextParts
<1>10. Others(w) /\ pc'[w] \in {"idle", "work"} BY <1>1, <1>2 DEF Others, TypeOK
<1>11. \A e \in Events \ taken : jobs'[e] = jobs[e] \/ jobs'[e] = NewJob
  BY <1>1, <1>5, DiscoveredType
<1>12. TableOK
  <2>1. \A e \in Events : Done(e)' => Done(e)
    BY <1>4, <1>11, NewJobType DEF Done
  <2>2. ASSUME NEW v \in Workers, pc'[v] = "indexed"
        PROVE  pc[v] = "indexed" /\ item'[v] = item[v] /\ v # w /\ item[v] \in Events
    BY <1>1, <1>2, <1>10, <2>2 DEF Others, TypeOK
  <2>3. ASSUME NEW v \in Workers \ {w}, NEW e \in Events, Owns(v, e)' PROVE Owns(v, e)
    BY <1>4, <1>11, <2>3, NewJobType DEF Owns
  <2>4. \A v \in Workers : pc'[v] = "indexed" => (Owns(v, item[v])' => Owns(v, item[v]))
    <3> SUFFICES ASSUME NEW v \in Workers, pc'[v] = "indexed", Owns(v, item[v])'
                 PROVE  Owns(v, item[v])
      OBVIOUS
    <3>1. item'[v] = item[v] /\ v # w /\ item[v] \in Events BY <2>2
    <3>2. \A e \in Events : Owns(v, e)' => Owns(v, e) BY <2>3, <3>1
    <3>3. \E e \in Events : e = item[v] /\ Owns(v, e)' BY <3>1 DEF Owns
    <3> QED BY <3>2, <3>3
  <2> QED BY <2>1, <2>2, <2>4 DEF TableOK
<1>13. Settles BY <1>4, <1>11, NewJobType DEF Settles
<1> QED BY <1>3, <1>9, <1>10, <1>12, <1>13, TableKeeps, GateKeeps, IndexKeeps DEF Inv


\* Steps that do not touch the table settle nothing.
LEMMA TableSame ==
    ASSUME jobs' = jobs,
           \A w \in Workers : pc'[w] = "indexed" => pc[w] = "indexed" /\ item'[w] = item[w]
    PROVE  TableOK /\ Settles
BY DEF TableOK, Settles, Done, Owns

LEMMA LoadKeeps ==
    ASSUME Inv, NEW w \in Workers, NEW e \in Events, Load(w, e)
    PROVE  Inv' /\ Settles
<1>1. TypeOK BY DEF Inv
<1>2. /\ UNCHANGED <<outbox, jobs, cursor, docs, gap, rebuild, seen, missed, fenced, cleared,
                     faults>>
      /\ item' = [item EXCEPT ![w] = e] /\ batch' = [batch EXCEPT ![w] = @ \ {e}]
      /\ \/ pc' = [pc EXCEPT ![w] = "loaded"] /\ e \in outbox
         \/ pc' = [pc EXCEPT ![w] = "failing"]
  BY DEF Load, Goto, queue, index, privacy, rebuilding
<1>3. WorkerOK' BY <1>1, <1>2, NoneAssumption DEF TypeOK, WorkerOK, Steps
<1>4. TypeOK' BY <1>1, <1>2, <1>3, Parts, NextParts DEF RestOK
<1>5. Others(w) /\ item'[w] = e /\ pc'[w] \in {"loaded", "failing"}
      /\ (pc'[w] = "loaded" => e \in outbox)
  BY <1>1, <1>2 DEF Others, TypeOK
<1>6. TableOK /\ Settles BY <1>2, <1>5, TableSame DEF Others
<1>7. GateOK' BY <1>2, <1>5 DEF Inv, GateOK, Others
<1> QED BY <1>2, <1>4, <1>6, <1>7, TableKeeps, IndexKeeps DEF Inv

LEMMA EnterKeeps ==
    ASSUME Inv, NEW w \in Workers, Enter(w)
    PROVE  Inv' /\ Settles
<1>1. TypeOK /\ item[w] # None BY DEF Inv, TypeOK, Enter
<1>2. /\ UNCHANGED <<outbox, jobs, cursor, docs, gap, rebuild, seen, missed, fenced, cleared,
                     faults, batch, item>>
      /\ \/ Goto(w, "gated") /\ ScopeOf[item[w]] \notin fenced
         \/ Goto(w, "failing")
      /\ pc[w] = "loaded"
  BY DEF Enter, queue, index, privacy, rebuilding
<1>3. /\ WorkerOK' /\ Others(w) /\ item'[w] = item[w]
      /\ pc'[w] \in {"gated", "failing"}
      /\ pc'[w] = "gated" => ScopeOf[item[w]] \notin fenced
  BY <1>1, <1>2, GotoEffect
<1>4. TypeOK' BY <1>1, <1>2, <1>3, Parts, NextParts DEF RestOK
<1>5. TableOK /\ Settles BY <1>2, <1>3, TableSame DEF Others
<1>6. GateOK' BY <1>2, <1>3 DEF Inv, GateOK, Others
<1> QED BY <1>2, <1>4, <1>5, <1>6, TableKeeps, IndexKeeps DEF Inv

LEMMA UpsertKeeps ==
    ASSUME Inv, NEW w \in Workers, Upsert(w)
    PROVE  Inv' /\ Settles
<1>1. TypeOK /\ item[w] # None /\ item[w] \in Events BY DEF Inv, TypeOK, Upsert
<1>2. /\ UNCHANGED <<outbox, jobs, cursor, gap, rebuild, seen, missed, fenced, cleared,
                     faults, batch, item>>
      /\ \/ docs' = docs \cup {item[w]} /\ Goto(w, "indexed")
         \/ docs' = docs \cup {item[w]} /\ Goto(w, "failing")
         \/ docs' = docs /\ Goto(w, "failing")
  BY DEF Upsert, queue, privacy, rebuilding
<1>3. /\ WorkerOK' /\ Others(w) /\ item'[w] = item[w]
      /\ pc'[w] \in {"indexed", "failing"}
      /\ pc'[w] = "indexed" => item[w] \in docs'
  BY <1>1, <1>2, GotoEffect
<1>4. TypeOK'
  <2>1. docs' \subseteq Events BY <1>1, <1>2 DEF TypeOK
  <2> QED BY <1>1, <1>2, <1>3, <2>1, Parts, NextParts DEF RestOK
<1>5. item[w] \in outbox /\ ScopeOf[item[w]] \notin fenced BY DEF Inv, GateOK, Upsert
<1>6. ClearedOK' /\ IndexedExists'
  BY <1>1, <1>2, <1>5 DEF Inv, ClearedOK, IndexedExists, TypeOK
<1>7. GateOK' BY <1>2, <1>3, GateKeeps
<1>8. \A e \in Events : Indexed(e) => Indexed(e)' BY <1>2 DEF Indexed
<1>9. SucceededIsIndexed' /\ CursorCoversDone'
  BY <1>2, <1>8 DEF Inv, SucceededIsIndexed, CursorCoversDone, Done, Indexed
<1>10. UpsertedOK'
  <2> SUFFICES ASSUME NEW v \in Workers, pc'[v] = "indexed", Owns(v, item[v])'
               PROVE  Indexed(item[v])'
    BY DEF UpsertedOK
  <2>1. CASE v = w BY <1>3, <2>1 DEF Indexed
  <2>2. CASE v # w
    <3>1. pc[v] = "indexed" /\ item'[v] = item[v] BY <1>3, <2>2 DEF Others
    <3>2. Owns(v, item[v]) BY <1>2, <3>1 DEF Owns
    <3>3. Indexed(item[v]) BY <3>1, <3>2 DEF Inv, UpsertedOK
    <3> QED BY <1>2, <3>1, <3>3 DEF Indexed
  <2> QED BY <2>1, <2>2
<1>11. Settles BY <1>2 DEF Settles
<1> QED BY <1>4, <1>6, <1>7, <1>9, <1>10, <1>11 DEF Inv

\* A worker settles the job it owns, and goes on.
LEMMA SettleKeeps ==
    ASSUME Inv, NEW w \in Workers, NEW status \in Statuses \ {"processing"},
           Owns(w, item[w]), item[w] \in Events,
           jobs' = [jobs EXCEPT ![item[w]] = Settled(item[w], status)],
           status = "succeeded" => Indexed(item[w]) /\ item[w] <= cursor' /\ cursor <= cursor',
           status # "succeeded" => cursor' = cursor,
           cursor' \in Events \cup {0},
           Others(w), WorkerOK', pc'[w] \notin {"loaded", "gated", "indexed"}, pc'[w] # pc[w],
           UNCHANGED <<outbox, docs, gap, rebuild, seen, missed, fenced, cleared, faults>>
    PROVE  Inv' /\ Settles
<1> DEFINE e == item[w]
<1>1. TypeOK BY DEF Inv
<1>2. jobs[e] # None /\ jobs[e].status = "processing" /\ jobs[e].owner = w
  BY DEF Owns
<1>3. /\ JobsOK(jobs') /\ jobs'[e].status = status /\ jobs'[e] # None
      /\ \A d \in Events \ {e} : jobs'[d] = jobs[d]
  BY <1>1, <1>2, SettleType
<1>4. TypeOK' BY <1>1, <1>3, Parts, NextParts DEF RestOK
<1>5. \A d \in Events : Indexed(d)' <=> Indexed(d) BY DEF Indexed
<1>6. \A d \in Events : Done(d)' => Done(d) \/ (d = e /\ status = "succeeded")
  BY <1>3 DEF Done
<1>7. SucceededIsIndexed' BY <1>5, <1>6 DEF Inv, SucceededIsIndexed, Indexed
<1>8. CursorCoversDone'
  <2>1. cursor \in Nat /\ cursor' \in Nat /\ cursor <= cursor' /\ Events \subseteq Nat
    BY <1>1, EventsAssumption DEF TypeOK
  <2>2. \A d \in Events : Done(d) => d <= cursor \/ d \in missed BY DEF Inv, CursorCoversDone
  <2>3. \A d \in Events : Done(d)' => d <= cursor' \/ d \in missed' BY <1>6, <2>1, <2>2
  <2> QED BY <2>3 DEF CursorCoversDone
<1>9. UpsertedOK'
  <2> SUFFICES ASSUME NEW v \in Workers, pc'[v] = "indexed", Owns(v, item[v])'
               PROVE  Indexed(item[v])'
    BY DEF UpsertedOK
  <2>1. v # w /\ pc[v] = "indexed" /\ item'[v] = item[v] BY DEF Others
  <2>2. item[v] \in Events BY <1>1, <2>1 DEF TypeOK
  <2>3. CASE item[v] = e
    <3>1. jobs'[e].status = "processing" BY <2>1, <2>3 DEF Owns
    <3> QED BY <1>3, <3>1
  <2>4. CASE item[v] # e
    <3>1. Owns(v, item[v]) BY <1>3, <2>1, <2>2, <2>4 DEF Owns
    <3>2. Indexed(item[v]) BY <2>1, <3>1 DEF Inv, UpsertedOK
    <3> QED BY <2>1, <3>2 DEF Indexed
  <2> QED BY <2>3, <2>4
<1>10. Settles
  <2>1. \A v \in Workers : pc'[v] # pc[v] <=> v = w BY DEF Others
  <2>2. \A d \in Events \ {e} : jobs[d] # None /\ jobs[d].status = "processing"
                               => jobs'[d].status = "processing"
    BY <1>3
  <2> QED BY <1>2, <2>1, <2>2 DEF Settles
<1> QED BY <1>4, <1>7, <1>8, <1>9, <1>10, GateKeeps, IndexKeeps DEF Inv


\* A worker moves on without touching the queue.
LEMMA MoveKeeps ==
    ASSUME Inv, NEW w \in Workers, Others(w), WorkerOK',
           pc'[w] \notin {"loaded", "gated", "indexed"},
           UNCHANGED <<outbox, jobs, cursor, docs, gap, rebuild, seen, missed, fenced, cleared>>,
           faults' \in 0..MaxFaults
    PROVE  Inv' /\ Settles
<1>1. TypeOK' BY Parts, NextParts DEF RestOK, Inv
<1>2. TableOK /\ Settles BY TableSame DEF Others
<1>3. GateOK' BY GateKeeps
<1> QED BY <1>1, <1>2, <1>3, TableKeeps, IndexKeeps DEF Inv

LEMMA EventsNat == \A n \in Events \cup {0} : n \in Nat
BY EventsAssumption

LEMMA CompleteKeeps ==
    ASSUME Inv, NEW w \in Workers, Complete(w)
    PROVE  Inv' /\ Settles
<1> DEFINE e == item[w]
<1>1. TypeOK /\ pc[w] = "indexed" /\ e # None /\ e \in Events
  BY DEF Inv, TypeOK, Complete
<1>2. UNCHANGED <<outbox, docs, gap, rebuild, seen, missed, fenced, cleared, faults>>
  BY DEF Complete, index, privacy, rebuilding
<1>3. CASE Goto(w, "failing") /\ UNCHANGED <<batch, item, queue>>
  <2>1. WorkerOK' /\ Others(w) /\ pc'[w] = "failing" BY <1>1, <1>3, GotoEffect
  <2>2. faults' \in 0..MaxFaults BY <1>1, <1>2 DEF TypeOK
  <2> QED BY <1>2, <1>3, <2>1, <2>2, MoveKeeps DEF queue
<1>4. CASE /\ Owns(w, e)
           /\ jobs' = [jobs EXCEPT ![e] = Settled(e, "succeeded")]
           /\ cursor' = Moved(e)
           /\ NextItem(w) \/ (Goto(w, "failing") /\ UNCHANGED <<batch, item>>)
  <2>1. WorkerOK' /\ Others(w) /\ pc'[w] \in {"idle", "work", "failing"}
    BY <1>1, <1>4, NextItemEffect, GotoEffect
  <2>2. Indexed(e) BY <1>1, <1>4 DEF Inv, UpsertedOK
  <2>3. cursor' \in Events \cup {0} /\ e <= cursor' /\ cursor <= cursor'
    <3>1. e \in Events /\ cursor \in Events \cup {0} BY <1>1 DEF TypeOK
    <3>2. e \in Nat /\ cursor \in Nat BY ONLY <3>1, EventsNat
    <3> QED BY <1>1, <1>4, <3>1, <3>2 DEF Moved
  <2>4. "succeeded" \in Statuses \ {"processing"} BY DEF Statuses
  <2> QED BY <1>1, <1>2, <1>4, <2>1, <2>2, <2>3, <2>4, SettleKeeps
<1> QED BY <1>3, <1>4 DEF Complete

LEMMA FailKeeps ==
    ASSUME Inv, NEW w \in Workers, Fail(w)
    PROVE  Inv' /\ Settles
<1> DEFINE e == item[w]
           status == IF jobs[e].attempts >= MaxAttempts THEN "dead_letter" ELSE "failed"
<1>1. TypeOK /\ e # None /\ e \in Events /\ pc[w] = "failing" BY DEF Inv, TypeOK, Fail
<1>2. UNCHANGED <<outbox, cursor, docs, gap, rebuild, seen, missed, fenced, cleared, faults>>
  BY DEF Fail, index, privacy, rebuilding
<1>3. CASE Stop(w) /\ UNCHANGED jobs
  <2>1. WorkerOK' /\ Others(w) /\ pc'[w] = "idle" BY <1>1, <1>3, StopEffect
  <2>2. faults' \in 0..MaxFaults BY <1>1, <1>2 DEF TypeOK
  <2> QED BY <1>2, <1>3, <2>1, <2>2, MoveKeeps
<1>4. CASE /\ Owns(w, e) /\ NextItem(w)
           /\ jobs' = [jobs EXCEPT ![e] = Settled(e, status)]
  <2>1. WorkerOK' /\ Others(w) /\ pc'[w] \in {"idle", "work"}
    BY <1>1, <1>4, NextItemEffect
  <2>2. status \in Statuses \ {"processing"} /\ status # "succeeded" BY DEF Statuses
  <2>3. cursor' \in Events \cup {0} BY <1>1, <1>2 DEF TypeOK
  <2> HIDE DEF status
  <2> QED BY <1>1, <1>2, <1>4, <2>1, <2>2, <2>3, SettleKeeps
<1> QED BY <1>3, <1>4 DEF Fail

LEMMA CrashKeeps ==
    ASSUME Inv, NEW w \in Workers, Crash(w)
    PROVE  Inv' /\ Settles
<1>1. TypeOK BY DEF Inv
<1>2. /\ UNCHANGED <<outbox, jobs, cursor, docs, gap, rebuild, seen, missed, fenced, cleared>>
      /\ Stop(w)
  BY DEF Crash, queue, index, privacy, rebuilding
<1>3. faults' \in 0..MaxFaults BY <1>1, BoundsAssumption DEF Crash, TypeOK
<1>4. WorkerOK' /\ Others(w) /\ pc'[w] = "idle" BY <1>1, <1>2, StopEffect
<1> QED BY <1>2, <1>3, <1>4, MoveKeeps

\* What stays of the gate when no worker moves and no fence rises.
LEMMA StillGated ==
    ASSUME Inv, UNCHANGED <<pc, item, fenced>>, outbox \subseteq outbox'
    PROVE  GateOK'
BY DEF Inv, GateOK

LEMMA ElapseKeeps ==
    ASSUME Inv, NEW e \in Events, Elapse(e)
    PROVE  Inv' /\ Settles
<1>1. TypeOK BY DEF Inv
<1>2. /\ UNCHANGED <<outbox, cursor, docs, gap, batch, item, pc, rebuild, seen, missed, fenced,
                     cleared>>
      /\ jobs[e] # None /\ jobs' = [jobs EXCEPT ![e].ready = TRUE]
  BY DEF Elapse, index, worker, rebuilding, privacy
<1>3. faults' \in 0..MaxFaults BY <1>1, BoundsAssumption DEF Elapse, TypeOK
<1> DEFINE j == [jobs[e] EXCEPT !.ready = TRUE]
<1>4. jobs[e] \in Job BY <1>1, <1>2 DEF TypeOK
<1>5. j \in Job /\ j.status = jobs[e].status /\ j.owner = jobs[e].owner
  BY <1>4 DEF Job
<1>6. j # None BY <1>5, JobAssumption
<1>7. jobs' = [jobs EXCEPT ![e] = j] BY <1>2
<1> HIDE DEF j
<1>8. /\ jobs' \in [Events -> Job \cup {None}] /\ jobs'[e] = j
      /\ \A d \in Events \ {e} : jobs'[d] = jobs[d]
  BY <1>1, <1>5, <1>7 DEF TypeOK
<1>9. \A d \in Events : /\ jobs'[d] = None <=> jobs[d] = None
                        /\ jobs[d] # None => jobs'[d].status = jobs[d].status
                                             /\ jobs'[d].owner = jobs[d].owner
  BY <1>2, <1>5, <1>6, <1>8
<1>10. JobsOK(jobs') BY <1>1, <1>8, <1>9 DEF TypeOK, JobsOK
<1>11. WorkerOK' BY <1>1, <1>2, Parts DEF WorkerOK
<1>12. TypeOK' BY <1>1, <1>2, <1>3, <1>10, <1>11, Parts, NextParts DEF RestOK
<1>13. TableOK
  <2>1. \A d \in Events : Done(d)' => Done(d) BY <1>9 DEF Done
  <2>2. ASSUME NEW w \in Workers, pc'[w] = "indexed", Owns(w, item[w])'
        PROVE  Owns(w, item[w])
    <3>1. item[w] \in Events BY <1>1, <1>2, <2>2 DEF TypeOK
    <3> QED BY <1>2, <1>9, <2>2, <3>1 DEF Owns
  <2> QED BY <1>2, <2>1, <2>2 DEF TableOK
<1>14. Settles BY <1>9 DEF Settles
<1> QED BY <1>2, <1>12, <1>13, <1>14, TableKeeps, StillGated, IndexKeeps DEF Inv

LEMMA CommitKeeps ==
    ASSUME Inv, NEW e \in Events, Commit(e)
    PROVE  Inv' /\ Settles
<1>1. TypeOK BY DEF Inv
<1>2. /\ UNCHANGED <<jobs, cursor, docs, gap, batch, item, pc, rebuild, seen, missed, fenced, cleared,
                     faults>>
      /\ outbox' = outbox \cup {e}
  BY DEF Commit, queue, index, worker, privacy, rebuilding
<1>3. outbox' \subseteq Events BY <1>1, <1>2 DEF TypeOK
<1>4. WorkerOK' BY <1>1, <1>2, Parts DEF WorkerOK
<1>5. TypeOK' BY <1>1, <1>2, <1>3, <1>4, Parts, NextParts DEF RestOK
<1>6. TableOK /\ Settles BY <1>2, TableSame
<1>7. ClearedOK' /\ IndexedExists' BY <1>2 DEF Inv, ClearedOK, IndexedExists
<1> QED BY <1>2, <1>5, <1>6, <1>7, TableKeeps, StillGated DEF Inv


-----------------------------------------------------------------------------
(* Rebuilds. *)

LEMMA ResetKeeps ==
    ASSUME Inv, NEW r \in Rebuilds, Reset(r)
    PROVE  Inv' /\ Settles
<1>1. TypeOK BY DEF Inv
<1>2. /\ UNCHANGED <<outbox, jobs, cursor, batch, item, pc, fenced, cleared, faults,
                     seen, missed>>
      /\ docs' = {} /\ gap' = gap \cup {e \in Events : jobs[e] # None}
      /\ rebuild' = [rebuild EXCEPT ![r] = "reset"]
  BY DEF Reset, queue, worker, privacy
<1>3. WorkerOK' /\ JobsOK(jobs') BY <1>1, <1>2, Parts DEF WorkerOK
<1>4. RestOK' BY <1>1, <1>2 DEF TypeOK, RestOK
<1>5. TypeOK' BY <1>3, <1>4, NextParts
<1>6. \A e \in Events : jobs[e] # None => e \in gap' BY <1>2
<1>7. SucceededIsIndexed' BY <1>2, <1>6 DEF SucceededIsIndexed, Done
<1>8. UpsertedOK'
  <2> SUFFICES ASSUME NEW w \in Workers, pc'[w] = "indexed", Owns(w, item[w])'
               PROVE  Indexed(item[w])'
    BY DEF UpsertedOK
  <2>1. item[w] \in Events BY <1>1, <1>2 DEF TypeOK
  <2> QED BY <1>2, <1>6, <2>1 DEF Owns, Indexed
<1>9. CursorCoversDone' BY <1>2 DEF Inv, CursorCoversDone, Done
<1>10. ClearedOK' /\ IndexedExists' BY <1>2 DEF ClearedOK, IndexedExists
<1>11. Settles BY <1>2 DEF Settles
<1> QED BY <1>2, <1>5, <1>7, <1>8, <1>9, <1>10, <1>11, StillGated DEF Inv

LEMMA SeeJobsKeeps ==
    ASSUME Inv, NEW r \in Rebuilds, SeeJobs(r)
    PROVE  Inv' /\ Settles
<1>1. TypeOK BY DEF Inv
<1>2. /\ UNCHANGED <<outbox, cursor, docs, gap, missed, batch, item, pc, fenced, cleared,
                     faults>>
      /\ jobs' = Discovered
      /\ rebuild' = [rebuild EXCEPT ![r] = "requeue"]
      /\ seen' = [seen EXCEPT ![r] = {e \in Events : Discovered[e] # None}]
  BY DEF SeeJobs, index, worker, privacy
<1>3. /\ JobsOK(jobs')
      /\ \A e \in Events : jobs'[e] = jobs[e] \/ jobs'[e] = NewJob
  BY <1>1, <1>2, DiscoveredType
<1>4. WorkerOK' BY <1>1, <1>2, Parts DEF WorkerOK
<1>5. RestOK' BY <1>1, <1>2 DEF TypeOK, RestOK
<1>6. TypeOK' BY <1>3, <1>4, <1>5, NextParts
<1>7. TableOK
  <2>1. \A e \in Events : Done(e)' => Done(e) BY <1>3, NewJobType DEF Done
  <2>2. ASSUME NEW w \in Workers, pc'[w] = "indexed", Owns(w, item[w])'
        PROVE  Owns(w, item[w])
    <3>1. item[w] \in Events BY <1>1, <1>2, <2>2 DEF TypeOK
    <3> QED BY <1>2, <1>3, <2>2, <3>1, NewJobType DEF Owns
  <2> QED BY <1>2, <2>1, <2>2 DEF TableOK
<1>8. Settles BY <1>3, NewJobType DEF Settles
<1> QED BY <1>2, <1>6, <1>7, <1>8, TableKeeps, StillGated, IndexKeeps DEF Inv

\* A requeue leaves no job it saw done or leased; what it did not see stays as it
\* is, and is missed by the cursor.
LEMMA RequeueKeeps ==
    ASSUME Inv, NEW r \in Rebuilds, RequeueAll(r)
    PROVE  Inv' /\ Settles
<1>1. TypeOK BY DEF Inv
<1>2. /\ UNCHANGED <<outbox, docs, batch, item, pc, fenced, cleared, faults>>
      /\ cursor' = 0 /\ gap' = gap \ seen[r]
      /\ missed' = {e \in Events \ seen[r] : jobs[e] # None /\ jobs[e].status = "succeeded"}
      /\ rebuild' = [rebuild EXCEPT ![r] = "ended"] /\ seen' = [seen EXCEPT ![r] = {}]
      /\ jobs' = [e \in Events |-> IF e \in seen[r] /\ jobs[e] # None THEN NewJob ELSE jobs[e]]
  BY DEF RequeueAll, Requeued, worker, privacy
<1>3. \A e \in Events :
          /\ e \in seen[r] => jobs'[e] = None \/ jobs'[e] = NewJob
          /\ e \notin seen[r] => jobs'[e] = jobs[e]
  BY <1>2
<1>4. JobsOK(jobs')
  <2>1. jobs' \in [Events -> Job \cup {None}] BY <1>1, <1>2, NewJobType DEF TypeOK
  <2> QED BY <1>1, <1>3, <2>1, NewJobType DEF TypeOK, JobsOK
<1>5. WorkerOK' BY <1>1, <1>2, Parts DEF WorkerOK
<1>6. RestOK' BY <1>1, <1>2 DEF TypeOK, RestOK
<1>7. TypeOK' BY <1>4, <1>5, <1>6, NextParts
<1>8. \A e \in Events : Done(e)' => Done(e) /\ e \notin seen[r] BY <1>3, NewJobType DEF Done
<1>9. \A e \in Events \ seen[r] : Indexed(e)' <=> Indexed(e) BY <1>2 DEF Indexed
<1>10. SucceededIsIndexed'
  BY <1>8, <1>9 DEF Inv, SucceededIsIndexed, Indexed
<1>11. CursorCoversDone' BY <1>2, <1>8 DEF CursorCoversDone, Done
<1>12. UpsertedOK'
  <2> SUFFICES ASSUME NEW w \in Workers, pc'[w] = "indexed", Owns(w, item[w])'
               PROVE  Indexed(item[w])'
    BY DEF UpsertedOK
  <2>1. item[w] \in Events /\ pc[w] = "indexed" BY <1>1, <1>2 DEF TypeOK
  <2>2. item[w] \notin seen[r] /\ Owns(w, item[w]) BY <1>2, <1>3, <2>1, NewJobType DEF Owns
  <2> QED BY <1>2, <1>9, <2>1, <2>2 DEF Inv, UpsertedOK
<1>13. ClearedOK' /\ IndexedExists' BY <1>2, IndexKeeps
<1>14. Settles BY <1>3, NewJobType DEF Settles
<1> QED BY <1>2, <1>7, <1>10, <1>11, <1>12, <1>13, <1>14, StillGated DEF Inv

LEMMA AbortKeeps ==
    ASSUME Inv, NEW r \in Rebuilds, AbortRebuild(r)
    PROVE  Inv' /\ Settles
<1>1. TypeOK BY DEF Inv
<1>2. /\ UNCHANGED <<outbox, jobs, cursor, docs, gap, missed, batch, item, pc, fenced,
                     cleared, faults>>
      /\ rebuild' = [rebuild EXCEPT ![r] = "ended"] /\ seen' = [seen EXCEPT ![r] = {}]
  BY DEF AbortRebuild, queue, index, worker, privacy
<1>3. WorkerOK' /\ JobsOK(jobs') BY <1>1, <1>2, Parts DEF WorkerOK
<1>4. RestOK' BY <1>1, <1>2 DEF TypeOK, RestOK
<1>5. TypeOK' BY <1>3, <1>4, NextParts
<1>6. TableOK /\ Settles BY <1>2, TableSame
<1> QED BY <1>2, <1>5, <1>6, TableKeeps, StillGated, IndexKeeps DEF Inv

-----------------------------------------------------------------------------
(* Erasure. *)

LEMMA FenceKeeps ==
    ASSUME Inv, NEW s \in Scopes, Fence(s)
    PROVE  Inv' /\ Settles
<1>1. TypeOK BY DEF Inv
<1>2. /\ UNCHANGED <<outbox, jobs, cursor, docs, gap, batch, item, pc, rebuild, seen, missed, cleared,
                     faults>>
      /\ fenced' = fenced \cup {s}
      /\ \A w \in Workers : pc[w] = "gated" => ScopeOf[item[w]] # s
  BY DEF Fence, queue, index, worker, rebuilding
<1>3. WorkerOK' /\ JobsOK(jobs') BY <1>1, <1>2, Parts DEF WorkerOK
<1>4. RestOK' BY <1>1, <1>2 DEF TypeOK, RestOK
<1>5. TypeOK' BY <1>3, <1>4, NextParts
<1>6. Settles BY <1>2, TableSame
<1>7. GateOK' BY <1>2 DEF Inv, GateOK
<1>8. \A e \in Events : (Indexed(e) => Indexed(e)') /\ (Done(e)' <=> Done(e))
  BY <1>2 DEF Indexed, Done
<1>9. SucceededIsIndexed' /\ CursorCoversDone'
  BY <1>2, <1>8 DEF Inv, SucceededIsIndexed, CursorCoversDone, Indexed
<1>10. UpsertedOK' BY <1>2 DEF Inv, UpsertedOK, Owns, Indexed
<1> QED BY <1>2, <1>5, <1>6, <1>7, <1>9, <1>10, IndexKeeps DEF Inv

LEMMA DeleteDocumentsKeeps ==
    ASSUME Inv, NEW s \in Scopes, DeleteDocuments(s)
    PROVE  Inv' /\ Settles
<1>1. TypeOK BY DEF Inv
<1>2. /\ UNCHANGED <<outbox, jobs, cursor, gap, batch, item, pc, rebuild, seen, missed, fenced,
                     faults>>
      /\ s \in fenced
      /\ docs' = {e \in docs : ScopeOf[e] # s} /\ cleared' = cleared \cup {s}
  BY DEF DeleteDocuments, queue, worker, rebuilding
<1>3. WorkerOK' /\ JobsOK(jobs') BY <1>1, <1>2, Parts DEF WorkerOK
<1>4. RestOK' BY <1>1, <1>2 DEF TypeOK, RestOK
<1>5. TypeOK' BY <1>3, <1>4, NextParts
<1>6. Settles BY <1>2, TableSame
<1>7. \A e \in Events : (Indexed(e) => Indexed(e)') /\ (Done(e)' <=> Done(e))
  BY <1>2 DEF Indexed, Done
<1>8. SucceededIsIndexed' /\ CursorCoversDone'
  BY <1>2, <1>7 DEF Inv, SucceededIsIndexed, CursorCoversDone, Indexed
<1>9. UpsertedOK'
  <2> SUFFICES ASSUME NEW w \in Workers, pc[w] = "indexed", Owns(w, item[w])
               PROVE  Indexed(item[w])'
    BY <1>2 DEF UpsertedOK, Owns
  <2>1. Indexed(item[w]) BY DEF Inv, UpsertedOK
  <2> QED BY <1>2, <2>1 DEF Indexed
<1>10. ClearedOK' /\ IndexedExists' BY <1>2 DEF Inv, ClearedOK, IndexedExists
<1> QED BY <1>2, <1>5, <1>6, <1>8, <1>9, <1>10, StillGated DEF Inv

LEMMA EraseRowsKeeps ==
    ASSUME Inv, NEW s \in Scopes, EraseRows(s)
    PROVE  Inv' /\ Settles
<1>1. TypeOK BY DEF Inv
<1>2. /\ UNCHANGED <<cursor, docs, gap, batch, item, pc, rebuild, seen, missed, fenced, cleared,
                     faults>>
      /\ s \in cleared
      /\ outbox' = {e \in outbox : ScopeOf[e] # s}
      /\ jobs' = [e \in Events |-> IF e \in outbox /\ ScopeOf[e] = s THEN None ELSE jobs[e]]
  BY DEF EraseRows, index, worker, privacy, rebuilding
<1>3. s \in fenced BY <1>1, <1>2 DEF TypeOK
<1>4. \A e \in Events : jobs'[e] = None \/ jobs'[e] = jobs[e] BY <1>2
<1>5. JobsOK(jobs')
  <2>1. jobs' \in [Events -> Job \cup {None}] BY <1>1, <1>2 DEF TypeOK
  <2> QED BY <1>1, <1>4, <2>1 DEF TypeOK, JobsOK
<1>6. WorkerOK' BY <1>1, <1>2, Parts DEF WorkerOK
<1>7. RestOK' BY <1>1, <1>2 DEF TypeOK, RestOK
<1>8. TypeOK' BY <1>5, <1>6, <1>7, NextParts
<1>9. TableOK
  <2>1. \A e \in Events : Done(e)' => Done(e) BY <1>4 DEF Done
  <2>2. ASSUME NEW w \in Workers, pc'[w] = "indexed", Owns(w, item[w])'
        PROVE  Owns(w, item[w])
    <3>1. item[w] \in Events BY <1>1, <1>2, <2>2 DEF TypeOK
    <3> QED BY <1>2, <1>4, <2>2, <3>1 DEF Owns
  <2> QED BY <1>2, <2>1, <2>2 DEF TableOK
<1>10. Settles BY <1>4 DEF Settles
<1>11. GateOK' BY <1>2, <1>3 DEF Inv, GateOK
<1>12. ClearedOK' BY <1>2 DEF Inv, ClearedOK
<1>13. IndexedExists' BY <1>2 DEF Inv, ClearedOK, IndexedExists
<1> QED BY <1>2, <1>8, <1>9, <1>10, <1>11, <1>12, <1>13, TableKeeps DEF Inv

-----------------------------------------------------------------------------
(* The theorems. *)

LEMMA Step == Inv /\ [Next]_vars => Inv' /\ Settles
<1> SUFFICES ASSUME Inv, [Next]_vars PROVE Inv' /\ Settles OBVIOUS
<1>1. ASSUME NEW w \in Workers, Handle(w) PROVE Inv' /\ Settles
  BY <1>1, LoadKeeps, EnterKeeps, UpsertKeeps, CompleteKeeps, FailKeeps DEF Handle
<1>2. ASSUME NEW w \in Workers, NEW locked \in SUBSET Events, Claim(w, locked)
      PROVE  Inv' /\ Settles
  BY <1>2, ClaimKeeps
<1>3. CASE UNCHANGED vars
  <2>1. UNCHANGED <<outbox, jobs, cursor, docs, gap, batch, item, pc, rebuild, seen, missed, fenced,
                    cleared, faults>>
    BY <1>3 DEF vars, queue, index, worker, rebuilding, privacy
  <2>2. TypeOK' BY <2>1 DEF Inv, TypeOK
  <2>3. TableOK /\ Settles BY <2>1, TableSame
  <2> QED BY <2>1, <2>2, <2>3, TableKeeps, StillGated, IndexKeeps DEF Inv
<1> QED
  BY <1>1, <1>2, <1>3, CommitKeeps, ElapseKeeps, CrashKeeps, ResetKeeps, SeeJobsKeeps,
     RequeueKeeps, AbortKeeps, FenceKeeps, DeleteDocumentsKeeps, EraseRowsKeeps
  DEF Next

LEMMA InitKeeps == Init => Inv
BY InitType
DEF Init, Inv, UpsertedOK, SucceededIsIndexed, Done, GateOK, ClearedOK, IndexedExists,
    CursorCoversDone

\* The inductive invariant holds in every state of Projection, with or without
\* fairness.
THEOREM Invariance == Spec => []Inv
<1>1. Inv /\ [Next]_vars => Inv' BY Step
<1> QED BY InitKeeps, <1>1, PTL DEF Spec

\* Every row of the queue satisfies the checks of its table, and a worker has an
\* item exactly while it handles one.
THEOREM TypeCorrect == Spec => []TypeOK
<1>1. Inv => TypeOK BY DEF Inv
<1> QED BY Invariance, <1>1, PTL

\* A job that is done has its document, whatever workers, rebuilds and erasures do
\* beside it (complete, requeue_all and reset).
THEOREM SucceededCorrect == Spec => []SucceededIsIndexed
<1>1. Inv => SucceededIsIndexed BY DEF Inv
<1> QED BY Invariance, <1>1, PTL

\* No document outlives its revision: the gate around the upsert keeps late workers
\* from writing behind an erasure (projection_context, erase_scope).
THEOREM ExistsCorrect == Spec => []IndexedExists
<1>1. Inv => IndexedExists BY DEF Inv
<1> QED BY Invariance, <1>1, PTL

\* The cursor is never behind a job that is done, unless the job came while a
\* rebuild was queueing the others again (complete, requeue_all).
THEOREM CursorCorrect == Spec => []CursorCoversDone
<1>1. Inv => CursorCoversDone BY DEF Inv
<1> QED BY Invariance, <1>1, PTL

\* Whoever settles a lease holds it and is at work on that item (complete and fail).
THEOREM HolderCorrect == Spec => OnlyHolderSettles
<1>1. Inv /\ [Next]_vars => [Settles]_vars BY Step
<1> QED BY Invariance, <1>1, PTL DEF OnlyHolderSettles, Settles, Spec

=============================================================================
