# Verification of evolvable-user-memory

TLA+ specifications of the memory service, the TLC configurations that check
them on small instances, and TLAPS proofs of the safety properties for all
instances. Paths below are relative to `src/evolvable_memory/`.

Contents: [the system](#the-system), [what is modelled](#what-is-modelled),
[the runs](#the-runs), [what the runs found](#what-the-runs-found),
[what is proved](#what-is-proved), [what is not modelled](#what-is-not-modelled).

Run `tlc -config <cfg> <module>` for a run of the table below and
`tlapm <module>Proofs.tla` for a proof module.

## The system

The service keeps what a subject prefers. Evidence arrives as observations and
becomes *revisions* of a belief; a *recall* returns the revisions that fit a
query and leaves a trace; consumers report which revisions they *used* and what
came of it, and these *outcomes* teach a utility that later recalls rank by. The
retrieval policy itself evolves through gated experiments. Privacy governance
decides whether a subject may be processed and erases a subject on request; a
worker copies revisions to a vector index; a web page shows it all.

| Component | State | Operations | Interacts with |
|---|---|---|---|
| Memory service (`application/service.py`) | none; clock and ids | remember, correct, recall, record usage, record outcome, project context, history, list, erase | store, projection, compressor |
| Store, in memory (`adapters/in_memory.py`) | tables of observations, evidence, candidates, records, revisions, traces, usages, outcomes, utilities, strategies | one re-entrant lock; a transaction snapshots the tables and restores them on an exception | service, evolution |
| Store, PostgreSQL (`adapters/postgres.py`, `migrations/`) | the same as rows, and an outbox | one READ COMMITTED transaction per write request; unique keys, row locks, advisory locks | service, evolution, worker |
| Evolution (`application/evolution.py`, `domain/evolution.py`) | experiments, transitions, activations (in the store) | propose, advance with a signed receipt | strategy registry, gate verifier |
| Governance (`application/governance.py`, `application/access.py`, `adapters/*_governance.py`) | grants, suppression fences, erasure requests, a connection pool | grant, revoke, suppress, erase; a shared scope lock around every operation | service, worker |
| Projection worker (`application/projection.py`, `adapters/projection_outbox.py`, `projector.py`) | jobs with leases, a cursor | discover, claim, complete, fail, rebuild | outbox, Milvus, governance |
| Web page (`api/static/app.js`) | scope generation, request channels, idempotency keys, journey, form, dialog, lists | change scope, load, remember, recall, report, correct | HTTP API |
| Compression (`application/compression.py`) | none | project a trace into a character budget | service |
| Authorization and audit (`adapters/authorization.py`) | audit records | decide, record, then enter the governance context | API, every operation |
| HTTP API, evaluation, configuration | none | routing, validation, metrics | the above |

What is hard in it: requests on PostgreSQL read, compute and write in several
statements while others commit; every write is retried by key; two time axes
(when a preference holds, when it was recorded) are read as of any instant;
running totals stand beside the events they total; evolution decides on reads
that may be stale; erasure cuts through every table in steps that can fail one by
one; leases expire under a working worker; answers reach a page that has moved
on. `PROJECT.json` lists these hazards line by line with the property that
covers each, or why none does.

What makes each component correct:

* ledger: one linear chain per identity, each key accepted once and answerable
  for ever, beliefs that are exactly what their evidence amounts to, a present
  that is the active revision and a past that does not change;
* experience: outcomes credit only what was shown, utility is the sum of its
  outcomes, recalls of the past are reproducible, nothing outlives an erasure;
* evolution: strategies in force nest like calls, the trail of an experiment is
  complete, the activation log agrees with it;
* governance: what is erased stays erased, in the store and in the index, nothing
  is written behind the fence, a receipt is final and what it counts of a table is
  all that was there or nothing;
* projection: what is marked done is in the index, only the holder of a lease
  settles its job, every revision reaches the index or the dead letters;
* page: it shows nothing of another scope, records nothing twice, claims no step
  it has not made and stays usable whatever happens to its requests;
* compression: within budget, in rank order, nothing counted twice;
* authorization: nothing happens before a recorded, allowing decision.

## What is modelled

```
RevisionChain   <--implements--  PreferenceLedger  <--extends--  Experience
      ^---------implements------ PgMemory
UtilityLedger   <--implements--  PgExperience
StrategyStack   <--implements--  Evolution
ErasurePromise  <--implements--  Governance
                                 Projection     (composes queue, index, erasure)
                                 WebPage        (composes page, network, API)
```

`MC*` modules add symmetry sets and instances; `*Proofs` modules hold the proofs.
Operators whose comment begins with "Faulty variant" are plausible mistakes in
the operator that follows them; nothing uses them, and a run with one put in
place of that operator must fail. They show that each property can be broken.

Scopes share no state in any module but `WebPage`: every statement of the code
names its scope. So the ledger's and the governance's instances have one scope,
and the proofs cover any number.

**RevisionChain** is what both stores promise: an accepted key puts one revision
at the end of one chain, and only erasing the scope removes revisions.

**PreferenceLedger** is the service over the in-memory store. A request holds the
store's lock from its first read to its last write, so a request is one action:
`RememberPreference` and `CorrectPreference` guard with the key lookup (a used
key is answered without a change, hence a stutter), `AcceptCandidate` stands for
`save_ingestion` up to `update_candidate`, `NextRevision` for the belief that
`_accept_candidate` computes and `EraseLedger` for the store's erasure. An
observation, its evidence and its candidate are saved together, so `ingested`
holds one record per key. The clock may stand still between requests and never
goes back. Confidence is counted per mille. `AsOf` is `memories_as_of` with its
order by recording instant, then sequence.

**Experience** adds recall, usage and outcome. `Recall` saves a trace with any
subset of the visible revisions: scores, thresholds and the limit choose the
subset, and no property here depends on which. Each item keeps the utility it was
ranked by. `RecordOutcome` adds the event and moves the running estimate, the two
representations that `UtilityIsSumOfOutcomes` compares. The set a usage may cite
is what the compression kept, again any subset. A recall opens no transaction of
its own; the in-memory governance adapters hold their lock around the request,
which makes it one action.

**PgMemory** is the same service over PostgreSQL, one action per statement:
`ReadSnapshot`, `Lookup`, `SaveIngestion`, `ReadClock`, `ReadCurrent`,
`AddMemory` or `AppendRevision`, `Commit`. READ COMMITTED means that each read
sees what is committed at that moment; a request's own rows become visible at
`Commit`. `keyLock` is the unique index entry an uncommitted observation holds,
`rowLock` the record row inserted or selected `FOR UPDATE`. `Crash` loses the
connection at any statement, and `Commit` may lose its answer. Requests that
share a command are retries. There is no erasure beside a request: governance
keeps the two apart (`Governance`). A belief is its value and support count;
business time is left to `PreferenceLedger`.

**UtilityLedger** is what learning promises: a report is counted at most once per
key, in one indivisible step, and nothing but a report or an erasure moves an
estimate.

**PgExperience** is recall and feedback over PostgreSQL: threads that serve one
request after another. A recall is `Read` and, in a transaction of its own,
`SaveTrace`. A usage report is `LookupUsage`, `InsertUsage`, `CommitUsage`, an
outcome report `LookupOutcome`, `InsertOutcome`, `Upsert`, `CommitOutcome`: the
savepoint makes a lost race on the key a replay, and the additive upsert waits for
whoever holds the estimate's row and adds to what that one committed. An answer is
kept as state, because a replay must report what the original counted. Reports the
service refuses are left out, as they change nothing; the instant a report names is
not compared when it is replayed, in the model as in the code. Revisions come from
outside (`Record`).

**StrategyStack** is what evolution promises: promotions and rollbacks nest.

**Evolution** is `propose` and `advance` by concurrent callers. `Lookup`,
`ReadBaseline` or `ReadExperiment`, the registry call (`Register`,
`AdvanceExperiment` or its refusal `Conflict`) and the second lookup (`Reread`)
are separate actions, because only the registry call holds a lock. Both stores
decide the same way under it. A caller that is done may send any request, the
same one again included. `RejectReceipt` is the verifier's refusal. The bootstrap
activation is the initial state.

**ErasurePromise** is what the control plane promises: a scope is closed for good,
nothing enters a closed scope, and an erasure is certified only when store and
index are empty.

**Governance** is clients that process, project, suppress and erase. Each reads
the clock (`Request`) or a revision (`Load`), takes one of `PoolSize` connections
(`Connect`), waits for the scope's advisory lock in PostgreSQL's order (`ahead`
holds who asked before), passes or is refused at `Gate` and works with the lock in
shared mode. `Fence` and `BeginErasure` take it exclusively for one transaction;
`DeleteProjection`, `CountRows`, `DeleteRows` and `CompleteErasure` then run without
it, and several erasers may be in them at once. `erase_scope` counts each table in a
statement of its own and deletes in later ones, and READ COMMITTED holds nothing
between them: several erasers may count rows that only one of them deletes. The rows
of the model are those of one table, any of them. `HandlerFails` raises before or after the
handler took effect, `Crash` ends a client anywhere and frees its locks and its
connection. The in-memory adapter's one lock gives a subset of these behaviours,
and the development bypass is the instance whose grants always cover. The purpose
of a grant is left out (an issued grant covers what is asked), and an upper end of a
grant is an instant up to `MaxTime + 1`, the last standing for "no end".

**Projection** is the worker's queue with the index, rebuilds and erasures. Each
statement on the queue is an action: `Claim` (the discovery that precedes it adds
jobs any other pass would add as well, so it is part of it), `Load`, `Enter` (the
governance gate), `Upsert`, `Complete`, `Fail`. Time is a job's `ready`: `Elapse`
ends a backoff or a lease, also one whose worker is still busy. `Claim` skips any
set of rows others have locked. A lost lease makes `fail` raise and ends the
process (`Stop`), with the rest of its batch leased until the leases run out. A
rebuild is a process of its own and takes three steps: `Reset` (drop and create),
`SeeJobs` (the discovery, then the snapshot of the UPDATE in `requeue_all`) and
`RequeueAll` (the rest of the UPDATE, and the DELETE of the cursor with the later
snapshot it has); `AbortRebuild` ends it before the commit. A job that is inserted,
claimed and completed between the last two keeps its status and loses the cursor it
moved; the history variable `missed` names such jobs. The attempts of a job are counted
up to `MaxAttempts`: apart from the length of a backoff, which the model leaves out, the
code reads no more of them than whether they reach it.
Erasure appears as its three effects, in the order `Governance` proves.

**WebPage** is the page, its requests and the API. An action is one stretch of
JavaScript up to its `await`. A request may be served late, twice for a retry, or
never; it may fail or time out before or after it was served. The abort of a
channel's older request is seen by the aborted call in a stretch of its own; a browser
rejects the awaited promise at once and runs what waits on it before the next event,
so nothing but the API moves until the aborted calls have ended (`Quiet`). That
matters: the corrections of all records share one button and each record has a channel
of its own, so the `finally` of an aborted correction that came late would free the
button of another record's correction. `ApplyScope` is a change of
scope with its new generation, `Reload` a new page over the same localStorage. The
API is external here: what a key asks for is done once, a correction only on the
revision it names, as `PgMemory` and `PreferenceLedger` show. Content typed into a form
or dialog is a numbered draft, and `drafted` records the scope each was typed in, so
that `ShownIsOfScope` can ask where a draft is shown, sent and recorded. A dialog that is
closed is not told apart from one left open, which only adds behaviours.

## The runs

| Run | Instance | Checks |
|---|---|---|
| `LedgerOne` | 1 scope, 1 identity, 2 values, 2 sources, 3 keys, instants 0..2 | `BeliefExplained`, `RetryResolvable`, `PresentIsActive`, `PastIsImmutable`, `ImplementsRevisionChain` |
| `Experience` | 1 scope, 2 ingestions, 2 contexts, 2 traces, 1 usage, 2 outcomes, instants 0..1 | `UtilityIsSumOfOutcomes`, `OutcomesAreAttributed`, `RecallIsReproducible`, across erasures |
| `PgMemory` | 3 requests, 2 identities, 2 values, 3 keys, one instant | `ChainIsLinear`, `SupportFollowsChain`, `AppliedOnce`, `ImplementsRevisionChain` |
| `PgProgress` | 3 requests, 1 identity, 1 value, 2 keys, instants 0..1, with fairness | `EveryRequestIsAnswered` |
| `PgExperience` | 2 threads, 1 revision, 2 contexts, 1 trace, 1 usage, 2 outcome keys, a success and a failure of different weight and instant, with fairness | `UtilityIsSumOfOutcomes`, `OutcomesAreAttributed`, `AnswersCountTheReport`, `EveryReportIsAnswered`, `ImplementsUtilityLedger` |
| `Evolution` | 2 callers, 2 candidates, 2 proposals, every receipt and some that do not authorize | `PromotedFormChain`, `EvidenceTrail`, `ActivationsMatchEvidence`, `ImplementsStrategyStack` |
| `Governance` | 1 scope, 3 clients, 2 rows, 2 erasure keys, 1 grant key, a pool of 2, instants 0..1 | `ErasedStaysErased`, `ReceiptCountsAllOrNothing`, `NothingWrittenBehindTheFence`, `ReceiptIsFinal`, `ImplementsErasurePromise` |
| `GovernanceCalls` | the same with 1 row, 1 erasure key and one instant, with fairness | `EveryCallEnds` |
| `Projection` | 2 events of 1 scope, 2 workers, batch 2, 2 attempts, 1 fault, 1 rebuild, with fairness | `SucceededIsIndexed`, `IndexedExists`, `CursorCoversDone`, `OnlyHolderSettles`, `BacklogDrains` |
| `WebPage` | 2 scopes, 1 record, 2 verdicts, 4 requests, 2 drafts, 1 reload, with fairness | types, `ShownIsOfScope`, `JourneyIsEarned`, `RecordedOnce`, `BusyWhileAsked`, `ShownNeverGoesBack`, `ControlsReturn` |
| `PgPresent`, `PgSeen` | 3 requests, 1 identity, 2 values, 3 keys, instants 0..1 | one documented statement each, violated |

The type invariants are no properties of these runs but `WebPage`'s: the proofs
below show them for every instance.

**Bounds.** `MaxClock` and `MaxTime` bound the clock and the times a caller
supplies; `Keys` bounds ingestions, `TraceIds`, `UsageKeys` and `OutcomeKeys` their
reports, `Candidates` the experiments; `MaxFaults` bounds crashes of a worker and
leases lost under it, `Rebuilds` the rebuilds, `MaxRequests`, `MaxDrafts` and
`MaxReloads` what is sent, typed and reloaded on the page (a page that has used up
its requests does nothing that would send one, the refresh after a saved command
included). Nothing else is bounded. Three keys give a creation, a reinforcement and
a change of value in every order, three instants a past, a present and a business
time on either side; two equal instants need two revisions. Two instants suffice
for `Experience` and the grants, whose properties only compare "before" and "not
before". Three requests are the least in which a retry, its original and a
competitor meet. Two threads and two outcome keys are the least in which reports
race on a key or on an estimate, while the other context shows that they do not
touch its row. Two candidates are the least with competing and with stacked
promotions. Three clients and two connections let an eraser, a request and a
second eraser meet while one of them waits for the pool. Two rows are the least of
which a part can be counted. Two events give a batch
with a rest; one lost lease makes two workers hold one job, and two attempts reach
the dead letter. Four requests are a load, a command, the retry of one and an
answer that comes late; corrections of two records at once need more, and are left to
the proofs. Keys, values, scopes, identities, callers, clients and
threads are only compared for equality, so they are symmetric; times, confidences
and events are not. The runs with a liveness property use no symmetry.
`CHECK_DEADLOCK FALSE` appears where the system really stops: in the `PgMemory`
family when every request is answered, in `WebPage` when nothing is left to send.

**Fairness.** It is assumed only in the runs marked so, and never of clients,
crashes, rebuilds or erasures.

* `PgProgress`: weak fairness of each request's next statement. A request that
  began runs in a worker thread of its own, and PostgreSQL wakes a transaction when
  the lock it waits for is released.
* `PgExperience`: strong fairness of each thread's next statement. Here locks are
  taken again and again by other requests, and PostgreSQL serves those who wait for
  a row or for an index entry in turn.
* `GovernanceCalls`: weak fairness of each client's next step, strong fairness of
  `Connect`, since psycopg's pool serves its waiters in turn. That the advisory lock
  does so is not an assumption but part of the model (`ahead`).
* `Projection`: weak fairness of a worker's steps and of time, strong fairness of a
  claim that no row lock hinders, since row locks are short. Workers that end come
  back: `compose.yaml` restarts them unless they are stopped.
* `WebPage`: weak fairness of the end of each request, because the page has a timer
  for it (`API_TIMEOUT_MS`). The API may be silent for ever.

## What the runs found

The two violations are steps the code takes against something the repository says;
`PROJECT.json` quotes each statement.

* `PgPresent`: `_accept_candidate` reads the clock before the active revision. On
  PostgreSQL a request may therefore append a revision that was "recorded" before
  its predecessor, and `list_preferences` then shows the predecessor. The in-memory
  store reads the clock under its lock and has no such step: `PresentCorrect`
  proves it.
* `PgSeen`: `expected_revision_id` is compared with a first read, the append is
  conditional on a second one; a write in between is superseded silently.

Other places where code and documents part were met while modelling. The models
take the code's side; no run is spent on them.

* The cause of `PgPresent` also lets reads at an instant already past change their
  answer, where `docs/api-guide.md:380` offers `known_at` for reproducible states.
  A recall on PostgreSQL is not reproducible for the same reason, so
  `RecallIsReproducible` is stated of the in-memory service only.
* Repeating the value of a correction lowers its confidence, since reinforcement is
  capped below 1; `docs/api-guide.md:151` says equal values strengthen a belief.
* The twin of an advance, in flight at the same time, may be refused as a receipt
  mismatch instead of answered with the original result (`docs/evolution-safety.md:25`).
* A receipt is final, but its counts need not be those of what its erasure deleted.
  They may be too small: when an eraser ends or fails after the store was emptied, or
  when another eraser got to the store first, the receipt is completed with zero counts
  (`docs/privacy-lifecycle.md:51` lists counts among what a receipt keeps). And the
  receipts of two keys may both count the same rows: `erase_scope` selects its counts
  before it deletes, in statements of their own and without the scope's lock
  (`postgres.py:923-1009`), so both erasers may count before either deletes. What holds
  is `ReceiptCountsAllOrNothing`.
* `requeue_all` updates the jobs and deletes the cursor in two READ COMMITTED
  statements (`projection_outbox.py:228-244`). A job that a worker inserts, claims and
  completes between them stays done while the cursor it moved is deleted, so the
  cursor, by which `docs/architecture.md:125` measures the lag, is behind it until
  another job completes. `CursorCoversDone` excepts these jobs (`missed`).
* The advisory lock of a request lives on a governance connection of its own. If that
  connection breaks, PostgreSQL frees the lock while the operation goes on in the
  store, against `docs/governance.md:110-112`. `Crash` ends the operation with the
  lock, so this step is outside the model, and so is an upsert that Milvus applies
  after its caller gave it up.
* A grant is checked at an instant that was read before the wait for the pool and the
  lock, so it may be used after it expired, where `docs/governance.md:92-93` has expired
  grants fail closed. The model does this (`Request`, `Gate`).
* With governance mode `development` the worker builds a bypass of its own
  (`projector.py:63-64`), which cannot see a fence raised through the API. The models
  are of mode `postgres`.
* Attempts are counted when a job is claimed, but a job becomes a dead letter only
  when a failure is recorded, so a document that ends its worker every time is tried
  for ever (`docs/milvus-projection.md:95`). `BacklogDrains` therefore bounds crashes.
* A rebuild that ends between its two halves leaves jobs marked done whose documents
  are gone, until it is run again. `SucceededIsIndexed` excepts that time (`gap`).
* On the page, an outcome that is answered after a newer recall marks the newer
  guidance complete, and the answer to a correction closes the dialog even if it was
  opened again for another record. Neither shows or stores anything wrong. A retry
  after a change of scope or a reload is a new operation
  (`docs/frontend-guide.md:101`).

## What is proved

TLAPS checks the following for every value of the constants that satisfies the
modules' assumptions: bounds are natural numbers, batches, attempts and the pool are
not empty, clients, rows and events are finite, confidences are per mille, weights
are natural numbers (positive on PostgreSQL, as its constraint demands), `None` is
none of the values it stands in for (strategies, stages, transitions, outcomes,
instants), requests of `Evolution` are well-formed and the root strategy is no
candidate. Each proof module has the same plan: an inductive
invariant with one lemma for each action or for each part, the type invariant and
the safety properties read off it, and the refinement, step by step, on top of it.

**ExperienceProofs**, of the ledger: `LedgerTypeOK`, `RetryResolvable`, `PresentIsActive`, the
action property `PastIsImmutable`, and `LedgerRefinement`: the ledger implements
`RevisionChain`. `RetryResolvable` is inductive given that every belief cites
evidence (`EvidenceCited`). The two bitemporal theorems rest on `RecordedInOrder`:
the recording instants of an identity never decrease and none lies ahead of the
clock. So the last valid revision wins the order of `AsOf`, and a revision appended
now is not recorded at a past instant. On PostgreSQL this very invariant fails,
which is what `PgPresent` shows. `BeliefExplained` is inductive per revision
(`ExplainedBy`): the revision it appends takes the evidence of the one before it, if
that has the same value, and one ingestion more. `Amount` folds the cited confidences
in their order; it is a recursive function, and its equation for a sequence with one
element more (`AmountOfMore`) follows as that of the sums in `DataFacts` does, from a
function that exists (`AmountsExist`) and from any two agreeing (`AmountsAgree`).

Of recall and feedback: `ExperienceTypeOK`, `OutcomesAreAttributed`, and
`LedgerUnderExperience`: the ledger keeps its invariant when `Experience` extends its
steps. Attribution is inductive given that traces show only what was recorded by the
instant they know of (`TracesShowRecorded`) and that usages are of the past
(`UsagesArePast`); an erasure takes traces, usages, outcomes and revisions of a scope
together, which is why no reference is left. `UtilityIsSumOfOutcomes` compares the
running estimate with `UtilityAsOf`, the sum over the outcomes known by an instant:
an outcome of a new key adds its weight to one sum of one entry and is the newest of
it. `RecallIsReproducible` needs that neither the visible revisions nor a utility of an
instant gone by change: what is appended, corrected or reported now is recorded at
`clock`, which is later. A trace whose `known_at` was the present when it was taken
promises nothing, as the property says: what is recorded later in the same instant is
visible at `known_at` too.

**PgMemoryProofs**: `TypeOK`, `ChainIsLinear`, `SupportFollowsChain`, `AppliedOnce`
and the refinement of `RevisionChain`, for any number of requests. The strengthening:

* `LocksProtect`: a request past its insert holds its key, which no committed row
  uses; a request about to commit holds its record row, and what it read there is
  still the active revision. This is why appending what was computed from an
  unlocked read is safe;
* `TablesAgree`: a row's key was used for that row and conversely;
* `AnswersHold`: an answer names the row of the request's own key.

`Crash`, `Tick` and the reads change no table, so each part has one step for
`Commit` and a frame step for the rest; only `Commit` is a step of `RevisionChain`.

**PgExperienceProofs**: `TypeOK`, `OutcomesAreAttributed` and the refinement of
`UtilityLedger`. `ThreadOK` says what a thread has established: what it was
attributed to is there, the key it inserted is free for all others, and the estimate
it wrote is the committed one plus its report, which holds because nobody else can
write that row. `Fresh` keeps the traces of two recalls apart. On top of it
`UtilityIsSumOfOutcomes`: only a commit adds an outcome, with the estimate that
`ThreadOK` says is the committed one plus this report, so the sum of its entry grows
by one summand (`AddsUp`) and every other sum is as it was. The action property
`AnswersCountTheReport` follows for first attempts from what the commit writes, and
for a replay from what the thread has compared and `SumsInv`: an entry with an
outcome has an estimate.

**EvolutionProofs**: `TypeOK`, `PromotedFormChain` and the refinement of
`StrategyStack`, for any number of callers and candidates. `CallersOK` says what a
caller that is about to call the registry has read (a candidate id nobody else holds,
a registered experiment, the edge its receipt names) and `LineageIsSound` that each
experiment builds on an existing strategy one version below it, which rules out cycles
in the chain. For the refinement `VersionsCount` adds that the versions in force are
1, 2 and so on up to the active one's, one strategy each, so that sorting by version
gives the stack; every step keeps, pushes or pops it (`Kept`, `Pushed`, `Popped`).
`TakenBackEnded` adds that only an experiment that ended was taken back, so no
promotion restores it, and none of the activations after its rollback is of it
(`NeverReturns`). `EvidenceTrail` and `ActivationsMatchEvidence` rest on
`EvidenceInv`: the transitions of an experiment ascend by the rank of their stages
(`Ascending`), so a new one leaves and reaches stages no other did, the recorded keys
are finitely many, and every promotion in the log is of an experiment that is promoted
or beyond (`LogIsSound`, `PromotionsLast`), so that none occurs twice.

**GovernanceProofs**: `TypeOK`, `ErasedStaysErased`, `IndexFollowsStore`, the action
properties `NothingWrittenBehindTheFence` and `ReceiptIsFinal`, and the refinement of
`ErasurePromise`. The invariant says that nobody holds the lock of a fenced scope
(`FenceOK`): a fence is raised by who holds the lock alone, and nobody passes the gate
afterwards. `JobOK` is what an eraser has established so far, index before store,
and every part of it is a fact that other clients cannot undo (`Monotone`).
`ReceiptCountsAllOrNothing` is inductive together with the counts erasers hold and have
not yet certified (`CountOK`): behind the fence no row is added, so a table is as it
was or empty, whichever eraser deletes first, and the rows removed are none or all of
those it had (`RemovedOK`).

**ProjectionProofs**: `TypeOK`, `SucceededIsIndexed`, `IndexedExists`,
`CursorCoversDone` and the action property `OnlyHolderSettles`, across any number of
crashes, lost leases and rebuilds. `UpsertedOK` says that the document of a worker
that still owns its job is in the index or not promised at the moment: a rebuild
takes every lease it sees, so a worker that upserted before the reset cannot complete
after the requeue. `OnlyHolderSettles` names the worker that takes the step, the one
whose `pc` changes, as the owner of the lease it settles. `GateOK` says that whoever is
past the gate works on a revision that exists, since an erasure needs the lock it holds.

**WebPageProofs**: `TypeOK`, `ShownIsOfScope`, `JourneyIsEarned`, `RecordedOnce`,
`BusyWhileAsked` and the action property `ShownNeverGoesBack`, for any number of
scopes, records, requests, drafts and reloads. The strengthening:

* `NetOK`: the open requests are exactly the registered ones, one to a channel, and of
  the scope and generation the page is in, so what is answered to an open request may
  be shown. `NetStep` is its step lemma, which says besides what each request becomes;
  the other parts are built on it;
* `Alone`: channels that share a button are not in use together. It is what `Quiet`
  (above) is needed for: without it `BusyWhileAsked` is not inductive once there are
  two records, more than the run has;
* `CommandsOK` and `FormsOK`: a key stands for one command, and so does a draft. A
  form's content is asked for only under the operation that would repeat it, and that
  operation keeps the key, so a repeated submission carries the same key and the API
  does it once. Discarding the operation (a correction opened anew) starts a new draft;
* `ServerOK`: an answer is no newer than what the API holds and stays true, and a
  revision number counts the keys that made it. Keys are bounded by the requests sent,
  which is what bounds the revision numbers in `TypeOK`;
* `DraftsOK`: a command whose body is a draft is of the scope the draft was typed in.
  Drafts, operations and what the forms hold go with the scope, and a submission carries
  the scope in use;
* `ShownBefore`: what is shown is no newer than the answer that may replace it, and a
  history dialog that waits for an answer is empty and of the memory asked about.

**DataFacts** holds what these proofs need of data: when a function is a sequence and
when it is another one with an element more or fewer, finite sets of naturals and
their largest elements, and sums over finite sets (a sum is a natural number, depends
on the values summed only, any element can be split off, grows by one summand). The models
write sums with `SumFunctionOnSet` of the community modules, and `DataFacts` derives
its recursion equation: where an induction over finite sets is needed, a smallest
counterexample is shown not to exist (`SmallestSubset`), since the library's induction
theorems cannot be instantiated by the provers.

Only model-checked: liveness (`EveryRequestIsAnswered`, `EveryReportIsAnswered`,
`EveryCallEnds`, `BacklogDrains`, `ControlsReturn`), which the proof system does not
support. Every invariant, action property and refinement the passing runs check is a
theorem.

## What is not modelled

* **Milvus and embeddings**: external services. Their calls are steps of
  `Governance` and `Projection`; similarities are data no property depends on.
* **Context compression**: sequential text arithmetic on one trace, without state.
* **Authorization, authentication, audit**: a stateless decision before the gate; a
  denied request changes the audit log alone.
* **HTTP API, configuration, migrations**: stateless mapping or one-off. The schema's
  constraints are part of the PostgreSQL modules where a request can meet them.
* **Offline evaluation**: sequential arithmetic over recorded cases.
* **Of the page**: the health check, onboarding, the mobile menu, rendering.
* **Details inside the modelled parts**: wording and metadata of observations, scores
  and strategy weights, transition reasons, purposes of grants, signatures and
  fingerprints (a request is compared as a whole), validation of single fields, clocks
  that step back, worker schedules and backoff lengths.
