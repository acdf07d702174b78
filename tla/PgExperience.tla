---------------------------- MODULE PgExperience ----------------------------
(***************************************************************************)
(* Recall, usage and outcome reports over PostgresMemoryStore: concurrent  *)
(* threads, each serving one request after another.                        *)
(*                                                                         *)
(* A report is one READ COMMITTED transaction whose statements are actions *)
(* of their own: it sees what others committed before each statement, and  *)
(* its own rows appear at its commit.  It waits for the unique index entry *)
(* of its idempotency key and for the utility row it adds to.  A recall is *)
(* a read and a separate write.  Any exception rolls back.                 *)
(*                                                                         *)
(* One scope, which every statement names.  Preferences are recorded by    *)
(* PgMemory; here a revision is committed or not.  What scoring and the    *)
(* context projection choose is any subset of what they choose from.       *)
(***************************************************************************)
EXTENDS Integers, FiniteSets, FiniteSetsExt

CONSTANTS
    Threads,      \* threads serving requests
    Revisions,    \* memory revisions
    Contexts,     \* context fingerprints of recalls
    TraceIds,     \* recall traces
    UsageKeys,    \* idempotency keys of usage reports; a usage is named by its key
    OutcomeKeys,  \* idempotency keys of outcome reports
    Verdicts,     \* [success, weight, at]: kind, weight and instant of an outcome
    None

Entries == Revisions \X Contexts

RecallCommand == [op : {"recall"}, context : Contexts, trace : TraceIds]
UsageCommand == [op : {"usage"}, key : UsageKeys, trace : TraceIds, cited : SUBSET Revisions]
OutcomeCommand == [op : {"outcome"}, key : OutcomeKeys, trace : TraceIds,
                   usage : UsageKeys \cup {None}, revision : Revisions, verdict : Verdicts]

Command == RecallCommand \cup UsageCommand \cup OutcomeCommand

Trace == [context : Contexts, items : SUBSET Revisions]

Usage == [trace : TraceIds, cited : SUBSET Revisions]

Outcome == [trace : TraceIds, usage : UsageKeys \cup {None}, revision : Revisions,
            verdict : Verdicts]

Utility == [positive : Nat, negative : Nat, last : Nat]

ASSUME VerdictAssumption == Verdicts \subseteq [success : BOOLEAN, weight : Nat \ {0}, at : Nat]
ASSUME NoneAssumption ==
    None \notin Threads \cup UsageKeys \cup Command \cup Trace \cup Usage \cup Outcome \cup Utility

VARIABLES
    known,        \* committed memory_revisions
    traces,       \* traces[t]: committed recall_traces row with its items
    usages,       \* usages[k]: committed memory_usages row with its items
    outcomes,     \* outcomes[k]: committed outcomes row
    utilities,    \* utilities[e]: committed utility_estimates row
    usageLock,    \* usageLock[k]: thread whose uncommitted usage holds k
    outcomeLock,  \* outcomeLock[k]: thread whose uncommitted outcome holds k
    rowLock,      \* rowLock[e]: thread whose uncommitted update holds the row of e
    pc,           \* pc[r]: the next statement of thread r
    command,      \* command[r]: the request r serves
    found,        \* found[r]: what a recall has read
    estimate,     \* estimate[r]: the utility row an outcome has written, uncommitted
    answer        \* answer[r]: the latest reply of r

tables == <<known, traces, usages, outcomes, utilities>>
locks == <<usageLock, outcomeLock, rowLock>>
thread == <<pc, command, found, estimate, answer>>
vars == <<tables, locks, thread>>

Statements == {"idle", "read", "save", "lookup", "insert", "upsert", "commit"}

Answer == [kind : {"none", "created", "replayed", "conflict", "failed"},
           utility : Utility \cup {None}]

Reply(kind, utility) == [kind |-> kind, utility |-> utility]

Init ==
    /\ known = {}
    /\ traces = [t \in TraceIds |-> None]
    /\ usages = [k \in UsageKeys |-> None]
    /\ outcomes = [k \in OutcomeKeys |-> None]
    /\ utilities = [e \in Entries |-> None]
    /\ usageLock = [k \in UsageKeys |-> None]
    /\ outcomeLock = [k \in OutcomeKeys |-> None]
    /\ rowLock = [e \in Entries |-> None]
    /\ pc = [r \in Threads |-> "idle"]
    /\ command = [r \in Threads |-> None]
    /\ found = [r \in Threads |-> {}]
    /\ estimate = [r \in Threads |-> None]
    /\ answer = [r \in Threads |-> Reply("none", None)]
-----------------------------------------------------------------------------
(* Transactions.                                                           *)

Goto(r, statement) == pc' = [pc EXCEPT ![r] = statement]

Released(lock, r) == [x \in DOMAIN lock |-> IF lock[x] = r THEN None ELSE lock[x]]

\* Faulty variant: the utility row stays locked.
FinishHoldingRow(r, reply) ==
    /\ Goto(r, "idle")
    /\ usageLock' = Released(usageLock, r)
    /\ outcomeLock' = Released(outcomeLock, r)
    /\ command' = [command EXCEPT ![r] = None]
    /\ found' = [found EXCEPT ![r] = {}]
    /\ estimate' = [estimate EXCEPT ![r] = None]
    /\ answer' = [answer EXCEPT ![r] = reply]
    /\ UNCHANGED rowLock

\* The transaction ends, its locks are released and the caller gets a reply.
Finish(r, reply) ==
    /\ Goto(r, "idle")
    /\ usageLock' = Released(usageLock, r)
    /\ outcomeLock' = Released(outcomeLock, r)
    /\ rowLock' = Released(rowLock, r)
    /\ command' = [command EXCEPT ![r] = None]
    /\ found' = [found EXCEPT ![r] = {}]
    /\ estimate' = [estimate EXCEPT ![r] = None]
    /\ answer' = [answer EXCEPT ![r] = reply]

Rollback(r, kind) == Finish(r, Reply(kind, None)) /\ UNCHANGED tables

\* The connection is lost before the commit; PostgreSQL rolls back.
Crash(r) == pc[r] # "idle" /\ Rollback(r, "failed")
-----------------------------------------------------------------------------
(* recall.                                                                 *)

Accept(r, c, statement) ==
    /\ Goto(r, statement)
    /\ command' = [command EXCEPT ![r] = c]
    /\ answer' = [answer EXCEPT ![r] = Reply("none", None)]

\* The id of a trace is fresh.
BeginRecall(r, context, t) ==
    /\ pc[r] = "idle"
    /\ traces[t] = None
    /\ \A q \in Threads : command[q] # None /\ command[q].op = "recall" => command[q].trace # t
    /\ Accept(r, [op |-> "recall", context |-> context, trace |-> t], "read")
    /\ UNCHANGED <<tables, locks, found, estimate>>

\* memories_as_of; the estimates are read after it, one statement each, and only
\* rank what was found.
Read(r) ==
    /\ pc[r] = "read"
    /\ \E items \in SUBSET known : found' = [found EXCEPT ![r] = items]
    /\ Goto(r, "save")
    /\ UNCHANGED <<tables, locks, command, estimate, answer>>

\* save_trace, a transaction of its own, with foreign keys to the revisions.
SaveTrace(r) ==
    /\ pc[r] = "save" /\ found[r] \subseteq known
    /\ traces' = [traces EXCEPT ![command[r].trace] =
           [context |-> command[r].context, items |-> found[r]]]
    /\ Finish(r, Reply("created", None))
    /\ UNCHANGED <<known, usages, outcomes, utilities>>
-----------------------------------------------------------------------------
(* record_usage.                                                           *)

\* The trace and its projection are checked first, and traces do not change.  A
\* report that is refused here leaves nothing behind and is left out.
BeginUsage(r, k, t, cited) ==
    /\ pc[r] = "idle"
    /\ traces[t] # None /\ cited # {} /\ cited \subseteq traces[t].items
    /\ Accept(r, [op |-> "usage", key |-> k, trace |-> t, cited |-> cited], "lookup")
    /\ UNCHANGED <<tables, locks, found, estimate>>

\* _replayed_usage: the original for the same report, a conflict for another one.
ReplayUsage(r) ==
    LET stored == usages[command[r].key]
        same == stored = [trace |-> command[r].trace, cited |-> command[r].cited]
    IN  /\ Finish(r, Reply(IF same THEN "replayed" ELSE "conflict", None))
        /\ UNCHANGED tables

LookupUsage(r) ==
    /\ pc[r] = "lookup" /\ command[r].op = "usage"
    /\ IF usages[command[r].key] # None
       THEN ReplayUsage(r)
       ELSE Goto(r, "insert") /\ UNCHANGED <<tables, locks, command, found, estimate, answer>>

\* save_usage waits for an uncommitted insert of the same key and replays it once
\* it is committed.
InsertUsage(r) ==
    LET k == command[r].key
    IN  /\ pc[r] = "insert" /\ command[r].op = "usage"
        /\ usageLock[k] = None
        /\ IF usages[k] # None
           THEN ReplayUsage(r)
           ELSE /\ usageLock' = [usageLock EXCEPT ![k] = r]
                /\ Goto(r, "commit")
                /\ UNCHANGED <<tables, outcomeLock, rowLock, command, found, estimate, answer>>

\* The answer may be lost on the way to the caller.
CommitUsage(r) ==
    /\ pc[r] = "commit" /\ command[r].op = "usage"
    /\ usages' = [usages EXCEPT ![command[r].key] =
           [trace |-> command[r].trace, cited |-> command[r].cited]]
    /\ \E kind \in {"created", "failed"} : Finish(r, Reply(kind, None))
    /\ UNCHANGED <<known, traces, outcomes, utilities>>
-----------------------------------------------------------------------------
(* record_outcome.                                                         *)

\* With a usage the revision must be among those it cites, without one among the
\* items of the trace.  The foreign keys of outcomes say the same.
Attributable(t, revision, usage) ==
    /\ traces[t] # None
    /\ IF usage = None THEN revision \in traces[t].items
       ELSE usages[usage] # None /\ usages[usage].trace = t /\ revision \in usages[usage].cited

BeginOutcome(r, k, t, usage, revision, verdict) ==
    /\ pc[r] = "idle"
    /\ Attributable(t, revision, usage)
    /\ Accept(r, [op |-> "outcome", key |-> k, trace |-> t, usage |-> usage,
                  revision |-> revision, verdict |-> verdict], "lookup")
    /\ UNCHANGED <<tables, locks, found, estimate>>

\* The utility row a report is about.
Entry(c) == <<c.revision, traces[c.trace].context>>

\* Faulty variant: a used key is taken for a retry.
SameKey(stored, c) == TRUE

\* The instant of a report is not compared.
SameReport(stored, c) ==
    /\ stored.trace = c.trace /\ stored.usage = c.usage /\ stored.revision = c.revision
    /\ stored.verdict.success = c.verdict.success /\ stored.verdict.weight = c.verdict.weight

Prior == [positive |-> 0, negative |-> 0, last |-> 0]

\* utility_for: the row, or the prior.
UtilityFor(e) == IF utilities[e] = None THEN Prior ELSE utilities[e]

\* _replayed_outcome reads the estimate again.
ReplayOutcome(r) ==
    /\ Finish(r, IF SameReport(outcomes[command[r].key], command[r])
                 THEN Reply("replayed", UtilityFor(Entry(command[r])))
                 ELSE Reply("conflict", None))
    /\ UNCHANGED tables

LookupOutcome(r) ==
    /\ pc[r] = "lookup" /\ command[r].op = "outcome"
    /\ IF outcomes[command[r].key] # None
       THEN ReplayOutcome(r)
       ELSE Goto(r, "insert") /\ UNCHANGED <<tables, locks, command, found, estimate, answer>>

\* Faulty variant: a key committed since the lookup goes unnoticed.
InsertUnchecked(r) ==
    LET k == command[r].key
    IN  /\ pc[r] = "insert" /\ command[r].op = "outcome"
        /\ outcomeLock[k] = None
        /\ outcomeLock' = [outcomeLock EXCEPT ![k] = r]
        /\ Goto(r, "upsert")
        /\ UNCHANGED <<tables, usageLock, rowLock, command, found, estimate, answer>>

\* The insert waits for an uncommitted one of the same key; if that one commits,
\* the savepoint is undone and the committed report is replayed.
InsertOutcome(r) ==
    LET k == command[r].key
    IN  /\ pc[r] = "insert" /\ command[r].op = "outcome"
        /\ outcomeLock[k] = None
        /\ IF outcomes[k] # None
           THEN ReplayOutcome(r)
           ELSE /\ outcomeLock' = [outcomeLock EXCEPT ![k] = r]
                /\ Goto(r, "upsert")
                /\ UNCHANGED <<tables, usageLock, rowLock, command, found, estimate, answer>>

Later(m, n) == IF m >= n THEN m ELSE n

\* What ON CONFLICT DO UPDATE leaves in the row.
Added(row, verdict) ==
    [positive |-> row.positive + (IF verdict.success THEN verdict.weight ELSE 0),
     negative |-> row.negative + (IF verdict.success THEN 0 ELSE verdict.weight),
     last |-> Later(row.last, verdict.at)]

\* Faulty variant: the row is read, and written later, without a lock.
UpsertUnlocked(r) ==
    /\ pc[r] = "upsert"
    /\ estimate' = [estimate EXCEPT ![r] =
           Added(UtilityFor(Entry(command[r])), command[r].verdict)]
    /\ Goto(r, "commit")
    /\ UNCHANGED <<tables, locks, command, found, answer>>

\* The upsert waits for the row, adds to what is committed by then and keeps it.
Upsert(r) ==
    LET e == Entry(command[r])
    IN  /\ pc[r] = "upsert"
        /\ rowLock[e] = None
        /\ rowLock' = [rowLock EXCEPT ![e] = r]
        /\ estimate' = [estimate EXCEPT ![r] = Added(UtilityFor(e), command[r].verdict)]
        /\ Goto(r, "commit")
        /\ UNCHANGED <<tables, usageLock, outcomeLock, command, found, answer>>

CommitOutcome(r) ==
    LET c == command[r]
    IN  /\ pc[r] = "commit" /\ c.op = "outcome"
        /\ outcomes' = [outcomes EXCEPT ![c.key] =
               [trace |-> c.trace, usage |-> c.usage, revision |-> c.revision,
                verdict |-> c.verdict]]
        /\ utilities' = [utilities EXCEPT ![Entry(c)] = estimate[r]]
        /\ \/ Finish(r, Reply("created", estimate[r]))
           \/ Finish(r, Reply("failed", None))
        /\ UNCHANGED <<known, traces, usages>>
-----------------------------------------------------------------------------
(* The rest of the system.                                                 *)

\* A preference request of PgMemory commits a revision.
Record(v) ==
    /\ v \notin known
    /\ known' = known \cup {v}
    /\ UNCHANGED <<traces, usages, outcomes, utilities, locks, thread>>

\* Faulty variant: the requests under way are not waited for.
EraseAtOnce ==
    /\ known' = {}
    /\ traces' = [t \in TraceIds |-> None]
    /\ usages' = [k \in UsageKeys |-> None]
    /\ outcomes' = [k \in OutcomeKeys |-> None]
    /\ utilities' = [e \in Entries |-> None]
    /\ UNCHANGED <<locks, thread>>

\* erase_scope, one transaction, under the governance lock that no request holds.
EraseScope ==
    /\ \A r \in Threads : pc[r] = "idle"
    /\ known' = {}
    /\ traces' = [t \in TraceIds |-> None]
    /\ usages' = [k \in UsageKeys |-> None]
    /\ outcomes' = [k \in OutcomeKeys |-> None]
    /\ utilities' = [e \in Entries |-> None]
    /\ UNCHANGED <<locks, thread>>

Statement(r) ==
    \/ Read(r) \/ SaveTrace(r)
    \/ LookupUsage(r) \/ InsertUsage(r) \/ CommitUsage(r)
    \/ LookupOutcome(r) \/ InsertOutcome(r) \/ Upsert(r) \/ CommitOutcome(r)

Begin(r) ==
    \/ \E context \in Contexts, t \in TraceIds : BeginRecall(r, context, t)
    \/ \E k \in UsageKeys, t \in TraceIds, cited \in SUBSET Revisions :
           BeginUsage(r, k, t, cited)
    \/ \E k \in OutcomeKeys, t \in TraceIds, usage \in UsageKeys \cup {None},
          revision \in Revisions, verdict \in Verdicts :
           BeginOutcome(r, k, t, usage, revision, verdict)

Next ==
    \/ \E r \in Threads : Begin(r) \/ Statement(r) \/ Crash(r)
    \/ \E v \in Revisions : Record(v)
    \/ EraseScope

Spec == Init /\ [][Next]_vars

\* Threads run, and PostgreSQL grants a lock to those that wait for it in turn.
FairSpec == Spec /\ \A r \in Threads : SF_vars(Statement(r))
-----------------------------------------------------------------------------
(* Properties.                                                             *)

\* Type correctness of the tables, the locks and the threads.
TypeOK ==
    /\ known \subseteq Revisions
    /\ traces \in [TraceIds -> Trace \cup {None}]
    /\ usages \in [UsageKeys -> Usage \cup {None}]
    /\ outcomes \in [OutcomeKeys -> Outcome \cup {None}]
    /\ utilities \in [Entries -> Utility \cup {None}]
    /\ usageLock \in [UsageKeys -> Threads \cup {None}]
    /\ outcomeLock \in [OutcomeKeys -> Threads \cup {None}]
    /\ rowLock \in [Entries -> Threads \cup {None}]
    /\ pc \in [Threads -> Statements]
    /\ command \in [Threads -> Command \cup {None}]
    /\ found \in [Threads -> SUBSET Revisions]
    /\ estimate \in [Threads -> Utility \cup {None}]
    /\ answer \in [Threads -> Answer]

\* However outcomes race for keys and utility rows, the estimates are exactly what
\* the stored outcomes add up to, per revision and trace context (apply_outcome
\* keeps a running total beside the events it totals).
UtilityIsSumOfOutcomes ==
    \A e \in Entries :
        LET about == {k \in OutcomeKeys : outcomes[k] # None /\ Entry(outcomes[k]) = e}
            weight(success) == SumFunctionOnSet([k \in about |-> outcomes[k].verdict.weight],
                                   {k \in about : outcomes[k].verdict.success = success})
        IN  utilities[e] =
                IF about = {} THEN None
                ELSE [positive |-> weight(TRUE), negative |-> weight(FALSE),
                      last |-> Max({outcomes[k].verdict.at : k \in about})]

\* Learning never precedes exposure, across concurrent reports and erasures: an
\* outcome leads, through the usage it cites if any, to a trace that returned its
\* revision, and a trace to committed revisions (record_outcome, erase_scope).
OutcomesAreAttributed ==
    /\ \A t \in TraceIds : traces[t] # None => traces[t].items \subseteq known
    /\ \A k \in UsageKeys : usages[k] # None =>
           /\ traces[usages[k].trace] # None
           /\ usages[k].cited \subseteq traces[usages[k].trace].items
    /\ \A k \in OutcomeKeys : outcomes[k] # None =>
           LET out == outcomes[k]
           IN  /\ traces[out.trace] # None /\ out.revision \in traces[out.trace].items
               /\ out.usage # None =>
                      /\ usages[out.usage] # None /\ usages[out.usage].trace = out.trace
                      /\ out.revision \in usages[out.usage].cited

\* A report that is answered as taken is in the ledger as it was reported, and the
\* estimate in the answer is the committed one that counts it, also when the report
\* was taken for a retry of another that was still under way when it came.
AnswersCountTheReport ==
    [][\A r \in Threads :
        (/\ command[r] # None /\ command[r].op = "outcome"
         /\ answer'[r] # answer[r] /\ answer'[r].kind \in {"created", "replayed"})
        => LET c == command[r]
               out == outcomes'[c.key]
           IN  /\ out # None
               /\ out.trace = c.trace /\ out.usage = c.usage /\ out.revision = c.revision
               /\ out.verdict.success = c.verdict.success
               /\ out.verdict.weight = c.verdict.weight
               /\ answer'[r].utility = utilities'[Entry(c)]
               /\ utilities'[Entry(c)] # None]_vars

\* Nobody waits for ever for a key or a row that others hold.
EveryReportIsAnswered == \A r \in Threads : pc[r] # "idle" ~> pc[r] = "idle"

\* PostgresMemoryStore keeps the promise of UtilityLedger.
Abstract == INSTANCE UtilityLedger WITH
    Keys <- OutcomeKeys,
    counted <- {k \in OutcomeKeys : outcomes[k] # None},
    estimates <- [e \in Entries |-> UtilityFor(e)]

ImplementsUtilityLedger == Abstract!Spec
=============================================================================
