----------------------------- MODULE Experience -----------------------------
(***************************************************************************)
(* The second half of MemoryApplication over InMemoryMemoryStore: recall   *)
(* leaves a trace, a consumer reports which recalled revisions it used,    *)
(* and outcomes that cite a trace (and perhaps a usage) teach the utility  *)
(* of a revision in the trace's context.                                   *)
(*                                                                         *)
(* The privacy governance adapters of the in-memory deployments hold one   *)
(* lock around a whole request, so a recall, which opens no transaction of *)
(* its own, is one action here too.                                        *)
(*                                                                         *)
(* Scoring and the result limit decide WHICH visible revisions a recall    *)
(* returns; here that is any subset.  The context projection a usage cites *)
(* is any subset of the trace's items.  A usage is named by its key.       *)
(***************************************************************************)
EXTENDS PreferenceLedger, FiniteSetsExt

CONSTANTS
    Contexts,     \* context fingerprints of recalls
    TraceIds,     \* ids for recall traces
    UsageKeys,    \* idempotency keys of usage reports
    OutcomeKeys,  \* idempotency keys of outcomes
    Weights       \* outcome weights

ASSUME WeightsAssumption == Weights \subseteq Nat

VARIABLES
    traces,    \* traces[t]: a saved RecallTrace
    usages,    \* usages[s][k]: the MemoryUsage stored for key k
    outcomes,  \* outcomes[s][k]: the OutcomeEvent stored for key k
    utilities  \* utilities[s]: running UtilityEstimate per <<revision, context>>

experienceVars == <<traces, usages, outcomes, utilities>>
vars == <<ledgerVars, experienceVars>>

RevisionIds == Idents \X (Nat \ {0})

Usage == [trace : TraceIds, revisions : SUBSET RevisionIds, recorded_at : Time]

Outcome == [trace : TraceIds, usage : UsageKeys \cup {None}, revision : RevisionIds,
            success : BOOLEAN, weight : Weights, occurred_at : Time, recorded_at : Time]

Utility == [positive : Nat, negative : Nat, last : Time \cup {None}]

ASSUME AbsenceAssumption == None \notin Outcome \cup Time

NoUtility == [positive |-> 0, negative |-> 0, last |-> None]

Init ==
    /\ LedgerInit
    /\ traces = [t \in TraceIds |-> None]
    /\ usages = [s \in Scopes |-> [k \in UsageKeys |-> None]]
    /\ outcomes = [s \in Scopes |-> [k \in OutcomeKeys |-> None]]
    /\ utilities = [s \in Scopes |-> <<>>]
-----------------------------------------------------------------------------
(* Reads.                                                                  *)

InScope(t, s) == traces[t] # None /\ traces[t].scope = s

\* Faulty variant: the present is shown whatever known_at says.
VisibleNow(s, valid_at, known_at) ==
    {<<i, AsOf(s, i, valid_at, clock)>> :
        i \in {j \in Idents : AsOf(s, j, valid_at, clock) # 0}}

\* memories_as_of: the revision in effect of every record of the scope.
Visible(s, valid_at, known_at) ==
    {<<i, AsOf(s, i, valid_at, known_at)>> :
        i \in {j \in Idents : AsOf(s, j, valid_at, known_at) # 0}}

\* Faulty variant: the last outcome to arrive counts as the latest.
UpdatedAtArrival(utility, success, weight, at) ==
    [positive |-> utility.positive + (IF success THEN weight ELSE 0),
     negative |-> utility.negative + (IF success THEN 0 ELSE weight),
     last |-> at]

\* UtilityEstimate.updated.
Updated(utility, success, weight, at) ==
    [positive |-> utility.positive + (IF success THEN weight ELSE 0),
     negative |-> utility.negative + (IF success THEN 0 ELSE weight),
     last |-> IF utility.last = None THEN at ELSE Larger(utility.last, at)]

\* utility_for: the running estimate, or the prior.
UtilityFor(s, rev, context) ==
    IF <<rev, context>> \in DOMAIN utilities[s] THEN utilities[s][<<rev, context>>]
    ELSE NoUtility

\* utility_for_as_of: the estimate rebuilt from the outcomes known by then.
UtilityAsOf(s, rev, context, known_at) ==
    LET known == {k \in OutcomeKeys :
                     /\ outcomes[s][k] # None
                     /\ outcomes[s][k].revision = rev
                     /\ outcomes[s][k].recorded_at <= known_at
                     /\ InScope(outcomes[s][k].trace, s)
                     /\ traces[outcomes[s][k].trace].context = context}
        weight(success) == SumFunctionOnSet([k \in known |-> outcomes[s][k].weight],
                               {k \in known : outcomes[s][k].success = success})
    IN  [positive |-> weight(TRUE),
         negative |-> weight(FALSE),
         last |-> IF known = {} THEN None
                  ELSE Max({outcomes[s][k].occurred_at : k \in known})]
-----------------------------------------------------------------------------
(* Operations.                                                             *)

Recall(t, s, context, valid_at, known_at) ==
    /\ traces[t] = None
    /\ known_at <= clock
    /\ \E items \in SUBSET Visible(s, valid_at, known_at) :
           traces' = [traces EXCEPT ![t] =
               [scope |-> s, context |-> context, valid_at |-> valid_at,
                known_at |-> known_at, created_at |-> clock, items |-> items,
                utility |-> [rev \in items |->
                                UtilityAsOf(s, rev, context, known_at)]]]
    /\ UNCHANGED <<ledgerVars, usages, outcomes, utilities>>

RecordUsage(s, k, t, cited) ==
    /\ InScope(t, s)
    /\ cited # {} /\ cited \subseteq traces[t].items
    /\ usages[s][k] = None
    /\ usages' = [usages EXCEPT ![s][k] =
           [trace |-> t, revisions |-> cited, recorded_at |-> clock]]
    /\ UNCHANGED <<ledgerVars, traces, outcomes, utilities>>

\* Faulty variant: a usage of another trace will do.
AttributableAnyTrace(s, t, rev, usage) ==
    IF usage = None THEN rev \in traces[t].items
    ELSE usages[s][usage] # None /\ rev \in usages[s][usage].revisions

\* With a usage the revision must be among those it cites, without one among
\* the items of the trace.
Attributable(s, t, rev, usage) ==
    IF usage = None THEN rev \in traces[t].items
    ELSE /\ usages[s][usage] # None
         /\ usages[s][usage].trace = t
         /\ rev \in usages[s][usage].revisions

RecordOutcome(s, k, t, rev, usage, success, weight, at) ==
    /\ InScope(t, s)
    /\ Attributable(s, t, rev, usage)
    /\ outcomes[s][k] = None
    /\ outcomes' = [outcomes EXCEPT ![s][k] =
           [trace |-> t, usage |-> usage, revision |-> rev, success |-> success,
            weight |-> weight, occurred_at |-> at, recorded_at |-> clock]]
    /\ LET key == <<rev, traces[t].context>>
           updated == Updated(UtilityFor(s, rev, traces[t].context), success, weight, at)
       IN  utilities' = [utilities EXCEPT ![s] =
               [entry \in DOMAIN @ \cup {key} |->
                   IF entry = key THEN updated ELSE @[entry]]]
    /\ UNCHANGED <<ledgerVars, traces, usages>>

\* erase_scope removes the scope from every table of the store.
EraseExperience(s) ==
    /\ traces' = [t \in TraceIds |-> IF InScope(t, s) THEN None ELSE traces[t]]
    /\ usages' = [usages EXCEPT ![s] = [k \in UsageKeys |-> None]]
    /\ outcomes' = [outcomes EXCEPT ![s] = [k \in OutcomeKeys |-> None]]
    /\ utilities' = [utilities EXCEPT ![s] = <<>>]

EraseMemory(s) == EraseScope(s) /\ EraseExperience(s)

Next ==
    \/ (Ingest \/ Tick) /\ UNCHANGED experienceVars
    \/ \E s \in Scopes :
        \/ \E t \in TraceIds, context \in Contexts, valid_at, known_at \in Time :
               Recall(t, s, context, valid_at, known_at)
        \/ \E k \in UsageKeys, t \in TraceIds :
               \E cited \in SUBSET (IF traces[t] = None THEN {} ELSE traces[t].items) :
                   RecordUsage(s, k, t, cited)
        \/ \E k \in OutcomeKeys, t \in TraceIds, usage \in UsageKeys \cup {None},
              success \in BOOLEAN, weight \in Weights, at \in Time :
               \E rev \in (IF traces[t] = None THEN {} ELSE traces[t].items) :
                   RecordOutcome(s, k, t, rev, usage, success, weight, at)
        \/ EraseMemory(s)

Spec == Init /\ [][Next]_vars
-----------------------------------------------------------------------------
(* Properties.                                                             *)

\* Type correctness of the experience tables.
ExperienceTypeOK ==
    /\ DOMAIN traces = TraceIds
    /\ \A t \in TraceIds : traces[t] # None =>
           /\ traces[t].scope \in Scopes /\ traces[t].context \in Contexts
           /\ traces[t].valid_at \in Time /\ traces[t].known_at \in Time
           /\ traces[t].created_at \in Time
           /\ traces[t].items \subseteq RevisionIds
           /\ DOMAIN traces[t].utility = traces[t].items
    /\ usages \in [Scopes -> [UsageKeys -> Usage \cup {None}]]
    /\ outcomes \in [Scopes -> [OutcomeKeys -> Outcome \cup {None}]]
    /\ DOMAIN utilities = Scopes
    /\ \A s \in Scopes : \A e \in DOMAIN utilities[s] :
           e \in RevisionIds \X Contexts /\ utilities[s][e] \in Utility

\* Utility is learnt from outcomes only, each once: the running estimates are
\* exactly what the stored outcomes add up to per revision and trace context,
\* so neither exposure nor a replayed report moves them (README invariant;
\* apply_outcome keeps a running total beside the events it totals).
UtilityIsSumOfOutcomes ==
    \A s \in Scopes :
        /\ DOMAIN utilities[s] =
               {<<outcomes[s][k].revision, traces[outcomes[s][k].trace].context>> :
                   k \in {j \in OutcomeKeys : outcomes[s][j] # None}}
        /\ \A e \in DOMAIN utilities[s] :
               utilities[s][e] = UtilityAsOf(s, e[1], e[2], MaxClock)

\* Learning never precedes exposure: an outcome leads, through the usage it
\* cites if any, to a trace of its own scope that returned the revision, and the
\* revision was recorded before the trace could know it, the trace before the
\* usage and the usage before the outcome.  Holds across erasures, so nothing
\* dangles (record_outcome, record_usage, erase_scope).
OutcomesAreAttributed ==
    \A s \in Scopes :
        /\ \A k \in UsageKeys : usages[s][k] # None =>
               LET use == usages[s][k]
               IN  /\ InScope(use.trace, s)
                   /\ use.revisions \subseteq traces[use.trace].items
                   /\ traces[use.trace].created_at <= use.recorded_at
        /\ \A k \in OutcomeKeys : outcomes[s][k] # None =>
               LET out == outcomes[s][k]
                   revisions == history[s][out.revision[1]]
               IN  /\ InScope(out.trace, s)
                   /\ out.revision \in traces[out.trace].items
                   /\ out.revision[2] \in DOMAIN revisions
                   /\ revisions[out.revision[2]].recorded_at <= traces[out.trace].known_at
                   /\ traces[out.trace].created_at <= out.recorded_at
                   /\ out.usage # None =>
                          /\ usages[s][out.usage] # None
                          /\ usages[s][out.usage].trace = out.trace
                          /\ out.revision \in usages[s][out.usage].revisions
                          /\ usages[s][out.usage].recorded_at <= out.recorded_at

\* A recall of the past is reproducible from its recorded coordinates: if
\* known_at had gone by when it ran, recomputing the view and the utilities at
\* (valid_at, known_at) still yields every item and every utility the trace
\* saved, whatever was ingested or learnt since (docs/api-guide.md on valid_at
\* and known_at; recall).
RecallIsReproducible ==
    \A t \in TraceIds :
        (traces[t] # None /\ traces[t].known_at < traces[t].created_at) =>
        LET trace == traces[t]
        IN  /\ trace.items \subseteq
                   Visible(trace.scope, trace.valid_at, trace.known_at)
            /\ \A rev \in trace.items : trace.utility[rev] =
                   UtilityAsOf(trace.scope, rev, trace.context, trace.known_at)
=============================================================================
