\* Two threads, two outcome keys that compete for one utility row; one revision
\* and one trace, in either of two contexts.
SPECIFICATION FairSpec
CONSTANTS
    Threads = {r1, r2}
    Revisions = {v1}
    Contexts = {c1, c2}
    TraceIds = {t1}
    UsageKeys = {u1}
    OutcomeKeys = {k1, k2}
    Verdicts <- MCVerdicts
    None = None
INVARIANTS
    UtilityIsSumOfOutcomes
    OutcomesAreAttributed
PROPERTIES
    AnswersCountTheReport
    EveryReportIsAnswered
    ImplementsUtilityLedger
