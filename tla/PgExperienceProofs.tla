------------------------- MODULE PgExperienceProofs -------------------------
(***************************************************************************)
(* Proofs about PgExperience, for any number of threads, keys, traces and  *)
(* revisions: the tables stay well formed, every outcome is attributed,    *)
(* and the store implements UtilityLedger.                                 *)
(*                                                                         *)
(* The argument is about what a thread may rely on between its statements  *)
(* (ThreadOK): what it was attributed to stays, the key it inserted is     *)
(* still free for others to see, and the estimate it wrote still adds its  *)
(* report to the committed row.  Other threads respect that because they   *)
(* need the locks it holds (Respects).                                     *)
(***************************************************************************)
EXTENDS PgExperience, DataFacts, TLAPS

IsOp(r, op) == command[r] # None /\ command[r].op = op

ThreadOK(r) ==
    /\ command[r] = None <=> pc[r] = "idle"
    /\ pc[r] \in {"read", "save"} <=> IsOp(r, "recall")
    /\ pc[r] = "upsert" => IsOp(r, "outcome")
    /\ IsOp(r, "recall") => traces[command[r].trace] = None
    /\ IsOp(r, "usage") =>
           /\ traces[command[r].trace] # None
           /\ command[r].cited \subseteq traces[command[r].trace].items
           /\ pc[r] = "commit" =>
                  usageLock[command[r].key] = r /\ usages[command[r].key] = None
    /\ IsOp(r, "outcome") =>
           /\ Attributable(command[r].trace, command[r].revision, command[r].usage)
           /\ pc[r] \in {"upsert", "commit"} =>
                  outcomeLock[command[r].key] = r /\ outcomes[command[r].key] = None
           /\ pc[r] = "commit" =>
                  /\ rowLock[Entry(command[r])] = r
                  /\ estimate[r] = Added(UtilityFor(Entry(command[r])), command[r].verdict)

\* No two recalls are about to save the same trace.
Fresh ==
    \A r, q \in Threads :
        r # q /\ IsOp(r, "recall") /\ IsOp(q, "recall") => command[r].trace # command[q].trace

Inv ==
    /\ TypeOK
    /\ \A r \in Threads : ThreadOK(r)
    /\ Fresh
    /\ OutcomesAreAttributed

\* What a step of others leaves to thread q.
Respects(q) ==
    /\ pc'[q] = pc[q] /\ command'[q] = command[q] /\ estimate'[q] = estimate[q]
    /\ \A t \in TraceIds : traces[t] # None => traces'[t] = traces[t]
    /\ IsOp(q, "recall") => traces'[command[q].trace] = traces[command[q].trace]
    /\ \A k \in UsageKeys :
           /\ usages[k] # None => usages'[k] = usages[k]
           /\ usageLock[k] = q => usageLock'[k] = q /\ usages'[k] = usages[k]
    /\ \A k \in OutcomeKeys :
           outcomeLock[k] = q => outcomeLock'[k] = q /\ outcomes'[k] = outcomes[k]
    /\ \A e \in Entries :
           rowLock[e] = q => rowLock'[e] = q /\ utilities'[e] = utilities[e]

\* What the step means to UtilityLedger.
Abstracted == [Abstract!Next]_(Abstract!vars)

-----------------------------------------------------------------------------
(* Types. *)

LEMMA CommandType ==
    ASSUME TypeOK, NEW r \in Threads
    PROVE  /\ IsOp(r, "recall") => command[r] \in RecallCommand
           /\ IsOp(r, "usage") => command[r] \in UsageCommand
           /\ IsOp(r, "outcome") => command[r] \in OutcomeCommand
           /\ command[r] # None => IsOp(r, "recall") \/ IsOp(r, "usage") \/ IsOp(r, "outcome")
<1>1. command[r] \in Command \cup {None} BY DEF TypeOK
<1> QED BY <1>1 DEF IsOp, Command, RecallCommand, UsageCommand, OutcomeCommand

LEMMA RecallType ==
    ASSUME TypeOK, NEW r \in Threads, IsOp(r, "recall")
    PROVE  command[r].trace \in TraceIds /\ command[r].context \in Contexts
BY CommandType DEF RecallCommand

LEMMA UsageType ==
    ASSUME TypeOK, NEW r \in Threads, IsOp(r, "usage")
    PROVE  /\ command[r].key \in UsageKeys /\ command[r].trace \in TraceIds
           /\ command[r].cited \in SUBSET Revisions
BY CommandType DEF UsageCommand

LEMMA OutcomeType ==
    ASSUME TypeOK, NEW r \in Threads, IsOp(r, "outcome")
    PROVE  /\ command[r].key \in OutcomeKeys /\ command[r].trace \in TraceIds
           /\ command[r].usage \in UsageKeys \cup {None}
           /\ command[r].revision \in Revisions /\ command[r].verdict \in Verdicts
BY CommandType DEF OutcomeCommand

LEMMA EntryType ==
    ASSUME TypeOK, NEW r \in Threads, IsOp(r, "outcome"), traces[command[r].trace] # None
    PROVE  Entry(command[r]) \in Entries
<1>1. traces[command[r].trace] \in Trace BY OutcomeType DEF TypeOK
<1>2. traces[command[r].trace].context \in Contexts BY <1>1 DEF Trace
<1> QED BY <1>2, OutcomeType DEF Entry, Entries

LEMMA UtilityType ==
    ASSUME TypeOK, NEW e \in Entries
    PROVE  UtilityFor(e) \in Utility
BY DEF TypeOK, UtilityFor, Prior, Utility

LEMMA AddedType ==
    ASSUME NEW row \in Utility, NEW v \in Verdicts
    PROVE  Added(row, v) \in Utility /\ Added(row, v) # None
           /\ Added(row, v) = Abstract!Updated(row, v)
<1>1. /\ v.success \in BOOLEAN /\ v.weight \in Nat /\ v.at \in Nat
      /\ row.positive \in Nat /\ row.negative \in Nat /\ row.last \in Nat
  BY VerdictAssumption DEF Utility
<1>2. Added(row, v) \in Utility BY <1>1 DEF Added, Later, Utility
<1>3. Later(row.last, v.at) = IF v.at > row.last THEN v.at ELSE row.last
  BY <1>1 DEF Later
<1> QED BY <1>2, <1>3, NoneAssumption DEF Added, Abstract!Updated

LEMMA ReleasedType ==
    ASSUME NEW S, NEW lock \in [S -> Threads \cup {None}], NEW r \in Threads
    PROVE  /\ Released(lock, r) \in [S -> Threads \cup {None}]
           /\ \A x \in S, q \in Threads : q # r /\ lock[x] = q => Released(lock, r)[x] = q
BY NoneAssumption DEF Released

\* A thread that finishes: its own state and the locks.
TablesOK ==
    /\ known \subseteq Revisions
    /\ traces \in [TraceIds -> Trace \cup {None}]
    /\ usages \in [UsageKeys -> Usage \cup {None}]
    /\ outcomes \in [OutcomeKeys -> Outcome \cup {None}]
    /\ utilities \in [Entries -> Utility \cup {None}]

LocksOK ==
    /\ usageLock \in [UsageKeys -> Threads \cup {None}]
    /\ outcomeLock \in [OutcomeKeys -> Threads \cup {None}]
    /\ rowLock \in [Entries -> Threads \cup {None}]

LocalOK ==
    /\ pc \in [Threads -> Statements]
    /\ command \in [Threads -> Command \cup {None}]
    /\ found \in [Threads -> SUBSET Revisions]
    /\ estimate \in [Threads -> Utility \cup {None}]
    /\ answer \in [Threads -> Answer]

LEMMA Parts == TypeOK <=> TablesOK /\ LocksOK /\ LocalOK
BY DEF TypeOK, TablesOK, LocksOK, LocalOK

LEMMA NextParts ==
    ASSUME TablesOK', LocksOK', LocalOK'
    PROVE  TypeOK'
BY DEF TypeOK, TablesOK, LocksOK, LocalOK

LEMMA ReplyType ==
    ASSUME NEW kind \in {"none", "created", "replayed", "conflict", "failed"},
           NEW u \in Utility \cup {None}
    PROVE  Reply(kind, u) \in Answer
BY DEF Reply, Answer

\* Locks and local state of the others stay as they are.
Apart(r) ==
    \A q \in Threads \ {r} :
        /\ pc'[q] = pc[q] /\ command'[q] = command[q] /\ estimate'[q] = estimate[q]
        /\ \A k \in UsageKeys : usageLock[k] = q => usageLock'[k] = q
        /\ \A k \in OutcomeKeys : outcomeLock[k] = q => outcomeLock'[k] = q
        /\ \A e \in Entries : rowLock[e] = q => rowLock'[e] = q

LEMMA FinishEffect ==
    ASSUME TypeOK, NEW r \in Threads, NEW reply \in Answer, Finish(r, reply)
    PROVE  /\ LocksOK' /\ LocalOK' /\ Apart(r)
           /\ pc'[r] = "idle" /\ command'[r] = None
<1>1. LocksOK /\ LocalOK BY Parts
<1>2. /\ pc' = [pc EXCEPT ![r] = "idle"]
      /\ command' = [command EXCEPT ![r] = None]
      /\ found' = [found EXCEPT ![r] = {}]
      /\ estimate' = [estimate EXCEPT ![r] = None]
      /\ answer' = [answer EXCEPT ![r] = reply]
  BY DEF Finish, Goto
<1>3. /\ usageLock' = Released(usageLock, r)
      /\ outcomeLock' = Released(outcomeLock, r)
      /\ rowLock' = Released(rowLock, r)
  BY DEF Finish
<1>4. LocksOK' BY <1>1, <1>3, ReleasedType DEF LocksOK
<1>5. LocalOK'
  <2>1. pc' \in [Threads -> Statements] BY <1>1, <1>2 DEF LocalOK, Statements
  <2>2. command' \in [Threads -> Command \cup {None}] BY <1>1, <1>2 DEF LocalOK
  <2>3. found' \in [Threads -> SUBSET Revisions] BY <1>1, <1>2 DEF LocalOK
  <2>4. estimate' \in [Threads -> Utility \cup {None}] BY <1>1, <1>2 DEF LocalOK
  <2>5. answer' \in [Threads -> Answer] BY <1>1, <1>2 DEF LocalOK
  <2> QED BY <2>1, <2>2, <2>3, <2>4, <2>5 DEF LocalOK
<1>6. \A q \in Threads \ {r} :
          /\ \A k \in UsageKeys : usageLock[k] = q => usageLock'[k] = q
          /\ \A k \in OutcomeKeys : outcomeLock[k] = q => outcomeLock'[k] = q
          /\ \A e \in Entries : rowLock[e] = q => rowLock'[e] = q
  <2>1. \A q \in Threads \ {r}, k \in UsageKeys : usageLock[k] = q => usageLock'[k] = q
    BY <1>1, <1>3, ReleasedType DEF LocksOK
  <2>2. \A q \in Threads \ {r}, k \in OutcomeKeys : outcomeLock[k] = q => outcomeLock'[k] = q
    BY <1>1, <1>3, ReleasedType DEF LocksOK
  <2>3. \A q \in Threads \ {r}, e \in Entries : rowLock[e] = q => rowLock'[e] = q
    BY <1>1, <1>3, ReleasedType DEF LocksOK
  <2> QED BY <2>1, <2>2, <2>3
<1>7. \A q \in Threads \ {r} :
          pc'[q] = pc[q] /\ command'[q] = command[q] /\ estimate'[q] = estimate[q]
  BY <1>1, <1>2 DEF LocalOK
<1>8. pc'[r] = "idle" /\ command'[r] = None BY <1>1, <1>2 DEF LocalOK
<1> QED BY <1>4, <1>5, <1>6, <1>7, <1>8 DEF Apart

-----------------------------------------------------------------------------
(* What others leave alone. *)

LEMMA Undisturbed ==
    ASSUME TypeOK, NEW q \in Threads, ThreadOK(q), Respects(q)
    PROVE  ThreadOK(q)'
<1>1. \A op : IsOp(q, op)' <=> IsOp(q, op) BY DEF IsOp, Respects
<1>2. /\ (command[q] = None <=> pc[q] = "idle")'
      /\ (pc[q] \in {"read", "save"} <=> IsOp(q, "recall"))'
      /\ (pc[q] = "upsert" => IsOp(q, "outcome"))'
  BY <1>1 DEF ThreadOK, Respects
<1>3. (IsOp(q, "recall") => traces[command[q].trace] = None)'
  BY <1>1 DEF ThreadOK, Respects
<1>4. (IsOp(q, "usage") =>
           /\ traces[command[q].trace] # None
           /\ command[q].cited \subseteq traces[command[q].trace].items
           /\ pc[q] = "commit" =>
                  usageLock[command[q].key] = q /\ usages[command[q].key] = None)'
  BY <1>1, UsageType DEF ThreadOK, Respects
<1>5. ASSUME IsOp(q, "outcome")
      PROVE  (/\ Attributable(command[q].trace, command[q].revision, command[q].usage)
              /\ pc[q] \in {"upsert", "commit"} =>
                     outcomeLock[command[q].key] = q /\ outcomes[command[q].key] = None
              /\ pc[q] = "commit" =>
                     /\ rowLock[Entry(command[q])] = q
                     /\ estimate[q] = Added(UtilityFor(Entry(command[q])), command[q].verdict))'
  <2> DEFINE c == command[q]
  <2>1. /\ c.key \in OutcomeKeys /\ c.trace \in TraceIds /\ c.usage \in UsageKeys \cup {None}
        /\ command'[q] = c /\ pc'[q] = pc[q] /\ estimate'[q] = estimate[q]
    BY <1>5, OutcomeType DEF Respects
  <2>2. traces[c.trace] # None /\ traces'[c.trace] = traces[c.trace]
    BY <1>5, <2>1 DEF ThreadOK, Attributable, Respects
  <2>3. Entry(c)' = Entry(c) /\ Entry(c) \in Entries
    BY <1>5, <2>1, <2>2, EntryType DEF Entry
  <2>4. Attributable(c.trace, c.revision, c.usage)'
    BY <1>5, <2>1, <2>2 DEF ThreadOK, Attributable, Respects
  <2>5. pc[q] \in {"upsert", "commit"} => outcomeLock'[c.key] = q /\ outcomes'[c.key] = None
    BY <1>5, <2>1 DEF ThreadOK, Respects
  <2>6. pc[q] = "commit" => rowLock'[Entry(c)] = q /\ utilities'[Entry(c)] = utilities[Entry(c)]
    BY <1>5, <2>3 DEF ThreadOK, Respects
  <2>7. pc[q] = "commit" => estimate[q] = Added(UtilityFor(Entry(c))', c.verdict)
    BY <1>5, <2>3, <2>6 DEF ThreadOK, UtilityFor
  <2> QED BY <2>1, <2>3, <2>4, <2>5, <2>6, <2>7 DEF UtilityFor
<1> QED BY <1>1, <1>2, <1>3, <1>4, <1>5 DEF ThreadOK

LEMMA FreshKeeps ==
    ASSUME Inv, NEW r \in Threads, Apart(r), ~IsOp(r, "recall")' \/ command'[r] = command[r]
    PROVE  Fresh'
BY DEF Inv, Fresh, Apart, IsOp

\* A step that leaves the tables alone means nothing to UtilityLedger.
LEMMA Silent ==
    ASSUME UNCHANGED <<outcomes, utilities>>
    PROVE  Abstracted
BY DEF Abstracted, Abstract!vars, UtilityFor

\* A step of one thread that leaves the tables alone.
LEMMA LocalStep ==
    ASSUME Inv, NEW r \in Threads, UNCHANGED tables, LocksOK', LocalOK', Apart(r),
           ThreadOK(r)', Fresh'
    PROVE  Inv' /\ Abstracted
<1>1. TypeOK /\ TablesOK BY Parts DEF Inv
<1>2. UNCHANGED <<known, traces, usages, outcomes, utilities>> BY DEF tables
<1>3. TypeOK' BY <1>1, <1>2, NextParts DEF TablesOK
<1>4. \A q \in Threads \ {r} : Respects(q) BY <1>2 DEF Apart, Respects
<1>5. \A q \in Threads \ {r} : ThreadOK(q)' BY <1>1, <1>4, Undisturbed DEF Inv
<1>6. OutcomesAreAttributed' BY <1>2 DEF Inv, OutcomesAreAttributed
<1> QED BY <1>2, <1>3, <1>5, <1>6, Silent DEF Inv

\* A thread that ends its request without writing.
LEMMA RollbackKeeps ==
    ASSUME Inv, NEW r \in Threads, NEW reply \in Answer, Finish(r, reply), UNCHANGED tables
    PROVE  Inv' /\ Abstracted
<1>1. TypeOK BY DEF Inv
<1>2. /\ LocksOK' /\ LocalOK' /\ Apart(r)
      /\ pc'[r] = "idle" /\ command'[r] = None
  BY <1>1, FinishEffect
<1>3. ThreadOK(r)' BY <1>2 DEF ThreadOK, IsOp
<1>4. Fresh' BY <1>2, FreshKeeps DEF IsOp
<1> QED BY <1>2, <1>3, <1>4, LocalStep

LEMMA CrashKeeps ==
    ASSUME Inv, NEW r \in Threads, Crash(r)
    PROVE  Inv' /\ Abstracted
<1>1. Reply("failed", None) \in Answer BY ReplyType
<1> QED BY <1>1, RollbackKeeps DEF Crash, Rollback

LEMMA AcceptEffect ==
    ASSUME TypeOK, NEW r \in Threads, NEW c \in Command, NEW statement \in Statements,
           Accept(r, c, statement), UNCHANGED <<locks, found, estimate>>
    PROVE  /\ LocksOK' /\ LocalOK' /\ Apart(r)
           /\ pc'[r] = statement /\ command'[r] = c
<1>1. LocksOK /\ LocalOK BY Parts
<1>2. /\ pc' = [pc EXCEPT ![r] = statement]
      /\ command' = [command EXCEPT ![r] = c]
      /\ answer' = [answer EXCEPT ![r] = Reply("none", None)]
      /\ UNCHANGED <<usageLock, outcomeLock, rowLock, found, estimate>>
  BY DEF Accept, Goto, locks
<1>3. LocksOK' BY <1>1, <1>2 DEF LocksOK
<1>4. LocalOK'
  <2>1. pc' \in [Threads -> Statements] BY <1>1, <1>2 DEF LocalOK
  <2>2. command' \in [Threads -> Command \cup {None}] BY <1>1, <1>2 DEF LocalOK
  <2>3. Reply("none", None) \in Answer BY ReplyType
  <2>4. answer' \in [Threads -> Answer] BY <1>1, <1>2, <2>3 DEF LocalOK
  <2> QED BY <1>1, <1>2, <2>1, <2>2, <2>4 DEF LocalOK
<1>5. Apart(r) /\ pc'[r] = statement /\ command'[r] = c
  BY <1>1, <1>2 DEF LocalOK, Apart
<1> QED BY <1>3, <1>4, <1>5

LEMMA GotoEffect ==
    ASSUME TypeOK, NEW r \in Threads, NEW statement \in Statements, Goto(r, statement),
           UNCHANGED <<command, found, estimate, answer>>
    PROVE  /\ LocalOK' /\ pc'[r] = statement
           /\ \A q \in Threads \ {r} :
                  pc'[q] = pc[q] /\ command'[q] = command[q] /\ estimate'[q] = estimate[q]
<1>1. LocalOK BY Parts
<1>2. pc' \in [Threads -> Statements] /\ pc'[r] = statement
      /\ \A q \in Threads \ {r} : pc'[q] = pc[q]
  BY <1>1 DEF LocalOK, Goto
<1> QED BY <1>1, <1>2 DEF LocalOK

-----------------------------------------------------------------------------
(* Recalls. *)

LEMMA BeginRecallKeeps ==
    ASSUME Inv, NEW r \in Threads, NEW context \in Contexts, NEW t \in TraceIds,
           BeginRecall(r, context, t)
    PROVE  Inv' /\ Abstracted
<1> DEFINE c == [op |-> "recall", context |-> context, trace |-> t]
<1>1. TypeOK BY DEF Inv
<1>2. c \in Command /\ c # None /\ c.op = "recall" /\ c.trace = t
  BY NoneAssumption DEF Command, RecallCommand
<1>3. /\ Accept(r, c, "read") /\ UNCHANGED <<tables, locks, found, estimate>>
      /\ pc[r] = "idle" /\ traces[t] = None
      /\ \A q \in Threads : IsOp(q, "recall") => command[q].trace # t
  BY DEF BeginRecall, IsOp
<1> HIDE DEF c
<1>4. LocksOK' /\ LocalOK' /\ Apart(r) /\ pc'[r] = "read" /\ command'[r] = c
  BY <1>1, <1>2, <1>3, AcceptEffect DEF Statements
<1>5. ThreadOK(r)' BY <1>2, <1>3, <1>4 DEF ThreadOK, IsOp, tables
<1>6. Fresh' BY <1>2, <1>3, <1>4 DEF Inv, Fresh, Apart, IsOp
<1> QED BY <1>3, <1>4, <1>5, <1>6, LocalStep

LEMMA ReadKeeps ==
    ASSUME Inv, NEW r \in Threads, Read(r)
    PROVE  Inv' /\ Abstracted
<1>1. TypeOK /\ LocksOK /\ LocalOK BY Parts DEF Inv
<1>2. PICK items \in SUBSET known : found' = [found EXCEPT ![r] = items] BY DEF Read
<1>3. /\ pc[r] = "read" /\ pc' = [pc EXCEPT ![r] = "save"]
      /\ UNCHANGED <<tables, locks, command, estimate, answer>>
  BY DEF Read, Goto
<1>4. LocalOK'
  <2>1. items \in SUBSET Revisions BY <1>1 DEF TypeOK
  <2>2. found' \in [Threads -> SUBSET Revisions] BY <1>1, <1>2, <2>1 DEF LocalOK
  <2>3. pc' \in [Threads -> Statements] BY <1>1, <1>3 DEF LocalOK, Statements
  <2> QED BY <1>1, <1>3, <2>2, <2>3 DEF LocalOK
<1>5. LocksOK' /\ Apart(r) /\ pc'[r] = "save" /\ command'[r] = command[r]
  BY <1>1, <1>3 DEF LocksOK, LocalOK, Apart, locks
<1>6. ThreadOK(r)' BY <1>3, <1>5 DEF Inv, ThreadOK, IsOp, tables
<1>7. Fresh' BY <1>5, FreshKeeps
<1> QED BY <1>3, <1>4, <1>5, <1>6, <1>7, LocalStep

LEMMA SaveTraceKeeps ==
    ASSUME Inv, NEW r \in Threads, SaveTrace(r)
    PROVE  Inv' /\ Abstracted
<1> DEFINE t == command[r].trace
           trace == [context |-> command[r].context, items |-> found[r]]
<1>1. TypeOK /\ TablesOK BY Parts DEF Inv
<1>2. /\ pc[r] = "save" /\ found[r] \subseteq known
      /\ traces' = [traces EXCEPT ![t] = trace]
      /\ Finish(r, Reply("created", None))
      /\ UNCHANGED <<known, usages, outcomes, utilities>>
  BY DEF SaveTrace
<1>3. IsOp(r, "recall") /\ traces[t] = None BY <1>2 DEF Inv, ThreadOK
<1>4. t \in TraceIds /\ trace \in Trace /\ trace # None /\ trace.items = found[r]
  <2>1. t \in TraceIds /\ command[r].context \in Contexts BY <1>1, <1>3, RecallType
  <2>2. found[r] \in SUBSET Revisions BY <1>1 DEF TypeOK
  <2>3. trace \in Trace BY <2>1, <2>2 DEF Trace
  <2> QED BY <2>1, <2>3, NoneAssumption
<1> HIDE DEF trace
<1>5. Reply("created", None) \in Answer BY ReplyType
<1>6. /\ LocksOK' /\ LocalOK' /\ Apart(r)
      /\ pc'[r] = "idle" /\ command'[r] = None
  BY <1>1, <1>2, <1>5, FinishEffect
<1>7. /\ traces' \in [TraceIds -> Trace \cup {None}] /\ traces'[t] = trace
      /\ \A u \in TraceIds \ {t} : traces'[u] = traces[u]
  BY <1>1, <1>2, <1>4 DEF TypeOK
<1>8. TypeOK' BY <1>1, <1>2, <1>6, <1>7, NextParts DEF TablesOK
<1>9. ASSUME NEW q \in Threads \ {r} PROVE ThreadOK(q)'
  <2>1. IsOp(q, "recall") => command[q].trace \in TraceIds \ {t}
    BY <1>1, <1>3, RecallType DEF Inv, Fresh
  <2>2. \A u \in TraceIds : traces[u] # None => traces'[u] = traces[u] BY <1>3, <1>7
  <2>3. Respects(q) BY <1>2, <1>6, <1>7, <2>1, <2>2 DEF Apart, Respects
  <2> QED BY <1>1, <2>3, Undisturbed DEF Inv
<1>10. ThreadOK(r)' BY <1>6 DEF ThreadOK, IsOp
<1>11. Fresh' BY <1>6, FreshKeeps DEF IsOp
<1>12. OutcomesAreAttributed'
  <2>1. \A u \in TraceIds : traces[u] # None => traces'[u] = traces[u] BY <1>3, <1>7
  <2>2. \A u \in TraceIds : traces'[u] # None => traces'[u].items \subseteq known'
    BY <1>2, <1>4, <1>7 DEF Inv, OutcomesAreAttributed
  <2>3. \A k \in UsageKeys : usages[k] # None => usages[k].trace \in TraceIds
    BY <1>1 DEF TypeOK, Usage
  <2>4. \A k \in OutcomeKeys : outcomes[k] # None => outcomes[k].trace \in TraceIds
    BY <1>1 DEF TypeOK, Outcome
  <2>5. \A k \in UsageKeys : usages'[k] # None =>
            /\ traces'[usages'[k].trace] # None
            /\ usages'[k].cited \subseteq traces'[usages'[k].trace].items
    BY <1>2, <2>1, <2>3 DEF Inv, OutcomesAreAttributed
  <2>6. \A k \in OutcomeKeys : outcomes'[k] # None =>
            LET out == outcomes'[k]
            IN  /\ traces'[out.trace] # None /\ out.revision \in traces'[out.trace].items
                /\ out.usage # None =>
                       /\ usages'[out.usage] # None /\ usages'[out.usage].trace = out.trace
                       /\ out.revision \in usages'[out.usage].cited
    BY <1>2, <2>1, <2>4 DEF Inv, OutcomesAreAttributed
  <2> QED BY <2>2, <2>5, <2>6 DEF OutcomesAreAttributed
<1>13. Abstracted BY <1>2, Silent
<1> QED BY <1>8, <1>9, <1>10, <1>11, <1>12, <1>13 DEF Inv

-----------------------------------------------------------------------------
(* Usages. *)

LEMMA BeginUsageKeeps ==
    ASSUME Inv, NEW r \in Threads, NEW k \in UsageKeys, NEW t \in TraceIds,
           NEW cited \in SUBSET Revisions, BeginUsage(r, k, t, cited)
    PROVE  Inv' /\ Abstracted
<1> DEFINE c == [op |-> "usage", key |-> k, trace |-> t, cited |-> cited]
<1>1. TypeOK BY DEF Inv
<1>2. c \in Command /\ c # None /\ c.op = "usage" /\ c.trace = t /\ c.cited = cited
  BY NoneAssumption DEF Command, UsageCommand
<1>3. /\ Accept(r, c, "lookup") /\ UNCHANGED <<tables, locks, found, estimate>>
      /\ traces[t] # None /\ cited \subseteq traces[t].items
  BY DEF BeginUsage
<1> HIDE DEF c
<1>4. LocksOK' /\ LocalOK' /\ Apart(r) /\ pc'[r] = "lookup" /\ command'[r] = c
  BY <1>1, <1>2, <1>3, AcceptEffect DEF Statements
<1>5. ThreadOK(r)' BY <1>2, <1>3, <1>4 DEF ThreadOK, IsOp, tables
<1>6. Fresh' BY <1>2, <1>4, FreshKeeps DEF IsOp
<1> QED BY <1>3, <1>4, <1>5, <1>6, LocalStep

LEMMA ReplayUsageKeeps ==
    ASSUME Inv, NEW r \in Threads, ReplayUsage(r)
    PROVE  Inv' /\ Abstracted
<1>1. PICK kind \in {"replayed", "conflict"} : Finish(r, Reply(kind, None))
  BY DEF ReplayUsage
<1>2. Reply(kind, None) \in Answer BY ReplyType
<1> QED BY <1>1, <1>2, RollbackKeeps DEF ReplayUsage

\* A lookup that finds nothing goes on to the insert.
LEMMA LookupKeeps ==
    ASSUME Inv, NEW r \in Threads, pc[r] = "lookup", Goto(r, "insert"),
           UNCHANGED <<tables, locks, command, found, estimate, answer>>
    PROVE  Inv' /\ Abstracted
<1>1. TypeOK /\ LocksOK BY Parts DEF Inv
<1>2. /\ LocalOK' /\ pc'[r] = "insert"
      /\ \A q \in Threads \ {r} :
             pc'[q] = pc[q] /\ command'[q] = command[q] /\ estimate'[q] = estimate[q]
  BY <1>1, GotoEffect DEF Statements
<1>3. LocksOK' /\ Apart(r) BY <1>1, <1>2 DEF LocksOK, Apart, locks
<1>4. ThreadOK(r)'
  BY <1>2 DEF Inv, ThreadOK, IsOp, tables, locks, Attributable
<1>5. Fresh' BY <1>3, FreshKeeps
<1> QED BY <1>2, <1>3, <1>4, <1>5, LocalStep

LEMMA LookupUsageKeeps ==
    ASSUME Inv, NEW r \in Threads, LookupUsage(r)
    PROVE  Inv' /\ Abstracted
BY ReplayUsageKeeps, LookupKeeps DEF LookupUsage

LEMMA InsertUsageKeeps ==
    ASSUME Inv, NEW r \in Threads, InsertUsage(r)
    PROVE  Inv' /\ Abstracted
<1> DEFINE k == command[r].key
<1>1. TypeOK /\ LocksOK BY Parts DEF Inv
<1>2. CASE ReplayUsage(r) BY <1>2, ReplayUsageKeeps
<1>3. CASE /\ usages[k] = None /\ usageLock' = [usageLock EXCEPT ![k] = r]
           /\ Goto(r, "commit")
           /\ UNCHANGED <<tables, outcomeLock, rowLock, command, found, estimate, answer>>
  <2>1. pc[r] = "insert" /\ command[r].op = "usage" /\ usageLock[k] = None
    BY DEF InsertUsage
  <2>2. IsOp(r, "usage") BY <2>1 DEF Inv, ThreadOK, IsOp
  <2>3. k \in UsageKeys BY <1>1, <2>2, UsageType
  <2>4. /\ LocalOK' /\ pc'[r] = "commit"
        /\ \A q \in Threads \ {r} :
               pc'[q] = pc[q] /\ command'[q] = command[q] /\ estimate'[q] = estimate[q]
    BY <1>1, <1>3, GotoEffect DEF Statements
  <2>5. LocksOK' /\ usageLock'[k] = r BY <1>1, <1>3, <2>3 DEF LocksOK
  <2>6. \A q \in Threads \ {r}, j \in UsageKeys : usageLock[j] = q => usageLock'[j] = q
    BY <1>1, <1>3, <2>1, <2>3, NoneAssumption DEF LocksOK
  <2>7. Apart(r) BY <1>3, <2>4, <2>6 DEF Apart
  <2>8. ThreadOK(r)'
    BY <1>3, <2>2, <2>4, <2>5 DEF Inv, ThreadOK, IsOp, tables
  <2>9. Fresh' BY <1>3, <2>7, FreshKeeps
  <2> QED BY <1>3, <2>4, <2>5, <2>7, <2>8, <2>9, LocalStep
<1> QED BY <1>2, <1>3 DEF InsertUsage

LEMMA CommitUsageKeeps ==
    ASSUME Inv, NEW r \in Threads, CommitUsage(r)
    PROVE  Inv' /\ Abstracted
<1> DEFINE k == command[r].key
           row == [trace |-> command[r].trace, cited |-> command[r].cited]
<1>1. TypeOK /\ TablesOK BY Parts DEF Inv
<1>2. PICK kind \in {"created", "failed"} : Finish(r, Reply(kind, None))
  BY DEF CommitUsage
<1>3. /\ pc[r] = "commit" /\ command[r].op = "usage"
      /\ usages' = [usages EXCEPT ![k] = row]
      /\ UNCHANGED <<known, traces, outcomes, utilities>>
  BY DEF CommitUsage
<1>4. IsOp(r, "usage") BY <1>3 DEF Inv, ThreadOK, IsOp
<1>5. /\ k \in UsageKeys /\ usages[k] = None /\ usageLock[k] = r
      /\ traces[command[r].trace] # None
      /\ command[r].cited \subseteq traces[command[r].trace].items
  BY <1>1, <1>3, <1>4, UsageType DEF Inv, ThreadOK
<1>6. row \in Usage /\ row # None /\ row.trace = command[r].trace /\ row.cited = command[r].cited
  BY <1>1, <1>4, UsageType, NoneAssumption DEF Usage
<1> HIDE DEF row
<1>7. Reply(kind, None) \in Answer BY ReplyType
<1>8. /\ LocksOK' /\ LocalOK' /\ Apart(r)
      /\ pc'[r] = "idle" /\ command'[r] = None
  BY <1>1, <1>2, <1>7, FinishEffect
<1>9. /\ usages' \in [UsageKeys -> Usage \cup {None}] /\ usages'[k] = row
      /\ \A j \in UsageKeys \ {k} : usages'[j] = usages[j]
  BY <1>1, <1>3, <1>5, <1>6 DEF TypeOK
<1>10. TypeOK' BY <1>1, <1>3, <1>8, <1>9, NextParts DEF TablesOK
<1>11. ASSUME NEW q \in Threads \ {r} PROVE ThreadOK(q)'
  <2>1. \A j \in UsageKeys : usages[j] # None => usages'[j] = usages[j] BY <1>5, <1>9
  <2>2. \A j \in UsageKeys : usageLock[j] = q => usages'[j] = usages[j] BY <1>5, <1>9
  <2>3. Respects(q) BY <1>3, <1>8, <2>1, <2>2 DEF Apart, Respects
  <2> QED BY <1>1, <2>3, Undisturbed DEF Inv
<1>12. ThreadOK(r)' BY <1>8 DEF ThreadOK, IsOp
<1>13. Fresh' BY <1>8, FreshKeeps DEF IsOp
<1>14. OutcomesAreAttributed'
  <2>1. \A j \in UsageKeys : usages'[j] # None =>
            /\ traces[usages'[j].trace] # None
            /\ usages'[j].cited \subseteq traces[usages'[j].trace].items
    BY <1>5, <1>6, <1>9 DEF Inv, OutcomesAreAttributed
  <2>2. \A j \in OutcomeKeys : outcomes[j] # None => outcomes[j].usage \in UsageKeys \cup {None}
    BY <1>1 DEF TypeOK, Outcome
  <2>3. \A j \in UsageKeys : usages[j] # None => usages'[j] = usages[j] BY <1>5, <1>9
  <2>4. \A j \in OutcomeKeys : outcomes[j] # None =>
            (outcomes[j].usage # None => usages'[outcomes[j].usage] = usages[outcomes[j].usage])
    BY <2>2, <2>3 DEF Inv, OutcomesAreAttributed
  <2> QED BY <1>3, <2>1, <2>4 DEF Inv, OutcomesAreAttributed
<1>15. Abstracted BY <1>3, Silent
<1> QED BY <1>10, <1>11, <1>12, <1>13, <1>14, <1>15 DEF Inv

-----------------------------------------------------------------------------
(* Outcomes. *)

LEMMA BeginOutcomeKeeps ==
    ASSUME Inv, NEW r \in Threads, NEW k \in OutcomeKeys, NEW t \in TraceIds,
           NEW usage \in UsageKeys \cup {None}, NEW revision \in Revisions,
           NEW verdict \in Verdicts, BeginOutcome(r, k, t, usage, revision, verdict)
    PROVE  Inv' /\ Abstracted
<1> DEFINE c == [op |-> "outcome", key |-> k, trace |-> t, usage |-> usage,
                 revision |-> revision, verdict |-> verdict]
<1>1. TypeOK BY DEF Inv
<1>2. /\ c \in Command /\ c # None /\ c.op = "outcome" /\ c.trace = t /\ c.usage = usage
      /\ c.revision = revision
  BY NoneAssumption DEF Command, OutcomeCommand
<1>3. /\ Accept(r, c, "lookup") /\ UNCHANGED <<tables, locks, found, estimate>>
      /\ Attributable(t, revision, usage)
  BY DEF BeginOutcome
<1> HIDE DEF c
<1>4. LocksOK' /\ LocalOK' /\ Apart(r) /\ pc'[r] = "lookup" /\ command'[r] = c
  BY <1>1, <1>2, <1>3, AcceptEffect DEF Statements
<1>5. ThreadOK(r)' BY <1>2, <1>3, <1>4 DEF ThreadOK, IsOp, tables, Attributable
<1>6. Fresh' BY <1>2, <1>4, FreshKeeps DEF IsOp
<1> QED BY <1>3, <1>4, <1>5, <1>6, LocalStep

LEMMA ReplayOutcomeKeeps ==
    ASSUME Inv, NEW r \in Threads, IsOp(r, "outcome"), ReplayOutcome(r)
    PROVE  Inv' /\ Abstracted
<1>1. TypeOK BY DEF Inv
<1>2. UtilityFor(Entry(command[r])) \in Utility
  BY <1>1, EntryType, UtilityType DEF Inv, ThreadOK, Attributable
<1>3. PICK reply \in Answer : Finish(r, reply)
  BY <1>2, ReplyType DEF ReplayOutcome
<1> QED BY <1>3, RollbackKeeps DEF ReplayOutcome

LEMMA LookupOutcomeKeeps ==
    ASSUME Inv, NEW r \in Threads, LookupOutcome(r)
    PROVE  Inv' /\ Abstracted
<1>1. pc[r] = "lookup" /\ command[r].op = "outcome" BY DEF LookupOutcome
<1>2. IsOp(r, "outcome") BY <1>1 DEF Inv, ThreadOK, IsOp
<1> QED BY <1>1, <1>2, ReplayOutcomeKeeps, LookupKeeps DEF LookupOutcome

LEMMA InsertOutcomeKeeps ==
    ASSUME Inv, NEW r \in Threads, InsertOutcome(r)
    PROVE  Inv' /\ Abstracted
<1> DEFINE k == command[r].key
<1>1. TypeOK /\ LocksOK BY Parts DEF Inv
<1>2. pc[r] = "insert" /\ command[r].op = "outcome" /\ outcomeLock[k] = None
  BY DEF InsertOutcome
<1>3. IsOp(r, "outcome") BY <1>2 DEF Inv, ThreadOK, IsOp
<1>4. CASE ReplayOutcome(r) BY <1>3, <1>4, ReplayOutcomeKeeps
<1>5. CASE /\ outcomes[k] = None /\ outcomeLock' = [outcomeLock EXCEPT ![k] = r]
           /\ Goto(r, "upsert")
           /\ UNCHANGED <<tables, usageLock, rowLock, command, found, estimate, answer>>
  <2>1. k \in OutcomeKeys BY <1>1, <1>3, OutcomeType
  <2>2. /\ LocalOK' /\ pc'[r] = "upsert"
        /\ \A q \in Threads \ {r} :
               pc'[q] = pc[q] /\ command'[q] = command[q] /\ estimate'[q] = estimate[q]
    BY <1>1, <1>5, GotoEffect DEF Statements
  <2>3. LocksOK' /\ outcomeLock'[k] = r BY <1>1, <1>5, <2>1 DEF LocksOK
  <2>4. \A q \in Threads \ {r}, j \in OutcomeKeys : outcomeLock[j] = q => outcomeLock'[j] = q
    BY <1>1, <1>2, <1>5, <2>1, NoneAssumption DEF LocksOK
  <2>5. Apart(r) BY <1>5, <2>2, <2>4 DEF Apart
  <2>6. ThreadOK(r)'
    BY <1>3, <1>5, <2>2, <2>3 DEF Inv, ThreadOK, IsOp, tables, Attributable
  <2>7. Fresh' BY <1>5, <2>5, FreshKeeps
  <2> QED BY <1>5, <2>2, <2>3, <2>5, <2>6, <2>7, LocalStep
<1> QED BY <1>4, <1>5 DEF InsertOutcome

LEMMA UpsertKeeps ==
    ASSUME Inv, NEW r \in Threads, Upsert(r)
    PROVE  Inv' /\ Abstracted
<1> DEFINE c == command[r]
           e == Entry(c)
           row == Added(UtilityFor(e), c.verdict)
<1>1. TypeOK /\ LocksOK /\ LocalOK BY Parts DEF Inv
<1>2. /\ pc[r] = "upsert" /\ pc' = [pc EXCEPT ![r] = "commit"]
      /\ rowLock[e] = None /\ rowLock' = [rowLock EXCEPT ![e] = r]
      /\ estimate' = [estimate EXCEPT ![r] = row]
      /\ UNCHANGED <<tables, usageLock, outcomeLock, command, found, answer>>
  BY DEF Upsert, Goto
<1>3. IsOp(r, "outcome") BY <1>2 DEF Inv, ThreadOK
<1>4. /\ e \in Entries /\ c.verdict \in Verdicts
      /\ outcomeLock[c.key] = r /\ outcomes[c.key] = None
      /\ Attributable(c.trace, c.revision, c.usage)
  BY <1>1, <1>2, <1>3, EntryType, OutcomeType DEF Inv, ThreadOK, Attributable
<1>5. row \in Utility BY <1>1, <1>4, UtilityType, AddedType
<1>6. /\ UNCHANGED <<traces, usages, outcomes, utilities>> /\ Entry(c)' = e
      /\ UtilityFor(e)' = UtilityFor(e)
  BY <1>2 DEF tables, Entry, UtilityFor
<1>7. LocalOK'
  <2>1. pc' \in [Threads -> Statements] BY <1>1, <1>2 DEF LocalOK, Statements
  <2>2. estimate' \in [Threads -> Utility \cup {None}] BY <1>1, <1>2, <1>5 DEF LocalOK
  <2> QED BY <1>1, <1>2, <2>1, <2>2 DEF LocalOK
<1>8. pc'[r] = "commit" /\ estimate'[r] = row /\ command'[r] = c
  BY <1>1, <1>2 DEF LocalOK
<1> HIDE DEF e
<1>9. LocksOK' /\ rowLock'[e] = r BY <1>1, <1>2, <1>4 DEF LocksOK
<1>10. \A q \in Threads \ {r}, x \in Entries : rowLock[x] = q => rowLock'[x] = q
  BY <1>1, <1>2, <1>4, NoneAssumption DEF LocksOK
<1>11. \A q \in Threads \ {r} :
           pc'[q] = pc[q] /\ command'[q] = command[q] /\ estimate'[q] = estimate[q]
  BY <1>1, <1>2 DEF LocalOK
<1>12. Apart(r) BY <1>2, <1>10, <1>11 DEF Apart
<1>13. ThreadOK(r)'
  <2>1. IsOp(r, "outcome")' /\ ~IsOp(r, "usage")' /\ ~IsOp(r, "recall")' BY <1>3, <1>8 DEF IsOp
  <2>2. Attributable(c.trace, c.revision, c.usage)' BY <1>4, <1>6, <1>8 DEF Attributable
  <2>3. (outcomeLock[c.key] = r /\ outcomes[c.key] = None)' BY <1>2, <1>4, <1>6, <1>8
  <2>4. (rowLock[Entry(c)] = r)' BY <1>6, <1>8, <1>9
  <2>5. (estimate[r] = Added(UtilityFor(Entry(c)), c.verdict))'
    BY <1>6, <1>8 DEF e, Added, Later
  <2> QED BY <1>3, <1>8, <2>1, <2>2, <2>3, <2>4, <2>5 DEF ThreadOK, IsOp
<1>14. Fresh' BY <1>2, <1>12, FreshKeeps
<1> QED BY <1>2, <1>7, <1>9, <1>12, <1>13, <1>14, LocalStep


LEMMA CommitOutcomeKeeps ==
    ASSUME Inv, NEW r \in Threads, CommitOutcome(r)
    PROVE  Inv' /\ Abstracted
<1> DEFINE c == command[r]
           e == Entry(c)
           row == [trace |-> c.trace, usage |-> c.usage, revision |-> c.revision,
                   verdict |-> c.verdict]
<1>1. TypeOK /\ TablesOK BY Parts DEF Inv
<1>2. /\ pc[r] = "commit" /\ c.op = "outcome"
      /\ outcomes' = [outcomes EXCEPT ![c.key] = row]
      /\ utilities' = [utilities EXCEPT ![e] = estimate[r]]
      /\ \/ Finish(r, Reply("created", estimate[r]))
         \/ Finish(r, Reply("failed", None))
      /\ UNCHANGED <<known, traces, usages>>
  BY DEF CommitOutcome
<1>3. IsOp(r, "outcome") BY <1>2 DEF Inv, ThreadOK, IsOp
<1>4. /\ c.key \in OutcomeKeys /\ e \in Entries /\ c.verdict \in Verdicts
      /\ outcomeLock[c.key] = r /\ outcomes[c.key] = None
      /\ rowLock[e] = r /\ estimate[r] = Added(UtilityFor(e), c.verdict)
      /\ Attributable(c.trace, c.revision, c.usage)
  BY <1>1, <1>2, <1>3, EntryType, OutcomeType DEF Inv, ThreadOK, Attributable
<1>5. /\ estimate[r] \in Utility /\ estimate[r] # None
      /\ estimate[r] = Abstract!Updated(UtilityFor(e), c.verdict)
  BY <1>1, <1>4, UtilityType, AddedType
<1>6. /\ row \in Outcome /\ row # None /\ row.trace = c.trace /\ row.usage = c.usage
      /\ row.revision = c.revision
  BY <1>1, <1>3, OutcomeType, NoneAssumption DEF Outcome
<1> HIDE DEF row, e
<1>7. /\ LocksOK' /\ LocalOK' /\ Apart(r)
      /\ pc'[r] = "idle" /\ command'[r] = None
  <2>1. PICK reply \in Answer : Finish(r, reply) BY <1>2, <1>5, ReplyType
  <2> QED BY <1>1, <2>1, FinishEffect
<1>8. /\ outcomes' \in [OutcomeKeys -> Outcome \cup {None}] /\ outcomes'[c.key] = row
      /\ \A j \in OutcomeKeys \ {c.key} : outcomes'[j] = outcomes[j]
  BY <1>1, <1>2, <1>4, <1>6 DEF TypeOK
<1>9. /\ utilities' \in [Entries -> Utility \cup {None}] /\ utilities'[e] = estimate[r]
      /\ \A x \in Entries \ {e} : utilities'[x] = utilities[x]
  BY <1>1, <1>2, <1>4, <1>5 DEF TypeOK
<1>10. TypeOK' BY <1>1, <1>2, <1>7, <1>8, <1>9, NextParts DEF TablesOK
<1>11. ASSUME NEW q \in Threads \ {r} PROVE ThreadOK(q)'
  <2>1. \A j \in OutcomeKeys : outcomeLock[j] = q => outcomes'[j] = outcomes[j]
    BY <1>4, <1>8
  <2>2. \A x \in Entries : rowLock[x] = q => utilities'[x] = utilities[x]
    BY <1>4, <1>9
  <2>3. Respects(q) BY <1>2, <1>7, <2>1, <2>2 DEF Apart, Respects
  <2> QED BY <1>1, <2>3, Undisturbed DEF Inv
<1>12. ThreadOK(r)' BY <1>7 DEF ThreadOK, IsOp
<1>13. Fresh' BY <1>7, FreshKeeps DEF IsOp
<1>14. OutcomesAreAttributed'
  <2>1. /\ traces[c.trace] # None
        /\ c.usage = None => c.revision \in traces[c.trace].items
        /\ c.usage # None => /\ usages[c.usage] # None /\ usages[c.usage].trace = c.trace
                             /\ c.revision \in usages[c.usage].cited
    BY <1>4 DEF Attributable
  <2>2. c.usage # None => c.revision \in traces[c.trace].items
    <3>1. c.usage # None => c.usage \in UsageKeys BY <1>1, <1>3, OutcomeType
    <3> QED BY <2>1, <3>1 DEF Inv, OutcomesAreAttributed
  <2> QED BY <1>2, <1>6, <1>8, <2>1, <2>2 DEF Inv, OutcomesAreAttributed
<1>15. Abstracted
  <2>1. {k \in OutcomeKeys : outcomes'[k] # None}
            = {k \in OutcomeKeys : outcomes[k] # None} \cup {c.key}
    BY <1>4, <1>6, <1>8
  <2>2. [x \in Entries |-> UtilityFor(x)']
            = [[x \in Entries |-> UtilityFor(x)] EXCEPT ![e] =
                  Abstract!Updated([x \in Entries |-> UtilityFor(x)][e], c.verdict)]
    BY <1>4, <1>5, <1>9 DEF UtilityFor
  <2>3. c.key \notin {k \in OutcomeKeys : outcomes[k] # None} BY <1>4
  <2>4. PICK k \in OutcomeKeys, v \in Verdicts : k = c.key /\ v = c.verdict BY <1>4
  <2>5. Abstract!Learn(k, e, v) BY <2>1, <2>2, <2>3, <2>4 DEF Abstract!Learn
  <2> QED BY <1>4, <2>5 DEF Abstracted, Abstract!Next
<1> QED BY <1>10, <1>11, <1>12, <1>13, <1>14, <1>15 DEF Inv

-----------------------------------------------------------------------------
(* The rest of the system. *)

LEMMA RecordKeeps ==
    ASSUME Inv, NEW v \in Revisions, Record(v)
    PROVE  Inv' /\ Abstracted
<1>1. TypeOK /\ TablesOK /\ LocksOK /\ LocalOK BY Parts DEF Inv
<1>2. /\ known' = known \cup {v}
      /\ UNCHANGED <<traces, usages, outcomes, utilities, usageLock, outcomeLock, rowLock,
                     pc, command, found, estimate, answer>>
  BY DEF Record, locks, thread
<1>3. TablesOK' /\ LocksOK' /\ LocalOK'
  BY <1>1, <1>2 DEF TablesOK, LocksOK, LocalOK
<1>4. \A r \in Threads : ThreadOK(r)'
  BY <1>2 DEF Inv, ThreadOK, IsOp, Attributable, Entry, UtilityFor
<1>5. Fresh' BY <1>2 DEF Inv, Fresh, IsOp
<1>6. OutcomesAreAttributed' BY <1>2 DEF Inv, OutcomesAreAttributed
<1> QED BY <1>2, <1>3, <1>4, <1>5, <1>6, NextParts, Silent DEF Inv

LEMMA EraseScopeKeeps ==
    ASSUME Inv, EraseScope
    PROVE  Inv' /\ Abstracted
<1>1. TypeOK /\ LocksOK /\ LocalOK BY Parts DEF Inv
<1>2. /\ \A r \in Threads : pc[r] = "idle"
      /\ known' = {}
      /\ traces' = [t \in TraceIds |-> None]
      /\ usages' = [k \in UsageKeys |-> None]
      /\ outcomes' = [k \in OutcomeKeys |-> None]
      /\ utilities' = [e \in Entries |-> None]
      /\ UNCHANGED <<usageLock, outcomeLock, rowLock, pc, command, found, estimate, answer>>
  BY DEF EraseScope, locks, thread
<1>3. TablesOK' /\ LocksOK' /\ LocalOK'
  BY <1>1, <1>2 DEF TablesOK, LocksOK, LocalOK
<1>4. \A r \in Threads : command'[r] = None /\ pc'[r] = "idle"
  BY <1>2 DEF Inv, ThreadOK
<1>5. (\A r \in Threads : ThreadOK(r)') /\ Fresh' BY <1>4 DEF ThreadOK, Fresh, IsOp
<1>6. OutcomesAreAttributed' BY <1>2 DEF OutcomesAreAttributed
<1>7. Abstracted
  <2>1. {k \in OutcomeKeys : outcomes'[k] # None} = {} BY <1>2
  <2>2. [e \in Entries |-> UtilityFor(e)'] = [e \in Entries |-> Abstract!Prior]
    BY <1>2 DEF UtilityFor, Prior, Abstract!Prior
  <2>3. Abstract!Forget BY <2>1, <2>2 DEF Abstract!Forget
  <2> QED BY <2>3 DEF Abstracted, Abstract!Next
<1> QED BY <1>3, <1>5, <1>6, <1>7, NextParts DEF Inv

-----------------------------------------------------------------------------
(* What is learnt adds up. *)

\* The outcomes the estimate of e is about, and what they amount to.
About(e) == {k \in OutcomeKeys : outcomes[k] # None /\ Entry(outcomes[k]) = e}

WeightsOf(table, S) == [k \in S |-> table[k].verdict.weight]

Agreeing(table, S, success) == {k \in S : table[k].verdict.success = success}

WeightOf(table, S, success) ==
    SumFunctionOnSet(WeightsOf(table, S), Agreeing(table, S, success))

InstantsOf(table, S) == {table[k].verdict.at : k \in S}

EstimateOf(table, S) ==
    [positive |-> WeightOf(table, S, TRUE), negative |-> WeightOf(table, S, FALSE),
     last |-> Max(InstantsOf(table, S))]

AddsUp(e) == utilities[e] = IF About(e) = {} THEN None ELSE EstimateOf(outcomes, About(e))

LEMMA SumsByEntry == UtilityIsSumOfOutcomes <=> \A e \in Entries : AddsUp(e)
BY DEF UtilityIsSumOfOutcomes, AddsUp, About, EstimateOf, WeightOf, WeightsOf, Agreeing,
       InstantsOf

\* Outcomes are finitely many: each was committed by a step.
OutcomesAreFinite == IsFiniteSet({k \in OutcomeKeys : outcomes[k] # None})

LEMMA OutcomeParts ==
    ASSUME NEW out \in Outcome
    PROVE  /\ out.trace \in TraceIds /\ out.verdict \in Verdicts
           /\ out.verdict.success \in BOOLEAN /\ out.verdict.weight \in Nat
           /\ out.verdict.at \in Nat
<1>1. out.trace \in TraceIds /\ out.verdict \in Verdicts BY DEF Outcome
<1> QED BY <1>1, VerdictAssumption

\* The estimate depends on the outcomes it is about only.
LEMMA EstimateSame ==
    ASSUME NEW S, NEW table, NEW later, \A k \in S : later[k] = table[k]
    PROVE  EstimateOf(later, S) = EstimateOf(table, S)
<1>1. WeightsOf(later, S) = WeightsOf(table, S) BY DEF WeightsOf
<1>2. \A success : Agreeing(later, S, success) = Agreeing(table, S, success)
  BY DEF Agreeing
<1>3. InstantsOf(later, S) = InstantsOf(table, S)
  <2>1. {later[k].verdict.at : k \in S} = {table[k].verdict.at : k \in S} OBVIOUS
  <2> QED BY <2>1 DEF InstantsOf
<1> QED BY <1>1, <1>2, <1>3 DEF EstimateOf, WeightOf

\* One outcome more adds its weight to one of the two sums.
LEMMA WeightAdds ==
    ASSUME NEW S, IsFiniteSet(S), NEW c, c \notin S, NEW table,
           \A k \in S \cup {c} : table[k] \in Outcome, NEW success \in BOOLEAN
    PROVE  /\ WeightOf(table, S, success) \in Nat
           /\ WeightOf(table, S \cup {c}, success) =
                  WeightOf(table, S, success)
                      + (IF table[c].verdict.success = success
                         THEN table[c].verdict.weight ELSE 0)
<1> DEFINE more == S \cup {c}
           old == WeightsOf(table, S)
           new == WeightsOf(table, more)
           out == table[c].verdict
           A == Agreeing(table, S, success)
           B == Agreeing(table, more, success)
           before == WeightOf(table, S, success)
           after == WeightOf(table, more, success)
<1>1. \A k \in more : table[k].verdict.weight \in Nat BY OutcomeParts
<1>2. /\ \A k \in S : old[k] \in Nat /\ new[k] = old[k]
      /\ new[c] = out.weight /\ out.weight \in Nat
  BY <1>1 DEF WeightsOf
<1>3. A \subseteq S /\ IsFiniteSet(A) /\ c \notin A BY FS_Subset DEF Agreeing
<1>4. B = IF out.success = success THEN A \cup {c} ELSE A BY DEF Agreeing
<1>5. \A k \in A : old[k] \in Nat /\ new[k] = old[k] BY <1>2, <1>3
<1>6. after = SumFunctionOnSet(new, B) /\ before = SumFunctionOnSet(old, A)
  BY DEF WeightOf
<1> HIDE DEF A, B, old, new, out, more, before, after
<1>7. before \in Nat BY <1>3, <1>5, <1>6, SumIsNatural
<1>8. CASE out.success = success
  <2>1. SumFunctionOnSet(new, A \cup {c}) = new[c] + SumFunctionOnSet(old, A)
    BY <1>2, <1>3, <1>5, SumAdds
  <2>2. after = out.weight + before BY <1>2, <1>4, <1>6, <1>8, <2>1
  <2>3. after = before + out.weight BY <1>2, <1>7, <2>2
  <2> QED BY <1>7, <1>8, <2>3 DEF before, after, more, out
<1>9. CASE out.success # success
  <2>1. SumFunctionOnSet(new, A) = SumFunctionOnSet(old, A)
    BY <1>3, <1>5, SumDependsOnValues
  <2>2. after = before BY <1>4, <1>6, <1>9, <2>1
  <2>3. after = before + 0 BY <1>7, <2>2
  <2> QED BY <1>7, <1>9, <2>3 DEF before, after, more, out
<1> QED BY <1>8, <1>9

\* The instant of an outcome more is the latest or leaves it.
LEMMA InstantAdds ==
    ASSUME NEW S, IsFiniteSet(S), NEW c, NEW table, \A k \in S \cup {c} : table[k] \in Outcome
    PROVE  /\ S # {} => Max(InstantsOf(table, S)) \in Nat
           /\ Max(InstantsOf(table, S \cup {c})) =
                  IF S = {} THEN table[c].verdict.at
                  ELSE Later(Max(InstantsOf(table, S)), table[c].verdict.at)
<1> DEFINE f == [k \in S |-> table[k].verdict.at]
           times == {f[k] : k \in S}
           at == table[c].verdict.at
<1>1. InstantsOf(table, S) = times /\ InstantsOf(table, S \cup {c}) = times \cup {at}
  BY DEF InstantsOf
<1>2. times \subseteq Nat /\ at \in Nat BY OutcomeParts
<1>3. times = {} <=> S = {} OBVIOUS
<1>4. IsFiniteSet(times)
  <2> HIDE DEF f
  <2> QED BY ImageIsFinite
<1> HIDE DEF f, times, at
<1>5. times \cup {at} \subseteq Nat /\ IsFiniteSet(times \cup {at})
  BY <1>2, <1>4, FS_AddElement
<1>6. PICK len \in Nat : times \cup {at} \subseteq 0..len BY <1>5, FiniteIsBounded
<1>7. times \subseteq 0..len /\ at \in 0..len BY <1>6
<1>8. Max(times \cup {at}) =
          IF times = {} THEN at ELSE IF Max(times) >= at THEN Max(times) ELSE at
  BY <1>7, MaxGrows
<1>9. times # {} => Max(times) \in Nat BY <1>2, <1>7, MaxIsLargest
<1> QED BY <1>1, <1>3, <1>8, <1>9 DEF Later, at

\* One outcome more updates the estimate the way apply_outcome does.
LEMMA EstimateAdds ==
    ASSUME NEW S, IsFiniteSet(S), NEW c, c \notin S, NEW table,
           \A k \in S \cup {c} : table[k] \in Outcome
    PROVE  /\ S # {} => EstimateOf(table, S) \in Utility
           /\ EstimateOf(table, S \cup {c}) =
                  Added(IF S = {} THEN Prior ELSE EstimateOf(table, S), table[c].verdict)
<1> DEFINE out == table[c].verdict
           row == IF S = {} THEN Prior ELSE EstimateOf(table, S)
           more == S \cup {c}
<1>1. out.success \in BOOLEAN /\ out.weight \in Nat /\ out.at \in Nat BY OutcomeParts
<1>2. /\ WeightOf(table, S, TRUE) \in Nat /\ WeightOf(table, S, FALSE) \in Nat
      /\ WeightOf(table, more, TRUE) =
             WeightOf(table, S, TRUE) + (IF out.success = TRUE THEN out.weight ELSE 0)
      /\ WeightOf(table, more, FALSE) =
             WeightOf(table, S, FALSE) + (IF out.success = FALSE THEN out.weight ELSE 0)
  <2> HIDE DEF more, out
  <2> QED BY WeightAdds DEF more, out
<1>3. /\ S # {} => Max(InstantsOf(table, S)) \in Nat
      /\ Max(InstantsOf(table, more)) =
             IF S = {} THEN out.at ELSE Later(Max(InstantsOf(table, S)), out.at)
  <2> HIDE DEF more, out
  <2> QED BY InstantAdds DEF more, out
<1> HIDE DEF out, more
<1>4. S # {} => EstimateOf(table, S) \in Utility BY <1>2, <1>3 DEF EstimateOf, Utility
<1>5. /\ row.positive = WeightOf(table, S, TRUE) /\ row.negative = WeightOf(table, S, FALSE)
      /\ Max(InstantsOf(table, more)) = Later(row.last, out.at)
  <2>1. CASE S = {}
    <3>1. \A success : Agreeing(table, S, success) = {} BY <2>1 DEF Agreeing
    <3>2. \A success : WeightOf(table, S, success) = 0 BY <3>1, SumOfNothing DEF WeightOf
    <3>3. Later(0, out.at) = out.at BY <1>1 DEF Later
    <3> QED BY <1>3, <2>1, <3>2, <3>3 DEF Prior
  <2>2. CASE S # {} BY <1>3, <2>2 DEF EstimateOf
  <2> QED BY <2>1, <2>2
<1> HIDE DEF row
<1>6. EstimateOf(table, more) = Added(row, out)
  BY <1>1, <1>2, <1>5 DEF EstimateOf, Added
<1> QED BY <1>4, <1>6 DEF row, more, out

\* What an entry is about stays as long as its outcomes and their traces do.
LEMMA AboutFrame ==
    ASSUME NEW e, \A k \in OutcomeKeys : outcomes[k] # None =>
                      /\ outcomes'[k] = outcomes[k]
                      /\ traces'[outcomes[k].trace] = traces[outcomes[k].trace]
    PROVE  /\ \A k \in About(e) : k \in About(e)'
           /\ \A k \in OutcomeKeys : outcomes[k] # None /\ k \in About(e)' => k \in About(e)
BY DEF About, Entry

KeepsLearning ==
    /\ UNCHANGED <<outcomes, utilities>>
    /\ \A t \in TraceIds : traces[t] # None => traces'[t] = traces[t]

LEMMA KeepsSum ==
    ASSUME Inv, OutcomesAreFinite, NEW e \in Entries, AddsUp(e), KeepsLearning
    PROVE  AddsUp(e)'
<1>1. \A k \in OutcomeKeys : outcomes[k] # None =>
          /\ outcomes'[k] = outcomes[k]
          /\ traces'[outcomes[k].trace] = traces[outcomes[k].trace]
  <2>1. \A k \in OutcomeKeys : outcomes[k] # None =>
            outcomes[k].trace \in TraceIds /\ traces[outcomes[k].trace] # None
    BY OutcomeParts DEF Inv, TypeOK, OutcomesAreAttributed
  <2> QED BY <2>1 DEF KeepsLearning
<1>2. About(e)' = About(e) BY <1>1 DEF About, Entry, KeepsLearning
<1>3. outcomes' = outcomes /\ utilities' = utilities BY DEF KeepsLearning
<1> QED BY <1>2, <1>3 DEF AddsUp, EstimateOf, WeightOf, WeightsOf, Agreeing, InstantsOf

\* The committed row, or the prior, is what the outcomes so far amount to.
LEMMA CommitKeepsSum ==
    ASSUME Inv, OutcomesAreFinite, \A e \in Entries : AddsUp(e),
           NEW r \in Threads, CommitOutcome(r)
    PROVE  \A e \in Entries : AddsUp(e)'
<1> PICK c : c = command[r] OBVIOUS
<1> PICK x : x = Entry(c) OBVIOUS
<1> DEFINE row == [trace |-> c.trace, usage |-> c.usage, revision |-> c.revision,
                   verdict |-> c.verdict]
<1>1. TypeOK BY DEF Inv
<1>2. /\ pc[r] = "commit" /\ c.op = "outcome"
      /\ outcomes' = [outcomes EXCEPT ![c.key] = row]
      /\ utilities' = [utilities EXCEPT ![x] = estimate[r]]
      /\ traces' = traces
  BY DEF CommitOutcome
<1>3. IsOp(r, "outcome") BY <1>2 DEF Inv, ThreadOK, IsOp
<1>4. /\ c.key \in OutcomeKeys /\ x \in Entries /\ outcomes[c.key] = None
      /\ estimate[r] = Added(UtilityFor(x), c.verdict)
  BY <1>1, <1>2, <1>3, EntryType, OutcomeType DEF Inv, ThreadOK, Attributable
<1>5. row \in Outcome /\ row # None /\ row.verdict = c.verdict
  BY <1>1, <1>3, OutcomeType, NoneAssumption DEF Outcome
<1>6. Entry(row) = x BY DEF Entry
<1> HIDE DEF row
<1>7. /\ outcomes'[c.key] = row
      /\ \A k \in OutcomeKeys \ {c.key} : outcomes'[k] = outcomes[k]
      /\ utilities'[x] = estimate[r]
      /\ \A e \in Entries \ {x} : utilities'[e] = utilities[e]
  BY <1>1, <1>2, <1>4 DEF TypeOK
<1>8. \A k \in OutcomeKeys : outcomes[k] # None =>
          /\ outcomes'[k] = outcomes[k]
          /\ traces'[outcomes[k].trace] = traces[outcomes[k].trace]
  BY <1>2, <1>4, <1>7
<1>9. \A e : c.key \in About(e)' <=> e = x
  <2>1. Entry(row)' = Entry(row) BY <1>2 DEF Entry, row
  <2> QED BY <1>2, <1>4, <1>5, <1>6, <1>7 DEF About, Entry
<1>10. \A e : About(e)' = IF e = x THEN About(e) \cup {c.key} ELSE About(e)
  <2> SUFFICES ASSUME NEW e
               PROVE  About(e)' = IF e = x THEN About(e) \cup {c.key} ELSE About(e)
    OBVIOUS
  <2>1. \A k \in About(e) : k \in About(e)' /\ k # c.key BY <1>4, <1>8, AboutFrame DEF About
  <2>2. \A k \in About(e)' : k = c.key \/ k \in About(e)
    <3>1. \A k \in About(e)' : k \in OutcomeKeys /\ outcomes'[k] # None BY DEF About
    <3>2. \A k \in About(e)' : k = c.key \/ outcomes[k] # None BY <1>7, <3>1
    <3> QED BY <1>8, <3>1, <3>2, AboutFrame
  <2> QED BY <1>9, <2>1, <2>2
<1>11. c.key \notin About(x) /\ \A e : About(e) \subseteq OutcomeKeys \ {c.key}
  BY <1>4 DEF About
<1>12. IsFiniteSet(About(x))
  <2>1. About(x) \subseteq {k \in OutcomeKeys : outcomes[k] # None} BY DEF About
  <2> QED BY <2>1, FS_Subset DEF OutcomesAreFinite
<1>13. ASSUME NEW e \in Entries, e # x PROVE AddsUp(e)'
  <2>1. About(e)' = About(e) /\ utilities'[e] = utilities[e] BY <1>7, <1>10, <1>13
  <2>2. EstimateOf(outcomes', About(e)) = EstimateOf(outcomes, About(e))
    <3>1. \A k \in About(e) : outcomes'[k] = outcomes[k] BY <1>7, <1>11
    <3> QED BY <3>1, EstimateSame
  <2>3. EstimateOf(outcomes, About(e))' = EstimateOf(outcomes', About(e)')
    BY DEF EstimateOf, WeightOf, WeightsOf, Agreeing, InstantsOf
  <2> QED BY <2>1, <2>2, <2>3 DEF AddsUp
<1>14. AddsUp(x)'
  <2>1. PICK S : S = About(x) OBVIOUS
  <2>2. PICK table : table = outcomes' OBVIOUS
  <2>3. \A k \in S \cup {c.key} : table[k] \in Outcome
    BY <1>1, <1>5, <1>7, <1>11, <2>1, <2>2 DEF TypeOK, About
  <2>4. EstimateOf(table, S) = EstimateOf(outcomes, S)
    <3>1. \A k \in S : table[k] = outcomes[k] BY <1>7, <1>11, <2>1, <2>2
    <3> QED BY <3>1, EstimateSame
  <2>5. /\ S # {} => EstimateOf(table, S) \in Utility
        /\ EstimateOf(table, S \cup {c.key}) =
               Added(IF S = {} THEN Prior ELSE EstimateOf(table, S), table[c.key].verdict)
    BY <1>11, <1>12, <2>1, <2>3, EstimateAdds
  <2>6. UtilityFor(x) = IF S = {} THEN Prior ELSE EstimateOf(table, S)
    <3>1. AddsUp(x) BY <1>4
    <3>2. utilities[x] = IF S = {} THEN None ELSE EstimateOf(table, S)
      BY <2>1, <2>4, <3>1 DEF AddsUp
    <3>3. None \notin Utility BY NoneAssumption
    <3> QED BY <2>5, <3>2, <3>3 DEF UtilityFor
  <2>7. table[c.key].verdict = c.verdict BY <1>5, <1>7, <2>2
  <2>8. utilities'[x] = EstimateOf(table, S \cup {c.key})
    BY <1>4, <1>7, <2>5, <2>6, <2>7
  <2>9. About(x)' = S \cup {c.key} /\ S \cup {c.key} # {} BY <1>10, <2>1
  <2>10. EstimateOf(outcomes, About(x))' = EstimateOf(table, About(x)')
    BY <2>2 DEF EstimateOf, WeightOf, WeightsOf, Agreeing, InstantsOf
  <2> QED BY <2>8, <2>9, <2>10 DEF AddsUp
<1> QED BY <1>13, <1>14
-----------------------------------------------------------------------------
(* The theorems. *)

LEMMA BeginKeeps ==
    ASSUME Inv, NEW r \in Threads, Begin(r)
    PROVE  Inv' /\ Abstracted
BY BeginRecallKeeps, BeginUsageKeeps, BeginOutcomeKeeps DEF Begin

LEMMA StatementKeeps ==
    ASSUME Inv, NEW r \in Threads, Statement(r)
    PROVE  Inv' /\ Abstracted
BY ReadKeeps, SaveTraceKeeps, LookupUsageKeeps, InsertUsageKeeps, CommitUsageKeeps,
   LookupOutcomeKeeps, InsertOutcomeKeeps, UpsertKeeps, CommitOutcomeKeeps
DEF Statement

LEMMA StutterKeeps ==
    ASSUME Inv, UNCHANGED vars
    PROVE  Inv' /\ Abstracted
<1>1. UNCHANGED <<known, traces, usages, outcomes, utilities, usageLock, outcomeLock, rowLock,
                  pc, command, found, estimate, answer>>
  BY DEF vars, tables, locks, thread
<1>2. TypeOK' BY <1>1 DEF Inv, TypeOK
<1>3. \A r \in Threads : ThreadOK(r)'
  BY <1>1 DEF Inv, ThreadOK, IsOp, Attributable, Entry, UtilityFor
<1>4. Fresh' /\ OutcomesAreAttributed'
  BY <1>1 DEF Inv, Fresh, IsOp, OutcomesAreAttributed
<1> QED BY <1>1, <1>2, <1>3, <1>4, Silent DEF Inv

LEMMA Step == Inv /\ [Next]_vars => Inv' /\ Abstracted
BY BeginKeeps, StatementKeeps, CrashKeeps, RecordKeeps, EraseScopeKeeps, StutterKeeps
DEF Next

LEMMA InitKeeps == Init => Inv /\ Abstract!Init
<1> SUFFICES ASSUME Init PROVE Inv /\ Abstract!Init OBVIOUS
<1>1. Reply("none", None) \in Answer BY ReplyType
<1>2. TypeOK
  <2>1. TablesOK BY DEF Init, TablesOK
  <2>2. LocksOK BY DEF Init, LocksOK
  <2>3. pc \in [Threads -> Statements] BY DEF Init, Statements
  <2>4. answer \in [Threads -> Answer] BY <1>1 DEF Init
  <2>5. LocalOK BY <2>3, <2>4 DEF Init, LocalOK
  <2> QED BY <2>1, <2>2, <2>5, Parts
<1>3. \A r \in Threads : command[r] = None /\ pc[r] = "idle" BY DEF Init
<1>4. (\A r \in Threads : ThreadOK(r)) /\ Fresh BY <1>3 DEF ThreadOK, Fresh, IsOp
<1>5. OutcomesAreAttributed BY DEF Init, OutcomesAreAttributed
<1>6. [e \in Entries |-> UtilityFor(e)] = [e \in Entries |-> Abstract!Prior]
  BY DEF Init, UtilityFor, Prior, Abstract!Prior
<1>7. {k \in OutcomeKeys : outcomes[k] # None} = {} BY DEF Init
<1> QED BY <1>2, <1>4, <1>5, <1>6, <1>7 DEF Inv, Abstract!Init

\* The inductive invariant holds in every state of PgExperience.
THEOREM Invariance == Spec => []Inv
<1>1. Inv /\ [Next]_vars => Inv' BY Step
<1> QED BY InitKeeps, <1>1, PTL DEF Spec

\* Tables, locks and threads have their types.
THEOREM TypeCorrect == Spec => []TypeOK
<1>1. Inv => TypeOK BY DEF Inv
<1> QED BY Invariance, <1>1, PTL

\* Every outcome leads to a trace that returned its revision, through the usage it
\* cites if any (record_usage, record_outcome and erase_scope).
THEOREM AttributionCorrect == Spec => []OutcomesAreAttributed
<1>1. Inv => OutcomesAreAttributed BY DEF Inv
<1> QED BY Invariance, <1>1, PTL

\* apply_outcome counts every report once, in one step, whatever competes for the
\* key and the row, and only reports and erasures move estimates.
THEOREM Refinement == Spec => ImplementsUtilityLedger
<1>1. Inv /\ [Next]_vars => [Abstract!Next]_(Abstract!vars) BY Step DEF Abstracted
<1>2. Init => Abstract!Init BY InitKeeps
<1> QED BY Invariance, <1>1, <1>2, PTL DEF Spec, ImplementsUtilityLedger, Abstract!Spec

\* The kinds of step, for what is learnt.
LEMMA StepKinds ==
    ASSUME Inv, [Next]_vars
    PROVE  KeepsLearning \/ EraseScope \/ \E r \in Threads : CommitOutcome(r)
<1>1. \A r \in Threads : Finish(r, Reply("failed", None)) /\ UNCHANGED tables => KeepsLearning
  BY DEF tables, KeepsLearning
<1>2. ASSUME NEW r \in Threads, Begin(r) PROVE KeepsLearning
  BY <1>2 DEF Begin, BeginRecall, BeginUsage, BeginOutcome, tables, KeepsLearning
<1>3. ASSUME NEW r \in Threads, Crash(r) PROVE KeepsLearning
  BY <1>3 DEF Crash, Rollback, tables, KeepsLearning
<1>4. ASSUME NEW r \in Threads, Statement(r) PROVE KeepsLearning \/ CommitOutcome(r)
  <2>1. Read(r) \/ Upsert(r) => KeepsLearning BY DEF Read, Upsert, tables, KeepsLearning
  <2>2. SaveTrace(r) => KeepsLearning
    <3> SUFFICES ASSUME SaveTrace(r) PROVE KeepsLearning OBVIOUS
    <3>1. IsOp(r, "recall") BY DEF SaveTrace, Inv, ThreadOK
    <3>2. traces[command[r].trace] = None BY <3>1 DEF Inv, ThreadOK
    <3>3. \A t \in TraceIds : traces[t] # None => traces'[t] = traces[t]
      BY <3>2 DEF SaveTrace, Inv, TypeOK
    <3> QED BY <3>3 DEF SaveTrace, KeepsLearning
  <2>3. LookupUsage(r) \/ InsertUsage(r) => KeepsLearning
    BY DEF LookupUsage, InsertUsage, ReplayUsage, tables, KeepsLearning
  <2>4. CommitUsage(r) => KeepsLearning BY DEF CommitUsage, KeepsLearning
  <2>5. LookupOutcome(r) \/ InsertOutcome(r) => KeepsLearning
    BY DEF LookupOutcome, InsertOutcome, ReplayOutcome, tables, KeepsLearning
  <2> QED BY <1>4, <2>1, <2>2, <2>3, <2>4, <2>5 DEF Statement
<1>5. ASSUME NEW v \in Revisions, Record(v) PROVE KeepsLearning
  BY <1>5 DEF Record, KeepsLearning
<1>6. UNCHANGED vars => KeepsLearning BY DEF vars, tables, KeepsLearning
<1> QED BY <1>2, <1>3, <1>4, <1>5, <1>6 DEF Next

SumsInv == Inv /\ OutcomesAreFinite /\ \A e \in Entries : AddsUp(e)

LEMMA SumsStep == SumsInv /\ [Next]_vars => SumsInv'
<1> SUFFICES ASSUME SumsInv, [Next]_vars PROVE SumsInv' OBVIOUS
<1>1. Inv' BY Step DEF SumsInv
<1>2. CASE KeepsLearning
  <2>1. \A e \in Entries : AddsUp(e)' BY <1>2, KeepsSum DEF SumsInv
  <2>2. OutcomesAreFinite' BY <1>2 DEF KeepsLearning, OutcomesAreFinite, SumsInv
  <2> QED BY <1>1, <2>1, <2>2 DEF SumsInv
<1>3. CASE EraseScope
  <2>1. \A k \in OutcomeKeys : outcomes'[k] = None BY <1>3 DEF EraseScope
  <2>2. \A e \in Entries : utilities'[e] = None BY <1>3 DEF EraseScope
  <2>3. \A e \in Entries : About(e)' = {} BY <2>1 DEF About
  <2>4. {k \in OutcomeKeys : outcomes'[k] # None} = {} BY <2>1
  <2> QED BY <1>1, <2>2, <2>3, <2>4, FS_EmptySet DEF AddsUp, OutcomesAreFinite, SumsInv
<1>4. ASSUME NEW r \in Threads, CommitOutcome(r) PROVE SumsInv'
  <2>1. \A e \in Entries : AddsUp(e)' BY <1>4, CommitKeepsSum DEF SumsInv
  <2>2. OutcomesAreFinite'
    <3>1. PICK key : key = command[r].key OBVIOUS
    <3>2. \A k \in OutcomeKeys : k # key => outcomes'[k] = outcomes[k]
      BY <1>4, <3>1 DEF CommitOutcome, SumsInv, Inv, TypeOK
    <3>3. {k \in OutcomeKeys : outcomes'[k] # None}
              \subseteq {k \in OutcomeKeys : outcomes[k] # None} \cup {key}
      BY <3>2
    <3>4. IsFiniteSet({k \in OutcomeKeys : outcomes[k] # None} \cup {key})
      BY FS_AddElement DEF SumsInv, OutcomesAreFinite
    <3> QED BY <3>3, <3>4, FS_Subset DEF OutcomesAreFinite
  <2> QED BY <1>1, <2>1, <2>2 DEF SumsInv
<1> QED BY <1>2, <1>3, <1>4, StepKinds DEF SumsInv

LEMMA SumsInit == Init => SumsInv
<1> SUFFICES ASSUME Init PROVE SumsInv OBVIOUS
<1>1. (\A k \in OutcomeKeys : outcomes[k] = None) /\ \A e \in Entries : utilities[e] = None
  BY DEF Init
<1>2. \A e \in Entries : About(e) = {} BY <1>1 DEF About
<1>3. {k \in OutcomeKeys : outcomes[k] # None} = {} BY <1>1
<1> QED BY <1>1, <1>2, <1>3, InitKeeps, FS_EmptySet DEF AddsUp, OutcomesAreFinite, SumsInv

LEMMA SumsInvariance == Spec => []SumsInv
BY SumsInit, SumsStep, PTL DEF Spec

-----------------------------------------------------------------------------
(* Answers. *)

\* What outcomes amount to is a row.
LEMMA EstimateType ==
    ASSUME NEW S, IsFiniteSet(S), S # {}, NEW table, \A k \in S : table[k] \in Outcome
    PROVE  EstimateOf(table, S) \in Utility
<1>1. PICK c \in S : TRUE OBVIOUS
<1>2. PICK T : T = S \ {c} OBVIOUS
<1>3. /\ IsFiniteSet(T) /\ c \notin T /\ S = T \cup {c}
      /\ \A k \in T \cup {c} : table[k] \in Outcome
  BY <1>1, <1>2, FS_Subset
<1>4. PICK row : row = IF T = {} THEN Prior ELSE EstimateOf(table, T) OBVIOUS
<1>5. /\ T # {} => EstimateOf(table, T) \in Utility
      /\ EstimateOf(table, T \cup {c}) = Added(row, table[c].verdict)
  BY <1>3, <1>4, EstimateAdds
<1>6. row \in Utility BY <1>4, <1>5 DEF Prior, Utility
<1>7. table[c].verdict \in Verdicts BY <1>1, OutcomeParts
<1> QED BY <1>3, <1>5, <1>6, <1>7, AddedType

\* The row of an entry that a stored outcome is about is there.
LEMMA StoredIsCounted ==
    ASSUME SumsInv, NEW k \in OutcomeKeys, outcomes[k] # None, Entry(outcomes[k]) \in Entries
    PROVE  utilities[Entry(outcomes[k])] # None
<1>1. PICK e \in Entries : e = Entry(outcomes[k]) OBVIOUS
<1>2. PICK S : S = About(e) OBVIOUS
<1>3. S # {} /\ S \subseteq {j \in OutcomeKeys : outcomes[j] # None} BY <1>1, <1>2 DEF About
<1>4. IsFiniteSet(S) BY <1>3, FS_Subset DEF SumsInv, OutcomesAreFinite
<1>5. \A j \in S : outcomes[j] \in Outcome BY <1>3 DEF SumsInv, Inv, TypeOK
<1>6. EstimateOf(outcomes, S) \in Utility BY <1>3, <1>4, <1>5, EstimateType
<1>7. utilities[e] = EstimateOf(outcomes, S) BY <1>2, <1>3 DEF SumsInv, AddsUp
<1> QED BY <1>1, <1>6, <1>7, NoneAssumption

\* What AnswersCountTheReport says of one thread.
AnswerCounts(r) ==
    (/\ command[r] # None /\ command[r].op = "outcome"
     /\ answer'[r] # answer[r] /\ answer'[r].kind \in {"created", "replayed"})
    => LET c == command[r]
           out == outcomes'[c.key]
       IN  /\ out # None
           /\ out.trace = c.trace /\ out.usage = c.usage /\ out.revision = c.revision
           /\ out.verdict.success = c.verdict.success
           /\ out.verdict.weight = c.verdict.weight
           /\ answer'[r].utility = utilities'[Entry(c)]
           /\ utilities'[Entry(c)] # None

LEMMA ReplayCounts ==
    ASSUME SumsInv, NEW r \in Threads, IsOp(r, "outcome"),
           outcomes[command[r].key] # None, ReplayOutcome(r)
    PROVE  AnswerCounts(r)
<1> DEFINE c == command[r]
           out == outcomes[c.key]
<1>1. TypeOK BY DEF SumsInv, Inv
<1>2. UNCHANGED <<outcomes, utilities>> BY DEF ReplayOutcome, tables
<1>3. answer'[r] = IF SameReport(out, c) THEN Reply("replayed", UtilityFor(Entry(c)))
                   ELSE Reply("conflict", None)
  BY <1>1 DEF ReplayOutcome, Finish, TypeOK
<1>4. CASE ~SameReport(out, c) BY <1>3, <1>4 DEF Reply, AnswerCounts
<1>5. CASE SameReport(out, c)
  <2>1. c.key \in OutcomeKeys /\ Entry(c) \in Entries
    BY <1>1, EntryType, OutcomeType DEF SumsInv, Inv, ThreadOK, Attributable
  <2>2. Entry(out) = Entry(c) BY <1>5 DEF SameReport, Entry
  <2>3. utilities[Entry(c)] # None BY <2>1, <2>2, StoredIsCounted
  <2>4. answer'[r].utility = utilities[Entry(c)] BY <1>3, <1>5, <2>3 DEF Reply, UtilityFor
  <2> QED BY <1>2, <1>5, <2>3, <2>4 DEF SameReport, AnswerCounts
<1> QED BY <1>4, <1>5

LEMMA CommitCounts ==
    ASSUME SumsInv, NEW r \in Threads, CommitOutcome(r)
    PROVE  AnswerCounts(r)
<1> DEFINE c == command[r]
           e == Entry(c)
           row == [trace |-> c.trace, usage |-> c.usage, revision |-> c.revision,
                   verdict |-> c.verdict]
<1>1. TypeOK BY DEF SumsInv, Inv
<1>2. IsOp(r, "outcome") BY DEF CommitOutcome, SumsInv, Inv, ThreadOK, IsOp
<1>3. /\ c.key \in OutcomeKeys /\ e \in Entries /\ c.verdict \in Verdicts
      /\ estimate[r] = Added(UtilityFor(e), c.verdict)
  BY <1>1, <1>2, EntryType, OutcomeType
  DEF CommitOutcome, SumsInv, Inv, ThreadOK, Attributable
<1>4. estimate[r] # None BY <1>1, <1>3, UtilityType, AddedType
<1>5. row # None BY <1>1, <1>2, OutcomeType, NoneAssumption DEF Outcome
<1>6. outcomes'[c.key] = row /\ utilities'[e] = estimate[r]
  BY <1>1, <1>3 DEF CommitOutcome, TypeOK
<1>7. answer'[r] = Reply("created", estimate[r]) \/ answer'[r] = Reply("failed", None)
  BY <1>1 DEF CommitOutcome, Finish, TypeOK
<1>8. CASE answer'[r] = Reply("failed", None) BY <1>8 DEF Reply, AnswerCounts
<1>9. CASE answer'[r] = Reply("created", estimate[r])
  BY <1>4, <1>5, <1>6, <1>9 DEF Reply, AnswerCounts
<1> QED BY <1>7, <1>8, <1>9

\* A thread answers only for itself.
LEMMA OthersAreSilent ==
    ASSUME TypeOK, NEW q \in Threads, NEW r \in Threads, q # r,
           Begin(q) \/ Statement(q) \/ Crash(q)
    PROVE  answer'[r] = answer[r]
<1>1. ASSUME NEW reply, Finish(q, reply) PROVE answer'[r] = answer[r]
  BY <1>1 DEF Finish, TypeOK
<1>2. ASSUME NEW c, NEW statement, Accept(q, c, statement) PROVE answer'[r] = answer[r]
  BY <1>2 DEF Accept, TypeOK
<1>3. CASE Begin(q) BY <1>2, <1>3 DEF Begin, BeginRecall, BeginUsage, BeginOutcome
<1>4. CASE Crash(q) BY <1>1, <1>4 DEF Crash, Rollback
<1>5. CASE Statement(q)
  <2>1. Read(q) \/ Upsert(q) => answer'[r] = answer[r] BY DEF Read, Upsert
  <2>2. SaveTrace(q) => answer'[r] = answer[r] BY <1>1 DEF SaveTrace
  <2>3. LookupUsage(q) \/ InsertUsage(q) => answer'[r] = answer[r]
    BY <1>1 DEF LookupUsage, InsertUsage, ReplayUsage
  <2>4. CommitUsage(q) => answer'[r] = answer[r] BY <1>1 DEF CommitUsage
  <2>5. LookupOutcome(q) \/ InsertOutcome(q) => answer'[r] = answer[r]
    BY <1>1 DEF LookupOutcome, InsertOutcome, ReplayOutcome
  <2>6. CommitOutcome(q) => answer'[r] = answer[r] BY <1>1 DEF CommitOutcome
  <2> QED BY <1>5, <2>1, <2>2, <2>3, <2>4, <2>5, <2>6 DEF Statement
<1> QED BY <1>3, <1>4, <1>5

LEMMA AnswerStep ==
    ASSUME SumsInv, [Next]_vars, NEW r \in Threads
    PROVE  AnswerCounts(r)
<1>1. TypeOK /\ ThreadOK(r) BY DEF SumsInv, Inv
<1>2. SUFFICES ASSUME IsOp(r, "outcome"), answer'[r] # answer[r],
                      answer'[r].kind \in {"created", "replayed"}
               PROVE  AnswerCounts(r)
  BY DEF AnswerCounts, IsOp
<1>3. UNCHANGED thread => FALSE BY <1>2 DEF thread
<1>4. CASE UNCHANGED vars BY <1>3, <1>4 DEF vars
<1>5. ASSUME NEW v \in Revisions, Record(v) PROVE AnswerCounts(r)
  BY <1>3, <1>5 DEF Record
<1>6. CASE EraseScope BY <1>3, <1>6 DEF EraseScope
<1>7. ASSUME NEW q \in Threads, Begin(q) \/ Statement(q) \/ Crash(q) PROVE AnswerCounts(r)
  <2>1. q = r BY <1>1, <1>2, <1>7, OthersAreSilent
  <2>2. pc[r] # "idle" /\ pc[r] \notin {"read", "save"} BY <1>1, <1>2 DEF ThreadOK, IsOp
  <2>3. ~Begin(r) BY <2>2 DEF Begin, BeginRecall, BeginUsage, BeginOutcome
  <2>4. ~Crash(r)
    BY <1>1, <1>2 DEF Crash, Rollback, Finish, Reply, TypeOK
  <2>5. ~Read(r) /\ ~SaveTrace(r) BY <2>2 DEF Read, SaveTrace
  <2>6. ~LookupUsage(r) /\ ~InsertUsage(r) /\ ~CommitUsage(r)
    BY <1>2 DEF LookupUsage, InsertUsage, CommitUsage, IsOp
  <2>7. ~Upsert(r) BY <1>2 DEF Upsert
  <2>8. CASE LookupOutcome(r) BY <1>2, <2>8, ReplayCounts DEF LookupOutcome
  <2>9. CASE InsertOutcome(r) BY <1>2, <2>9, ReplayCounts DEF InsertOutcome
  <2>10. CASE CommitOutcome(r) BY <2>10, CommitCounts
  <2> QED BY <1>7, <2>1, <2>3, <2>4, <2>5, <2>6, <2>7, <2>8, <2>9, <2>10 DEF Statement
<1> QED BY <1>4, <1>5, <1>6, <1>7 DEF Next

\* However outcomes race for keys and utility rows, the estimates are exactly what
\* the stored outcomes add up to (apply_outcome keeps a running total beside the
\* events it totals).
THEOREM UtilityCorrect == Spec => []UtilityIsSumOfOutcomes
<1>1. SumsInv => UtilityIsSumOfOutcomes BY SumsByEntry DEF SumsInv
<1> QED BY SumsInvariance, <1>1, PTL

\* A report that is answered as taken is stored as it was reported and counted in
\* the committed estimate it is answered with (record_outcome, _replayed_outcome).
THEOREM AnswersCorrect == Spec => AnswersCountTheReport
<1> DEFINE AllCount == \A r \in Threads : AnswerCounts(r)
<1>1. SumsInv /\ [Next]_vars => [AllCount]_vars BY AnswerStep
<1> HIDE DEF AllCount
<1>2. Spec => [][AllCount]_vars BY SumsInvariance, <1>1, PTL DEF Spec
<1>3. [][AllCount]_vars <=> AnswersCountTheReport
  BY DEF AllCount, AnswerCounts, AnswersCountTheReport
<1> QED BY <1>2, <1>3

=============================================================================
