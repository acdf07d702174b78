------------------------- MODULE GovernanceProofs -------------------------
(***************************************************************************)
(* Proofs about Governance, for any number of scopes, clients, rows, keys  *)
(* and connections: types and the pool's bound, the safety of suppression  *)
(* and erasure, and the refinement of ErasurePromise.                      *)
(*                                                                         *)
(* The argument: a fence is set only while no client holds the scope's     *)
(* lock, and no client is let past the gate of a fenced scope, so nothing  *)
(* is added behind it (FenceOK).  What a client relies on between its own  *)
(* steps (JobOK) is made of facts other clients cannot undo (Monotone).    *)
(***************************************************************************)
EXTENDS Governance, FiniteSetTheorems, TLAPS

Erasing == {"projection", "store", "counted", "receipt", "completing"}

\* What client c has established and relies on.
JobOK(c) ==
    /\ pc[c] # "idle" => job[c].op # "none"
    /\ pc[c] = "working" => job[c].op \in Shared /\ c \in holders[job[c].scope]
    /\ pc[c] \in Erasing => /\ job[c].op = "erase"
                            /\ job[c].scope \in fenced
                            /\ erasures[job[c].scope][job[c].key] # None
    /\ pc[c] \in Erasing \ {"projection"} => docs[job[c].scope] = {}
    /\ pc[c] \in {"receipt", "completing"} => rows[job[c].scope] = {}
    /\ job[c].op = "project" => \/ job[c].row \in rows[job[c].scope]
                                \/ job[c].scope \in fenced

\* Only working clients hold locks, and none of a fenced scope; erasures fence.
FenceOK ==
    /\ \A s \in Scopes : \A c \in holders[s] : pc[c] = "working" /\ job[c].scope = s
    /\ \A s \in fenced : holders[s] = {}
    /\ \A s \in Scopes, k \in Keys : erasures[s][k] # None => s \in fenced

\* A completed erasure has emptied the store, and with it the index.
EmptyOK == \A s \in Scopes : Completed(s) # {} => rows[s] = {}

Inv ==
    /\ TypeOK
    /\ \A c \in Clients : JobOK(c)
    /\ FenceOK
    /\ IndexFollowsStore
    /\ EmptyOK

\* What a step never does to the tables.
Monotone ==
    /\ fenced \subseteq fenced'
    /\ \A s \in fenced : rows'[s] \subseteq rows[s] /\ docs'[s] \subseteq docs[s]
    /\ \A s \in Scopes \ fenced : rows[s] \subseteq rows'[s]
    /\ \A s \in Scopes, k \in Keys : erasures[s][k] # None => erasures'[s][k] # None

\* What a step of client c leaves to the other clients.
Others(c) == \A d \in Clients \ {c} : pc'[d] = pc[d] /\ job'[d] = job[d]

-----------------------------------------------------------------------------
(* Types. *)

LEMMA InitType == Init => TypeOK
<1> SUFFICES ASSUME Init PROVE TypeOK OBVIOUS
<1>1. Connected = {} BY DEF Init, Connected
<1>2. Cardinality(Connected) = 0 BY <1>1, FS_EmptySet
<1>3. 0 \in Time BY TimeAssumption DEF Time
<1>4. Idle \in Jobs BY DEF Idle, Jobs
<1> QED BY <1>2, <1>3, <1>4, PoolAssumption DEF Init, TypeOK, Steps

LEMMA ConnectedFinite == IsFiniteSet(Connected) /\ Cardinality(Connected) \in Nat
<1>1. Connected \in SUBSET Clients BY DEF Connected
<1> QED BY <1>1, FiniteAssumption, FS_Subset, FS_CardinalityType

LEMMA PoolKept ==
    ASSUME Connected' \subseteq Connected, Cardinality(Connected) <= PoolSize
    PROVE  Cardinality(Connected') <= PoolSize
<1>1. Connected' \in SUBSET Connected OBVIOUS
<1>2. IsFiniteSet(Connected) /\ Cardinality(Connected) \in Nat BY ConnectedFinite
<1>3. Cardinality(Connected') <= Cardinality(Connected) /\ IsFiniteSet(Connected')
  BY <1>1, <1>2, FS_Subset
<1>4. Cardinality(Connected') \in Nat BY <1>3, FS_CardinalityType
<1> QED BY <1>2, <1>3, <1>4, PoolAssumption

LEMMA LeaveEffect ==
    ASSUME TypeOK, NEW c \in Clients, Leave(c)
    PROVE  /\ pc' \in [Clients -> Steps] /\ pc'[c] = "idle"
           /\ job' \in [Clients -> Jobs] /\ job'[c] = Idle
           /\ Others(c)
           /\ holders' \in [Scopes -> SUBSET Clients]
           /\ \A s \in Scopes : holders'[s] = holders[s] \ {c}
           /\ ahead' \in [Clients -> SUBSET Clients]
           /\ Cardinality(Connected') <= PoolSize
<1>1. Idle \in Jobs BY DEF Idle, Jobs
<1>2. /\ pc' \in [Clients -> Steps] /\ pc'[c] = "idle"
      /\ \A d \in Clients \ {c} : pc'[d] = pc[d]
  BY DEF Leave, Goto, TypeOK, Steps
<1>3. /\ job' \in [Clients -> Jobs] /\ job'[c] = Idle
      /\ \A d \in Clients \ {c} : job'[d] = job[d]
  BY <1>1 DEF Leave, TypeOK
<1>4. /\ holders' \in [Scopes -> SUBSET Clients]
      /\ \A s \in Scopes : holders'[s] = holders[s] \ {c}
  BY DEF Leave, TypeOK
<1>5. ahead' \in [Clients -> SUBSET Clients] BY DEF Leave, Unqueue, TypeOK
<1>6. Connected' \subseteq Connected BY <1>2 DEF Connected
<1>7. Cardinality(Connected') <= PoolSize BY <1>6, PoolKept DEF TypeOK
<1> QED BY <1>2, <1>3, <1>4, <1>5, <1>7 DEF Others

LEMMA GotoEffect ==
    ASSUME TypeOK, NEW c \in Clients, NEW step \in Steps, Goto(c, step)
    PROVE  /\ pc' \in [Clients -> Steps] /\ pc'[c] = step
           /\ \A d \in Clients \ {c} : pc'[d] = pc[d]
           /\ (step \notin {"waiting", "working", "completing"} \/ c \in Connected) =>
                  Cardinality(Connected') <= PoolSize
<1>1. /\ pc' \in [Clients -> Steps] /\ pc'[c] = step
      /\ \A d \in Clients \ {c} : pc'[d] = pc[d]
  BY DEF Goto, TypeOK
<1>2. ASSUME step \notin {"waiting", "working", "completing"} \/ c \in Connected
      PROVE  Connected' \subseteq Connected
  BY <1>1, <1>2 DEF Connected
<1> QED BY <1>1, <1>2, PoolKept DEF TypeOK

LEMMA UnqueueType ==
    ASSUME TypeOK, NEW c \in Clients, Unqueue(c)
    PROVE  ahead' \in [Clients -> SUBSET Clients]
BY DEF TypeOK, Unqueue

LEMMA StartType ==
    ASSUME TypeOK, NEW c \in Clients, NEW new \in Jobs, Start(c, new)
    PROVE  TypeOK'
<1>1. Goto(c, "queued") BY DEF Start
<1>2. "queued" \in Steps BY DEF Steps
<1>3. pc' \in [Clients -> Steps] /\ Cardinality(Connected') <= PoolSize
  BY <1>1, <1>2, GotoEffect
<1>4. job' \in [Clients -> Jobs] BY DEF Start, TypeOK
<1> QED BY <1>3, <1>4 DEF Start, TypeOK, control, data, locks

LEMMA ArriveType ==
    ASSUME TypeOK, NEW c \in Clients, Arrive(c)
    PROVE  TypeOK'
<1>1. PICK s \in Scopes : \/ Request(c, s)
                          \/ \E r \in Rows : Load(c, s, r)
                          \/ Suppress(c, s)
                          \/ \E k \in Keys : Erase(c, s, k)
  BY DEF Arrive
<1>2. [op |-> "process", scope |-> s, at |-> clock] \in Jobs BY DEF TypeOK, Jobs
<1>3. \A r \in Rows : [op |-> "project", scope |-> s, row |-> r] \in Jobs BY DEF Jobs
<1>4. [op |-> "suppress", scope |-> s] \in Jobs BY DEF Jobs
<1>5. \A k \in Keys : [op |-> "erase", scope |-> s, key |-> k, count |-> 0] \in Jobs
  BY DEF Jobs
<1>6. CASE Request(c, s) BY <1>2, <1>6, StartType DEF Request
<1>7. CASE \E r \in Rows : Load(c, s, r) BY <1>3, <1>7, StartType DEF Load
<1>8. CASE Suppress(c, s) BY <1>4, <1>8, StartType DEF Suppress
<1>9. CASE \E k \in Keys : Erase(c, s, k) BY <1>5, <1>9, StartType DEF Erase
<1> QED BY <1>1, <1>6, <1>7, <1>8, <1>9

LEMMA ConnectType ==
    ASSUME TypeOK, NEW c \in Clients, Connect(c)
    PROVE  TypeOK'
<1>1. PICK step \in {"waiting", "completing"} : Goto(c, step) BY DEF Connect
<1>2. step \in Steps BY DEF Steps
<1>3. /\ pc' \in [Clients -> Steps]
      /\ pc'[c] = step
      /\ \A d \in Clients \ {c} : pc'[d] = pc[d]
  BY <1>1, <1>2, GotoEffect
<1>4. ahead' \in [Clients -> SUBSET Clients] BY DEF Connect, TypeOK
<1>5. Connected' = Connected \cup {c} BY <1>3 DEF Connected
<1>6. Cardinality(Connected') <= Cardinality(Connected) + 1
  BY <1>5, ConnectedFinite, FS_AddElement
<1>7. Cardinality(Connected') \in Nat
  BY <1>5, ConnectedFinite, FS_AddElement, FS_CardinalityType
<1>8. Cardinality(Connected') <= PoolSize
  BY <1>6, <1>7, ConnectedFinite, PoolAssumption DEF Connect
<1> QED BY <1>3, <1>4, <1>8 DEF Connect, TypeOK, control, data

LEMMA GateType ==
    ASSUME TypeOK, NEW c \in Clients, NEW s \in Scopes, Gate(c, s)
    PROVE  TypeOK'
<1>1. UNCHANGED <<clock, control, data>> BY DEF Gate
<1>2. CASE Leave(c) BY <1>1, <1>2, LeaveEffect DEF TypeOK, control, data
<1>3. CASE /\ Goto(c, "working") /\ Unqueue(c) /\ UNCHANGED job
           /\ holders' = [holders EXCEPT ![s] = @ \cup {c}]
  <2>1. c \in Connected /\ "working" \in Steps BY DEF Gate, Connected, Steps
  <2>2. pc' \in [Clients -> Steps] /\ Cardinality(Connected') <= PoolSize
    BY <1>3, <2>1, GotoEffect
  <2>3. ahead' \in [Clients -> SUBSET Clients] BY <1>3, UnqueueType
  <2>4. holders' \in [Scopes -> SUBSET Clients] BY <1>3 DEF TypeOK
  <2> QED BY <1>1, <1>3, <2>2, <2>3, <2>4 DEF TypeOK, control, data
<1> QED BY <1>2, <1>3 DEF Gate

LEMMA ProcessType ==
    ASSUME TypeOK, NEW c \in Clients, NEW s \in Scopes, Process(c, s)
    PROVE  TypeOK'
<1>1. rows' \in [Scopes -> SUBSET Rows] BY DEF Process, TypeOK
<1>2. Leave(c) BY DEF Process
<1> QED BY <1>1, <1>2, LeaveEffect DEF Process, TypeOK, control

LEMMA ProjectType ==
    ASSUME TypeOK, NEW c \in Clients, NEW s \in Scopes, Project(c, s)
    PROVE  TypeOK'
<1>1. job[c].row \in Rows BY DEF Project, TypeOK, Jobs
<1>2. docs' \in [Scopes -> SUBSET Rows] BY <1>1 DEF Project, TypeOK
<1>3. Leave(c) BY DEF Project
<1> QED BY <1>2, <1>3, LeaveEffect DEF Project, TypeOK, control


LEMMA FenceType ==
    ASSUME TypeOK, NEW c \in Clients, NEW s \in Scopes, Fence(c, s)
    PROVE  TypeOK'
<1>1. Leave(c) /\ fenced' \subseteq Scopes BY DEF Fence, TypeOK
<1> QED BY <1>1, LeaveEffect DEF Fence, TypeOK, data

\* Replacing one erasure request, and what the other ones stay.
LEMMA ErasureUpdate ==
    ASSUME TypeOK, NEW s \in Scopes, NEW k \in Keys, NEW e \in Erasure,
           erasures' = [erasures EXCEPT ![s][k] = e]
    PROVE  /\ erasures' \in [Scopes -> [Keys -> Erasure \cup {None}]]
           /\ erasures'[s][k] = e
           /\ \A t \in Scopes, q \in Keys :
                  t # s \/ q # k => erasures'[t][q] = erasures[t][q]
<1>1. erasures \in [Scopes -> [Keys -> Erasure \cup {None}]] BY DEF TypeOK
<1>2. [erasures[s] EXCEPT ![k] = e] \in [Keys -> Erasure \cup {None}] BY <1>1
<1> QED BY <1>1, <1>2

LEMMA BeginType ==
    ASSUME TypeOK, NEW c \in Clients, NEW s \in Scopes, BeginErasure(c, s)
    PROVE  TypeOK'
<1> DEFINE k == job[c].key
<1>1. UNCHANGED <<clock, grants, data>> BY DEF BeginErasure
<1>2. k \in Keys BY DEF BeginErasure, Exclusive, TypeOK, Jobs
<1>3. CASE Leave(c) /\ UNCHANGED <<fenced, erasures>>
  BY <1>1, <1>3, LeaveEffect DEF TypeOK, data
<1>4. CASE /\ Goto(c, "projection") /\ Unqueue(c) /\ UNCHANGED <<job, holders>>
           /\ fenced' = fenced \cup {s} \/ fenced' = fenced
           /\ \/ erasures' = [erasures EXCEPT ![s][k] = Pending]
              \/ erasures' = erasures
  <2>1. "projection" \in Steps BY DEF Steps
  <2>2. pc' \in [Clients -> Steps] /\ Cardinality(Connected') <= PoolSize
    BY <1>4, <2>1, GotoEffect
  <2>3. ahead' \in [Clients -> SUBSET Clients] BY <1>4, UnqueueType
  <2>4. Pending \in Erasure BY DEF Pending, Erasure
  <2>5. erasures' \in [Scopes -> [Keys -> Erasure \cup {None}]]
    <3>1. CASE erasures' = erasures BY <3>1 DEF TypeOK
    <3>2. CASE erasures' = [erasures EXCEPT ![s][k] = Pending]
      BY <1>2, <2>4, <3>2, ErasureUpdate
    <3> QED BY <1>4, <3>1, <3>2
  <2>6. fenced' \subseteq Scopes BY <1>4 DEF TypeOK
  <2> QED BY <1>1, <1>4, <2>2, <2>3, <2>5, <2>6 DEF TypeOK, data
<1> QED BY <1>3, <1>4 DEF BeginErasure

LEMMA DeleteProjectionType ==
    ASSUME TypeOK, NEW c \in Clients, NEW s \in Scopes, DeleteProjection(c, s)
    PROVE  TypeOK'
<1>1. Goto(c, "store") /\ "store" \in Steps BY DEF DeleteProjection, Steps
<1>2. pc' \in [Clients -> Steps] /\ Cardinality(Connected') <= PoolSize
  BY <1>1, GotoEffect
<1>3. docs' \in [Scopes -> SUBSET Rows] BY DEF DeleteProjection, TypeOK
<1> QED BY <1>2, <1>3 DEF DeleteProjection, TypeOK, control, locks

LEMMA EraserJob ==
    ASSUME TypeOK, NEW c \in Clients, job[c].op = "erase", NEW n \in Nat
    PROVE  /\ job[c].scope \in Scopes /\ job[c].key \in Keys /\ job[c].count \in Nat
           /\ [job[c] EXCEPT !.count = n] \in Jobs
           /\ [job[c] EXCEPT !.count = n].op = "erase"
           /\ [job[c] EXCEPT !.count = n].scope = job[c].scope
           /\ [job[c] EXCEPT !.count = n].key = job[c].key
<1>1. job[c] \in [op : {"erase"}, scope : Scopes, key : Keys, count : Nat]
  BY DEF TypeOK, Jobs
<1> QED BY <1>1 DEF Jobs

LEMMA CountIsNatural ==
    ASSUME TypeOK, NEW s \in Scopes
    PROVE  Cardinality(rows[s]) \in Nat
<1>1. rows[s] \in SUBSET Rows BY DEF TypeOK
<1> QED BY <1>1, FiniteAssumption, FS_Subset, FS_CardinalityType

LEMMA CountRowsType ==
    ASSUME TypeOK, NEW c \in Clients, NEW s \in Scopes, job[c].op = "erase", CountRows(c, s)
    PROVE  TypeOK'
<1>1. Goto(c, "counted") /\ "counted" \in Steps BY DEF CountRows, Steps
<1>2. pc' \in [Clients -> Steps] /\ Cardinality(Connected') <= PoolSize
  BY <1>1, GotoEffect
<1>3. [job[c] EXCEPT !.count = Cardinality(rows[s])] \in Jobs BY CountIsNatural, EraserJob
<1>4. job' \in [Clients -> Jobs] BY <1>3 DEF CountRows, TypeOK
<1> QED BY <1>2, <1>4 DEF CountRows, TypeOK, control, data, locks

LEMMA RowsDeletedType ==
    ASSUME TypeOK, NEW s \in Scopes, RowsDeleted(s)
    PROVE  /\ rows' \in [Scopes -> SUBSET Rows] /\ removed' \in [Scopes -> SUBSET Rows]
           /\ rows'[s] = {} /\ removed'[s] = removed[s] \cup rows[s]
           /\ \A t \in Scopes \ {s} : rows'[t] = rows[t] /\ removed'[t] = removed[t]
<1>1. removed[s] \cup rows[s] \in SUBSET Rows BY DEF TypeOK
<1> QED BY <1>1 DEF RowsDeleted, TypeOK

LEMMA DeleteRowsType ==
    ASSUME TypeOK, NEW c \in Clients, NEW s \in Scopes, DeleteRows(c, s)
    PROVE  TypeOK'
<1>1. Goto(c, "receipt") /\ "receipt" \in Steps BY DEF DeleteRows, Steps
<1>2. pc' \in [Clients -> Steps] /\ Cardinality(Connected') <= PoolSize
  BY <1>1, GotoEffect
<1>3. rows' \in [Scopes -> SUBSET Rows] /\ removed' \in [Scopes -> SUBSET Rows]
  BY RowsDeletedType DEF DeleteRows
<1> QED BY <1>2, <1>3 DEF DeleteRows, TypeOK, control, locks

LEMMA CompleteType ==
    ASSUME TypeOK, NEW c \in Clients, NEW s \in Scopes, CompleteErasure(c, s),
           job[c].op = "erase", erasures[s][job[c].key] # None
    PROVE  TypeOK'
<1> DEFINE k == job[c].key
<1>1. k \in Keys /\ job[c].count \in Nat BY EraserJob
<1>2. erasures[s][k] \in Erasure BY <1>1 DEF TypeOK
<1>3. [erasures[s][k] EXCEPT !.status = "completed", !.error = FALSE,
                             !.summary = job[c].count] \in Erasure
  BY <1>1, <1>2 DEF Erasure
<1>4. erasures' \in [Scopes -> [Keys -> Erasure \cup {None}]]
  <2>1. CASE k \in Completed(s) BY <2>1 DEF CompleteErasure, Receipt, TypeOK
  <2>2. CASE k \notin Completed(s)
    <3>1. erasures' = [erasures EXCEPT ![s][k] =
             [erasures[s][k] EXCEPT !.status = "completed", !.error = FALSE,
                                    !.summary = job[c].count]]
      BY <2>2 DEF CompleteErasure, Receipt
    <3> QED BY <1>1, <1>3, <3>1, ErasureUpdate
  <2> QED BY <2>1, <2>2
<1>5. Leave(c) BY DEF CompleteErasure
<1> QED BY <1>4, <1>5, LeaveEffect DEF CompleteErasure, TypeOK, data

LEMMA HandlerFailsType ==
    ASSUME TypeOK, NEW c \in Clients, NEW s \in Scopes, HandlerFails(c, s),
           job[c].op = "erase", erasures[s][job[c].key] # None
    PROVE  TypeOK'
<1> DEFINE k == job[c].key
<1>1. k \in Keys BY EraserJob
<1>2. erasures[s][k] \in Erasure BY <1>1 DEF TypeOK
<1>3. [erasures[s][k] EXCEPT !.error = TRUE] \in Erasure BY <1>2 DEF Erasure
<1>4. erasures' \in [Scopes -> [Keys -> Erasure \cup {None}]]
  <2>1. CASE k \in Completed(s) BY <2>1 DEF HandlerFails, Failed, TypeOK
  <2>2. CASE k \notin Completed(s)
    <3>1. erasures' = [erasures EXCEPT ![s][k] = [erasures[s][k] EXCEPT !.error = TRUE]]
      BY <2>2 DEF HandlerFails, Failed
    <3> QED BY <1>1, <1>3, <3>1, ErasureUpdate
  <2> QED BY <2>1, <2>2
<1>5. rows' \in [Scopes -> SUBSET Rows] /\ removed' \in [Scopes -> SUBSET Rows]
  <2>1. CASE RowsDeleted(s) BY <2>1, RowsDeletedType
  <2>2. CASE UNCHANGED <<rows, removed>> BY <2>2 DEF TypeOK
  <2> QED BY <2>1, <2>2 DEF HandlerFails, data
<1>6. docs' \in [Scopes -> SUBSET Rows] BY DEF HandlerFails, TypeOK, data
<1>7. Leave(c) BY DEF HandlerFails
<1> QED BY <1>4, <1>5, <1>6, <1>7, LeaveEffect DEF HandlerFails, TypeOK

LEMMA GrantType ==
    ASSUME TypeOK, NEW s \in Scopes,
           \/ \E g \in GrantKeys, from \in Time, until \in 1..MaxTime + 1 :
                  Issue(s, g, from, until)
           \/ \E h \in grants[s] : Revoke(s, h)
    PROVE  TypeOK'
<1>1. grants' \in [Scopes -> SUBSET Grant]
  <2>1. CASE \E g \in GrantKeys, from \in Time, until \in 1..MaxTime + 1 :
                 Issue(s, g, from, until)
    <3>1. PICK g \in GrantKeys, from \in Time, until \in 1..MaxTime + 1 :
              Issue(s, g, from, until)
      BY <2>1
    <3>2. [key |-> g, from |-> from, until |-> until, revoked |-> FALSE] \in Grant
      BY DEF Grant
    <3> QED BY <3>1, <3>2 DEF Issue, TypeOK
  <2>2. CASE \E h \in grants[s] : Revoke(s, h)
    <3>1. PICK h \in grants[s] : Revoke(s, h) BY <2>2
    <3>2. h \in Grant BY DEF TypeOK
    <3>3. [h EXCEPT !.revoked = TRUE] \in Grant BY <3>2 DEF Grant
    <3> QED BY <3>1, <3>3 DEF Revoke, TypeOK
  <2> QED BY <2>1, <2>2
<1>2. UNCHANGED <<clock, fenced, erasures, data, locks, local>> BY DEF Issue, Revoke
<1>3. Connected' = Connected BY <1>2 DEF Connected, local
<1> QED BY <1>1, <1>2, <1>3 DEF TypeOK, data, locks, local


LEMMA CrashType == ASSUME TypeOK, NEW c \in Clients, Crash(c) PROVE TypeOK'
<1>1. Leave(c) BY DEF Crash
<1> QED BY <1>1, LeaveEffect DEF Crash, TypeOK, control, data

LEMMA TickType == ASSUME TypeOK, Tick PROVE TypeOK'
<1>1. clock' \in Time BY TimeAssumption DEF Tick, TypeOK, Time
<1>2. Connected' = Connected BY DEF Tick, Connected, local
<1> QED BY <1>1, <1>2 DEF Tick, TypeOK, control, data, locks, local

LEMMA StutterType == ASSUME TypeOK, UNCHANGED vars PROVE TypeOK'
<1>1. Connected' = Connected BY DEF vars, local, Connected
<1> QED BY <1>1 DEF vars, TypeOK, control, data, locks, local

\* A client in an erasure works on a request it has begun.
LEMMA EraserWorks ==
    ASSUME Inv, NEW c \in Clients, pc[c] \in Erasing
    PROVE  /\ job[c].op = "erase" /\ job[c].scope \in fenced
           /\ erasures[job[c].scope][job[c].key] # None
BY DEF Inv, JobOK

LEMMA TypeStep == ASSUME Inv, [Next]_vars PROVE TypeOK'
<1>1. TypeOK BY DEF Inv
<1>2. ASSUME NEW c \in Clients, NEW s \in Scopes, Advance(c, s) \/ HandlerFails(c, s)
      PROVE  TypeOK'
  <2>1. CASE Gate(c, s) BY <1>1, <2>1, GateType
  <2>2. CASE Process(c, s) BY <1>1, <2>2, ProcessType
  <2>3. CASE Project(c, s) BY <1>1, <2>3, ProjectType
  <2>4. CASE Fence(c, s) BY <1>1, <2>4, FenceType
  <2>5. CASE BeginErasure(c, s) BY <1>1, <2>5, BeginType
  <2>6. CASE DeleteProjection(c, s) BY <1>1, <2>6, DeleteProjectionType
  <2>7. CASE CountRows(c, s)
    <3>1. pc[c] \in Erasing BY <2>7 DEF CountRows, Erasing
    <3> QED BY <1>1, <2>7, <3>1, EraserWorks, CountRowsType
  <2>10. CASE DeleteRows(c, s) BY <1>1, <2>10, DeleteRowsType
  <2>8. CASE CompleteErasure(c, s)
    <3>1. pc[c] \in Erasing /\ job[c].scope = s BY <2>8 DEF CompleteErasure, Erasing
    <3> QED BY <1>1, <2>8, <3>1, EraserWorks, CompleteType
  <2>9. CASE HandlerFails(c, s)
    <3>1. pc[c] \in Erasing /\ job[c].scope = s BY <2>9 DEF HandlerFails, Erasing
    <3> QED BY <1>1, <2>9, <3>1, EraserWorks, HandlerFailsType
  <2> QED
    BY <1>2, <2>1, <2>2, <2>3, <2>4, <2>5, <2>6, <2>7, <2>8, <2>9, <2>10 DEF Advance
<1>3. ASSUME NEW c \in Clients, Arrive(c) \/ Connect(c) \/ Crash(c) PROVE TypeOK'
  BY <1>1, <1>3, ArriveType, ConnectType, CrashType
<1>4. CASE \E s \in Scopes, g \in GrantKeys, from \in Time, until \in 1..MaxTime + 1 :
               Issue(s, g, from, until)
  BY <1>1, <1>4, GrantType
<1>5. CASE \E s \in Scopes : \E h \in grants[s] : Revoke(s, h)
  BY <1>1, <1>5, GrantType
<1>6. CASE Tick BY <1>1, <1>6, TickType
<1>7. CASE UNCHANGED vars BY <1>1, <1>7, StutterType
<1> QED BY <1>2, <1>3, <1>4, <1>5, <1>6, <1>7 DEF Next


-----------------------------------------------------------------------------
(* Suppression and erasure. *)

\* What holds of a client holds after a step of another one.
LEMMA OthersKeep ==
    ASSUME Inv, NEW c \in Clients, Others(c), Monotone,
           \A s \in Scopes : holders[s] \ {c} \subseteq holders'[s]
    PROVE  \A d \in Clients \ {c} : JobOK(d)'
<1> TAKE d \in Clients \ {c}
<1>1. pc'[d] = pc[d] /\ job'[d] = job[d] BY DEF Others
<1>2. JobOK(d) /\ TypeOK BY DEF Inv
<1>3. CASE job[d].op = "none"
  <2>1. pc[d] = "idle" BY <1>2, <1>3 DEF JobOK
  <2> QED BY <1>1, <1>3, <2>1 DEF JobOK, Erasing
<1>4. CASE job[d].op # "none"
  <2>1. job[d].scope \in Scopes BY <1>2, <1>4 DEF TypeOK, Jobs
  <2>2. pc'[d] = "working" => job'[d].op \in Shared /\ d \in holders'[job'[d].scope]
    BY <1>1, <1>2, <2>1 DEF JobOK
  <2>3. pc[d] \in Erasing => job[d].key \in Keys
    BY <1>2, EraserJob DEF JobOK
  <2>4. pc'[d] \in Erasing => /\ job'[d].op = "erase" /\ job'[d].scope \in fenced'
                             /\ erasures'[job'[d].scope][job'[d].key] # None
    BY <1>1, <1>2, <2>1, <2>3 DEF JobOK, Monotone
  <2>5. pc'[d] \in Erasing \ {"projection"} => docs'[job'[d].scope] = {}
    BY <1>1, <1>2 DEF JobOK, Monotone, Erasing
  <2>6. pc'[d] \in {"receipt", "completing"} => rows'[job'[d].scope] = {}
    BY <1>1, <1>2 DEF JobOK, Monotone, Erasing
  <2>7. job'[d].op = "project" => \/ job'[d].row \in rows'[job'[d].scope]
                                  \/ job'[d].scope \in fenced'
    BY <1>1, <1>2, <2>1 DEF JobOK, Monotone
  <2> QED BY <1>1, <1>4, <2>2, <2>4, <2>5, <2>6, <2>7 DEF JobOK
<1> QED BY <1>3, <1>4

\* Every step that ends a call, given what it does to the tables.
LEMMA LeaveKeeps ==
    ASSUME Inv, NEW c \in Clients, Leave(c), Monotone,
           \A t \in fenced' : t \in fenced \/ (t \in Scopes /\ holders[t] = {}),
           \A t \in Scopes, k \in Keys : erasures'[t][k] # None => t \in fenced'
    PROVE  (\A d \in Clients : JobOK(d)') /\ FenceOK'
<1>1. TypeOK /\ FenceOK BY DEF Inv
<1>2. /\ pc'[c] = "idle" /\ job'[c] = Idle
      /\ Others(c)
      /\ \A s \in Scopes : holders'[s] = holders[s] \ {c}
      /\ holders' \in [Scopes -> SUBSET Clients]
  BY <1>1, LeaveEffect
<1>3. \A d \in Clients \ {c} : JobOK(d)' BY <1>2, OthersKeep
<1>4. JobOK(c)' BY <1>2 DEF JobOK, Idle, Erasing
<1>5. \A s \in Scopes : \A d \in holders'[s] : pc'[d] = "working" /\ job'[d].scope = s
  BY <1>1, <1>2 DEF FenceOK, Others
<1>6. \A s \in fenced' : holders'[s] = {}
  BY <1>1, <1>2 DEF FenceOK, TypeOK
<1> QED BY <1>3, <1>4, <1>5, <1>6 DEF FenceOK

LEMMA StartKeeps ==
    ASSUME Inv, NEW c \in Clients, NEW new \in Jobs, new.op # "none", Start(c, new),
           new.op = "project" => new.row \in rows[new.scope]
    PROVE  Monotone /\ Inv'
<1>1. TypeOK /\ TypeOK' BY StartType DEF Inv
<1>2. UNCHANGED <<clock, control, data, locks>> BY DEF Start
<1>3. Monotone BY <1>2 DEF Monotone, control, data
<1>4. Others(c) /\ pc'[c] = "queued" /\ job'[c] = new /\ pc[c] = "idle"
  BY <1>1 DEF Start, Goto, Others, TypeOK
<1>5. \A d \in Clients \ {c} : JobOK(d)' BY <1>2, <1>3, <1>4, OthersKeep DEF locks
<1>6. JobOK(c)' BY <1>2, <1>4 DEF JobOK, Erasing, data
<1>7. FenceOK'
  BY <1>1, <1>2, <1>4 DEF Inv, FenceOK, Others, TypeOK, control, locks
<1>8. IndexFollowsStore' /\ EmptyOK'
  BY <1>2 DEF Inv, IndexFollowsStore, EmptyOK, Completed, control, data
<1> QED BY <1>1, <1>3, <1>5, <1>6, <1>7, <1>8 DEF Inv

LEMMA ArriveKeeps ==
    ASSUME Inv, NEW c \in Clients, Arrive(c)
    PROVE  Monotone /\ Inv'
<1>1. PICK s \in Scopes : \/ Request(c, s)
                          \/ \E r \in Rows : Load(c, s, r)
                          \/ Suppress(c, s)
                          \/ \E k \in Keys : Erase(c, s, k)
  BY DEF Arrive
<1>2. TypeOK BY DEF Inv
<1>3. CASE Request(c, s)
  <2>1. [op |-> "process", scope |-> s, at |-> clock] \in Jobs BY <1>2 DEF TypeOK, Jobs
  <2> QED BY <1>3, <2>1, StartKeeps DEF Request
<1>4. CASE \E r \in Rows : Load(c, s, r)
  <2>1. PICK r \in Rows : Load(c, s, r) BY <1>4
  <2>2. [op |-> "project", scope |-> s, row |-> r] \in Jobs BY DEF Jobs
  <2> QED BY <2>1, <2>2, StartKeeps DEF Load
<1>5. CASE Suppress(c, s)
  <2>1. [op |-> "suppress", scope |-> s] \in Jobs BY DEF Jobs
  <2> QED BY <1>5, <2>1, StartKeeps DEF Suppress
<1>6. CASE \E k \in Keys : Erase(c, s, k)
  <2>1. PICK k \in Keys : Erase(c, s, k) BY <1>6
  <2>2. [op |-> "erase", scope |-> s, key |-> k, count |-> 0] \in Jobs BY DEF Jobs
  <2> QED BY <2>1, <2>2, StartKeeps DEF Erase
<1> QED BY <1>1, <1>3, <1>4, <1>5, <1>6


\* A step that leaves the tables alone.
LEMMA TablesKeep ==
    ASSUME Inv, UNCHANGED <<control, data>>
    PROVE  /\ Monotone /\ IndexFollowsStore' /\ EmptyOK'
           /\ \A t \in fenced' : t \in fenced
           /\ \A t \in Scopes, k \in Keys : erasures'[t][k] # None => t \in fenced'
<1>1. /\ fenced' = fenced /\ erasures' = erasures
      /\ rows' = rows /\ docs' = docs
  BY DEF control, data
<1>2. Monotone BY <1>1 DEF Monotone
<1>3. IndexFollowsStore' /\ EmptyOK'
  BY <1>1 DEF Inv, IndexFollowsStore, EmptyOK, Completed
<1> QED BY <1>1, <1>2, <1>3 DEF Inv, FenceOK

\* A call that ends without touching the tables.
LEMMA QuitKeeps ==
    ASSUME Inv, TypeOK', NEW c \in Clients, Leave(c), UNCHANGED <<control, data>>
    PROVE  Monotone /\ Inv'
<1>1. /\ Monotone /\ IndexFollowsStore' /\ EmptyOK'
      /\ \A t \in fenced' : t \in fenced
      /\ \A t \in Scopes, k \in Keys : erasures'[t][k] # None => t \in fenced'
  BY TablesKeep
<1>2. (\A d \in Clients : JobOK(d)') /\ FenceOK' BY <1>1, LeaveKeeps
<1> QED BY <1>1, <1>2 DEF Inv

LEMMA ConnectKeeps ==
    ASSUME Inv, TypeOK', NEW c \in Clients, Connect(c)
    PROVE  Monotone /\ Inv'
<1>1. TypeOK BY DEF Inv
<1>2. UNCHANGED <<control, data>> /\ holders' = holders /\ job' = job
  BY DEF Connect
<1>3. Monotone /\ IndexFollowsStore' /\ EmptyOK' BY <1>2, TablesKeep
<1>4. /\ Others(c)
      /\ \/ pc[c] = "queued" /\ pc'[c] = "waiting"
         \/ pc[c] = "receipt" /\ pc'[c] = "completing"
  BY <1>1, <1>2 DEF Connect, Goto, Others, TypeOK
<1>5. \A d \in Clients \ {c} : JobOK(d)' BY <1>2, <1>3, <1>4, OthersKeep
<1>6. JobOK(c) BY DEF Inv
<1>7. JobOK(c)' BY <1>2, <1>4, <1>6 DEF JobOK, Erasing, control, data
<1>8. \A s \in Scopes : \A d \in holders[s] : d # c BY <1>4 DEF Inv, FenceOK
<1>9. FenceOK'
  BY <1>1, <1>2, <1>4, <1>8 DEF Inv, FenceOK, Others, TypeOK, control
<1> QED BY <1>3, <1>5, <1>7, <1>9 DEF Inv

LEMMA GateKeeps ==
    ASSUME Inv, TypeOK', NEW c \in Clients, NEW s \in Scopes, Gate(c, s)
    PROVE  Monotone /\ Inv'
<1>1. TypeOK BY DEF Inv
<1>2. UNCHANGED <<control, data>> BY DEF Gate
<1>3. Monotone /\ IndexFollowsStore' /\ EmptyOK' BY <1>2, TablesKeep
<1>4. CASE Leave(c) BY <1>2, <1>4, QuitKeeps
<1>5. CASE /\ ~Refused(c, s)
           /\ Goto(c, "working") /\ UNCHANGED job
           /\ holders' = [holders EXCEPT ![s] = @ \cup {c}]
  <2>1. job[c].op \in Shared /\ job[c].scope = s BY DEF Gate
  <2>2. s \notin fenced BY <1>5 DEF Refused
  <2>3. Others(c) /\ pc'[c] = "working" /\ job'[c] = job[c]
    BY <1>1, <1>5 DEF Goto, Others, TypeOK
  <2>4. /\ holders'[s] = holders[s] \cup {c}
        /\ \A t \in Scopes \ {s} : holders'[t] = holders[t]
    BY <1>1, <1>5 DEF TypeOK
  <2>5. \A d \in Clients \ {c} : JobOK(d)'
    BY <1>3, <2>3, <2>4, OthersKeep
  <2>6. JobOK(c) BY DEF Inv
  <2>7. JobOK(c)' BY <1>2, <2>1, <2>3, <2>4, <2>6 DEF JobOK, Erasing, Shared, control, data
  <2>8. ASSUME NEW t \in Scopes, NEW d \in holders'[t]
        PROVE  pc'[d] = "working" /\ job'[d].scope = t
    <3>1. d \in Clients BY <2>8 DEF TypeOK
    <3>2. CASE d = c
      <4>1. t # s => c \in holders[t] BY <2>4, <2>8, <3>2
      <4>2. c \notin holders[t] BY DEF Gate, Inv, FenceOK
      <4> QED BY <2>1, <2>3, <3>2, <4>1, <4>2
    <3>3. CASE d # c
      <4>1. d \in holders[t] BY <2>4, <2>8, <3>3
      <4> QED BY <2>3, <3>1, <3>3, <4>1 DEF Inv, FenceOK, Others
    <3> QED BY <3>2, <3>3
  <2>9. \A t \in fenced' : holders'[t] = {}
    BY <1>1, <1>2, <2>2, <2>4 DEF Inv, FenceOK, TypeOK, control
  <2>10. FenceOK' BY <1>2, <2>8, <2>9 DEF Inv, FenceOK, control
  <2> QED BY <1>3, <2>5, <2>7, <2>10 DEF Inv
<1> QED BY <1>4, <1>5 DEF Gate

\* A working client's scope is open.
LEMMA WorkingOpen ==
    ASSUME Inv, NEW c \in Clients, pc[c] = "working"
    PROVE  /\ job[c].scope \notin fenced
           /\ Completed(job[c].scope) = {} \/ job[c].scope \notin Scopes
<1>1. JobOK(c) BY DEF Inv
<1>2. c \in holders[job[c].scope] BY <1>1 DEF JobOK
<1>3. job[c].scope \notin fenced BY <1>2 DEF Inv, FenceOK
<1> QED BY <1>3 DEF Inv, FenceOK, Completed

LEMMA ProcessKeeps ==
    ASSUME Inv, TypeOK', NEW c \in Clients, NEW s \in Scopes, Process(c, s)
    PROVE  Monotone /\ Inv'
<1>1. TypeOK BY DEF Inv
<1>2. s \notin fenced /\ Completed(s) = {} BY WorkingOpen DEF Process
<1>3. /\ fenced' = fenced /\ erasures' = erasures /\ docs' = docs
      /\ rows[s] \subseteq rows'[s]
      /\ \A t \in Scopes \ {s} : rows'[t] = rows[t]
  BY <1>1 DEF Process, control, TypeOK
<1>4. fenced \subseteq Scopes BY <1>1 DEF TypeOK
<1>5. Monotone BY <1>2, <1>3, <1>4 DEF Monotone
<1>6. Leave(c) BY DEF Process
<1>7. (\A d \in Clients : JobOK(d)') /\ FenceOK'
  BY <1>3, <1>5, <1>6, LeaveKeeps DEF Inv, FenceOK
<1>8. IndexFollowsStore' BY <1>3 DEF Inv, IndexFollowsStore
<1>9. EmptyOK' BY <1>2, <1>3 DEF Inv, EmptyOK, Completed
<1> QED BY <1>5, <1>7, <1>8, <1>9 DEF Inv

LEMMA ProjectKeeps ==
    ASSUME Inv, TypeOK', NEW c \in Clients, NEW s \in Scopes, Project(c, s)
    PROVE  Monotone /\ Inv'
<1>1. TypeOK BY DEF Inv
<1>2. s \notin fenced BY WorkingOpen DEF Project
<1>3. job[c].row \in rows[s] BY <1>2 DEF Project, Inv, JobOK
<1>4. /\ fenced' = fenced /\ erasures' = erasures /\ rows' = rows
      /\ docs'[s] \subseteq docs[s] \cup {job[c].row}
      /\ \A t \in Scopes \ {s} : docs'[t] = docs[t]
  BY <1>1 DEF Project, control, TypeOK
<1>5. fenced \subseteq Scopes BY <1>1 DEF TypeOK
<1>6. Monotone BY <1>2, <1>4, <1>5 DEF Monotone
<1>7. Leave(c) BY DEF Project
<1>8. (\A d \in Clients : JobOK(d)') /\ FenceOK'
  BY <1>4, <1>6, <1>7, LeaveKeeps DEF Inv, FenceOK
<1>9. IndexFollowsStore' BY <1>3, <1>4 DEF Inv, IndexFollowsStore
<1>10. EmptyOK' BY <1>4 DEF Inv, EmptyOK, Completed
<1> QED BY <1>6, <1>8, <1>9, <1>10 DEF Inv


LEMMA FenceKeeps ==
    ASSUME Inv, TypeOK', NEW c \in Clients, NEW s \in Scopes, Fence(c, s)
    PROVE  Monotone /\ Inv'
<1>1. /\ fenced' = fenced \cup {s} /\ holders[s] = {} /\ Leave(c)
      /\ erasures' = erasures /\ rows' = rows /\ docs' = docs
  BY DEF Fence, Exclusive, data
<1>2. Monotone BY <1>1 DEF Monotone
<1>3. (\A d \in Clients : JobOK(d)') /\ FenceOK'
  BY <1>1, <1>2, LeaveKeeps DEF Inv, FenceOK
<1>4. IndexFollowsStore' /\ EmptyOK'
  BY <1>1 DEF Inv, IndexFollowsStore, EmptyOK, Completed
<1> QED BY <1>2, <1>3, <1>4 DEF Inv

\* A step that moves client c, and no lock holder, on to an erasing step.
LEMMA MoveKeeps ==
    ASSUME Inv, TypeOK', NEW c \in Clients, Monotone,
           NEW step \in Erasing, Goto(c, step),
           pc[c] # "working", holders' = holders, Others(c),
           \A t \in fenced' : t \in fenced \/ holders[t] = {},
           \A t \in Scopes, k \in Keys : erasures'[t][k] # None => t \in fenced'
    PROVE  (\A d \in Clients \ {c} : JobOK(d)') /\ FenceOK'
<1>1. TypeOK BY DEF Inv
<1>2. \A d \in Clients \ {c} : JobOK(d)' BY OthersKeep
<1>3. ASSUME NEW t \in Scopes, NEW d \in holders'[t]
      PROVE  pc'[d] = "working" /\ job'[d].scope = t
  <2>1. d \in holders[t] /\ d \in Clients BY <1>1, <1>3 DEF TypeOK
  <2>2. pc[d] = "working" /\ job[d].scope = t BY <2>1 DEF Inv, FenceOK
  <2> QED BY <2>1, <2>2 DEF Others
<1>4. \A t \in fenced' : holders'[t] = {} BY DEF Inv, FenceOK
<1> QED BY <1>2, <1>3, <1>4 DEF FenceOK

LEMMA BeginKeeps ==
    ASSUME Inv, TypeOK', NEW c \in Clients, NEW s \in Scopes, BeginErasure(c, s)
    PROVE  Monotone /\ Inv' /\ \A t \in Scopes : Completed(t)' = Completed(t)
<1> DEFINE k == job[c].key
<1>1. TypeOK /\ FenceOK BY DEF Inv
<1>2. /\ UNCHANGED data /\ pc[c] = "waiting" /\ holders[s] = {}
      /\ job[c].op = "erase" /\ job[c].scope = s
  BY DEF BeginErasure, Exclusive
<1>3. k \in Keys BY <1>1, <1>2, EraserJob
<1>4. CASE Leave(c) /\ UNCHANGED <<fenced, erasures>>
  <2>1. UNCHANGED <<control, data>> BY <1>4 DEF BeginErasure, control
  <2>2. \A t \in Scopes : Completed(t)' = Completed(t) BY <1>4 DEF Completed
  <2> QED BY <2>1, <2>2, <1>4, QuitKeeps
<1>5. CASE /\ Goto(c, "projection") /\ UNCHANGED <<job, holders>>
           /\ \/ /\ erasures[s][k] = None /\ fenced' = fenced \cup {s}
                 /\ erasures' = [erasures EXCEPT ![s][k] = Pending]
              \/ erasures[s][k] # None /\ UNCHANGED <<fenced, erasures>>
  <2>1. Pending \in Erasure /\ Pending.status = "pending" BY DEF Pending, Erasure
  <2>2. /\ s \in fenced' /\ erasures'[s][k] # None
        /\ \A t \in fenced' : t \in fenced \/ t = s
    <3>1. CASE erasures[s][k] # None /\ UNCHANGED <<fenced, erasures>>
      BY <1>1, <1>3, <3>1 DEF FenceOK
    <3>2. CASE /\ fenced' = fenced \cup {s}
               /\ erasures' = [erasures EXCEPT ![s][k] = Pending]
      <4>1. erasures'[s][k] = Pending BY <1>1, <1>3, <2>1, <3>2, ErasureUpdate
      <4> QED BY <2>1, <3>2, <4>1, NoneAssumption
    <3> QED BY <1>5, <3>1, <3>2
  <2>3. \A t \in Scopes, q \in Keys : \/ erasures'[t][q] = erasures[t][q]
                                      \/ t = s /\ q = k
    BY <1>1, <1>3, <1>5, <2>1, ErasureUpdate
  <2>4. erasures'[s][k] = erasures[s][k] \/ (erasures[s][k] = None /\ erasures'[s][k] = Pending)
    BY <1>1, <1>3, <1>5, <2>1, ErasureUpdate
  <2>5. Monotone BY <1>2, <1>5, <2>2, <2>3 DEF Monotone, data
  <2>6. \A t \in Scopes, q \in Keys : erasures'[t][q] # None => t \in fenced'
    BY <1>1, <1>5, <2>2, <2>3 DEF FenceOK
  <2>7. Others(c) /\ pc'[c] = "projection" /\ job'[c] = job[c]
    BY <1>1, <1>5 DEF Goto, Others, TypeOK
  <2>8. (\A d \in Clients \ {c} : JobOK(d)') /\ FenceOK'
    BY <1>2, <1>5, <2>2, <2>5, <2>6, <2>7, MoveKeeps DEF Erasing
  <2>9. JobOK(c)' BY <1>2, <2>2, <2>7 DEF JobOK, Erasing
  <2>10. \A t \in Scopes : Completed(t)' = Completed(t)
    BY <2>1, <2>3, <2>4, NoneAssumption DEF Completed
  <2>11. IndexFollowsStore' /\ EmptyOK'
    BY <1>2, <2>10 DEF Inv, IndexFollowsStore, EmptyOK, data
  <2> QED BY <2>5, <2>8, <2>9, <2>10, <2>11 DEF Inv
<1> QED BY <1>4, <1>5 DEF BeginErasure

LEMMA DeleteProjectionKeeps ==
    ASSUME Inv, TypeOK', NEW c \in Clients, NEW s \in Scopes, DeleteProjection(c, s)
    PROVE  Monotone /\ Inv'
<1>1. TypeOK BY DEF Inv
<1>2. /\ pc[c] = "projection" /\ job[c].scope = s /\ Goto(c, "store")
      /\ UNCHANGED <<control, rows, holders, job>>
      /\ docs'[s] = {} /\ \A t \in Scopes \ {s} : docs'[t] = docs[t]
  BY <1>1 DEF DeleteProjection, locks, TypeOK
<1>3. job[c].op = "erase" /\ s \in fenced /\ erasures[s][job[c].key] # None
  BY <1>2, EraserWorks DEF Erasing
<1>4. fenced \subseteq Scopes BY <1>1 DEF TypeOK
<1>5. Monotone BY <1>2, <1>4 DEF Monotone, control
<1>6. Others(c) /\ pc'[c] = "store" /\ job'[c] = job[c]
  BY <1>1, <1>2 DEF Goto, Others, TypeOK
<1>7. (\A d \in Clients \ {c} : JobOK(d)') /\ FenceOK'
  BY <1>2, <1>5, <1>6, MoveKeeps DEF Erasing, control, Inv, FenceOK
<1>8. JobOK(c)' BY <1>2, <1>3, <1>6 DEF JobOK, Erasing, control
<1>9. IndexFollowsStore' /\ EmptyOK'
  BY <1>2 DEF Inv, IndexFollowsStore, EmptyOK, Completed, control
<1> QED BY <1>5, <1>7, <1>8, <1>9 DEF Inv

LEMMA CountRowsKeeps ==
    ASSUME Inv, TypeOK', NEW c \in Clients, NEW s \in Scopes, CountRows(c, s)
    PROVE  Monotone /\ Inv'
<1>1. TypeOK BY DEF Inv
<1>2. /\ pc[c] = "store" /\ job[c].scope = s /\ Goto(c, "counted")
      /\ UNCHANGED <<control, data>> /\ holders' = holders
  BY DEF CountRows, locks
<1>3. job[c].op = "erase" /\ s \in fenced /\ erasures[s][job[c].key] # None /\ docs[s] = {}
  BY <1>2 DEF Inv, JobOK, Erasing
<1>4. Monotone /\ IndexFollowsStore' /\ EmptyOK' BY <1>2, TablesKeep
<1>5. /\ Others(c) /\ pc'[c] = "counted"
      /\ job'[c] = [job[c] EXCEPT !.count = Cardinality(rows[s])]
  BY <1>1 DEF CountRows, Goto, Others, TypeOK
<1>6. job'[c].op = "erase" /\ job'[c].scope = s /\ job'[c].key = job[c].key
  BY <1>1, <1>2, <1>3, <1>5, EraserJob, CountIsNatural
<1>7. (\A d \in Clients \ {c} : JobOK(d)') /\ FenceOK'
  BY <1>2, <1>4, <1>5, MoveKeeps DEF Erasing, control, Inv, FenceOK
<1>8. JobOK(c)' BY <1>2, <1>3, <1>5, <1>6 DEF JobOK, Erasing, control, data
<1> QED BY <1>4, <1>7, <1>8 DEF Inv

LEMMA DeleteRowsKeeps ==
    ASSUME Inv, TypeOK', NEW c \in Clients, NEW s \in Scopes, DeleteRows(c, s)
    PROVE  Monotone /\ Inv'
<1>1. TypeOK BY DEF Inv
<1>2. /\ pc[c] = "counted" /\ job[c].scope = s /\ Goto(c, "receipt")
      /\ UNCHANGED <<control, docs, holders, job>>
      /\ rows'[s] = {} /\ \A t \in Scopes \ {s} : rows'[t] = rows[t]
  BY <1>1, RowsDeletedType DEF DeleteRows, locks
<1>3. job[c].op = "erase" /\ s \in fenced /\ erasures[s][job[c].key] # None
  BY <1>2, EraserWorks DEF Erasing
<1>4. docs[s] = {} BY <1>2 DEF Inv, JobOK, Erasing
<1>5. fenced \subseteq Scopes BY <1>1 DEF TypeOK
<1>6. Monotone BY <1>2, <1>3, <1>5 DEF Monotone, control
<1>7. Others(c) /\ pc'[c] = "receipt" /\ job'[c] = job[c]
  BY <1>1, <1>2 DEF Goto, Others, TypeOK
<1>8. (\A d \in Clients \ {c} : JobOK(d)') /\ FenceOK'
  BY <1>2, <1>6, <1>7, MoveKeeps DEF Erasing, control, Inv, FenceOK
<1>9. JobOK(c)' BY <1>2, <1>3, <1>4, <1>7 DEF JobOK, Erasing, control
<1>10. IndexFollowsStore' BY <1>2, <1>4 DEF Inv, IndexFollowsStore
<1>11. EmptyOK' BY <1>2 DEF Inv, EmptyOK, Completed, control
<1> QED BY <1>6, <1>8, <1>9, <1>10, <1>11 DEF Inv


\* What a step does to completed receipts.
Final == \A s \in Scopes : \A k \in Completed(s) : erasures'[s][k] = erasures[s][k]

LEMMA CompleteKeeps ==
    ASSUME Inv, TypeOK', NEW c \in Clients, NEW s \in Scopes, CompleteErasure(c, s)
    PROVE  Monotone /\ Inv' /\ Final
<1> DEFINE k == job[c].key
<1>1. TypeOK BY DEF Inv
<1>2. /\ pc[c] = "completing" /\ job[c].scope = s /\ Leave(c) /\ Receipt(c, s)
      /\ fenced' = fenced /\ rows' = rows /\ docs' = docs
  BY DEF CompleteErasure, data
<1>3. /\ s \in fenced /\ k \in Keys /\ job[c].count \in Nat /\ erasures[s][k] # None
  BY <1>1, <1>2, EraserWorks, EraserJob DEF Erasing
<1>4. rows[s] = {} BY <1>2 DEF Inv, JobOK
<1>5. /\ k \in Completed(s) => erasures' = erasures
      /\ erasures'[s][k] # None
      /\ \A t \in Scopes, q \in Keys : \/ erasures'[t][q] = erasures[t][q]
                                       \/ t = s /\ q = k
  <2>1. CASE k \in Completed(s) BY <1>2, <1>3, <2>1 DEF Receipt
  <2>2. CASE k \notin Completed(s)
    <3> DEFINE e == [erasures[s][k] EXCEPT !.status = "completed", !.error = FALSE,
                                           !.summary = job[c].count]
    <3>1. erasures' = [erasures EXCEPT ![s][k] = e] BY <1>2, <2>2 DEF Receipt
    <3>2. erasures[s][k] \in Erasure BY <1>1, <1>3 DEF TypeOK
    <3>3. e \in Erasure BY <1>3, <3>2 DEF Erasure
    <3> HIDE DEF e
    <3>4. erasures'[s][k] = e
      BY <1>1, <1>3, <3>1, <3>3, ErasureUpdate
    <3>5. \A t \in Scopes, q \in Keys : t # s \/ q # k => erasures'[t][q] = erasures[t][q]
      BY <1>1, <1>3, <3>1, <3>3, ErasureUpdate
    <3> QED BY <2>2, <3>3, <3>4, <3>5, NoneAssumption
  <2> QED BY <2>1, <2>2
<1>6. Monotone BY <1>2, <1>5 DEF Monotone
<1>7. \A t \in Scopes, q \in Keys : erasures'[t][q] # None => t \in fenced'
  BY <1>2, <1>3, <1>5 DEF Inv, FenceOK
<1>8. (\A d \in Clients : JobOK(d)') /\ FenceOK' BY <1>2, <1>6, <1>7, LeaveKeeps
<1>9. IndexFollowsStore' BY <1>2 DEF Inv, IndexFollowsStore
<1>10. EmptyOK' BY <1>2, <1>4, <1>5 DEF Inv, EmptyOK, Completed
<1>11. Final BY <1>5 DEF Final, Completed
<1> QED BY <1>6, <1>8, <1>9, <1>10, <1>11 DEF Inv

LEMMA HandlerFailsKeeps ==
    ASSUME Inv, TypeOK', NEW c \in Clients, NEW s \in Scopes, HandlerFails(c, s)
    PROVE  /\ Monotone /\ Inv' /\ Final
           /\ \A t \in Scopes : Completed(t)' = Completed(t)
<1> DEFINE k == job[c].key
<1>1. TypeOK BY DEF Inv
<1>2. /\ pc[c] \in Erasing /\ job[c].scope = s /\ Leave(c) /\ Failed(c, s)
      /\ fenced' = fenced
  BY DEF HandlerFails, Erasing
<1>3. /\ s \in fenced /\ k \in Keys /\ erasures[s][k] # None
  BY <1>1, <1>2, EraserWorks, EraserJob DEF Erasing
<1>4. /\ \A t \in Scopes : rows'[t] \subseteq rows[t] /\ docs'[t] \subseteq docs[t]
      /\ \A t \in Scopes \ {s} : rows'[t] = rows[t]
      /\ rows'[s] = rows[s] \/ (rows'[s] = {} /\ docs'[s] = {})
  <2>1. CASE pc[c] = "projection" BY <1>1, <2>1 DEF HandlerFails, TypeOK
  <2>2. CASE pc[c] = "counted" /\ RowsDeleted(s) /\ UNCHANGED docs
    <3>1. docs[s] = {} BY <1>2, <2>2 DEF Inv, JobOK, Erasing
    <3> QED BY <1>1, <2>2, <3>1, RowsDeletedType
  <2>3. CASE UNCHANGED data BY <2>3 DEF data
  <2> QED BY <2>1, <2>2, <2>3 DEF HandlerFails
<1>5. erasures[s][k] \in Erasure BY <1>1, <1>3 DEF TypeOK
<1> DEFINE e == [erasures[s][k] EXCEPT !.error = TRUE]
<1>6. e \in Erasure /\ e.status = erasures[s][k].status BY <1>5 DEF Erasure
<1>7. \/ erasures' = erasures
      \/ k \notin Completed(s) /\ erasures' = [erasures EXCEPT ![s][k] = e]
  BY <1>2 DEF Failed
<1> HIDE DEF e
<1>8. /\ erasures'[s][k] # None
      /\ erasures'[s][k].status = erasures[s][k].status
      /\ k \in Completed(s) => erasures' = erasures
      /\ \A t \in Scopes, q \in Keys : \/ erasures'[t][q] = erasures[t][q]
                                       \/ t = s /\ q = k
  <2>1. CASE erasures' = erasures BY <1>3, <2>1
  <2>2. CASE k \notin Completed(s) /\ erasures' = [erasures EXCEPT ![s][k] = e]
    <3>1. erasures'[s][k] = e BY <1>1, <1>3, <1>6, <2>2, ErasureUpdate
    <3>2. \A t \in Scopes, q \in Keys : t # s \/ q # k => erasures'[t][q] = erasures[t][q]
      BY <1>1, <1>3, <1>6, <2>2, ErasureUpdate
    <3> QED BY <1>6, <2>2, <3>1, <3>2, NoneAssumption
  <2> QED BY <1>7, <2>1, <2>2
<1>9. fenced \subseteq Scopes BY <1>1 DEF TypeOK
<1>10. Monotone BY <1>2, <1>3, <1>4, <1>8, <1>9 DEF Monotone
<1>11. \A t \in Scopes, q \in Keys : erasures'[t][q] # None => t \in fenced'
  BY <1>2, <1>3, <1>8 DEF Inv, FenceOK
<1>12. (\A d \in Clients : JobOK(d)') /\ FenceOK' BY <1>2, <1>10, <1>11, LeaveKeeps
<1>13. IndexFollowsStore'
  BY <1>4 DEF Inv, IndexFollowsStore
<1>14. \A t \in Scopes : Completed(t)' = Completed(t) BY <1>3, <1>8 DEF Completed
<1>15. EmptyOK' BY <1>4, <1>14 DEF Inv, EmptyOK
<1>16. Final BY <1>8 DEF Final, Completed
<1> QED BY <1>10, <1>12, <1>13, <1>14, <1>15, <1>16 DEF Inv

LEMMA BeginFinal ==
    ASSUME Inv, NEW c \in Clients, NEW s \in Scopes, BeginErasure(c, s)
    PROVE  Final
<1> DEFINE k == job[c].key
<1>1. TypeOK BY DEF Inv
<1>2. k \in Keys BY <1>1, EraserJob DEF BeginErasure, Exclusive
<1>3. Pending \in Erasure BY DEF Pending, Erasure
<1>4. CASE erasures' = erasures BY <1>4 DEF Final
<1>5. CASE erasures[s][k] = None /\ erasures' = [erasures EXCEPT ![s][k] = Pending]
  BY <1>1, <1>2, <1>3, <1>5, ErasureUpdate DEF Final, Completed
<1> QED BY <1>4, <1>5 DEF BeginErasure

LEMMA Step ==
    ASSUME Inv, [Next]_vars
    PROVE  Monotone /\ Inv' /\ Final
<1>1. TypeOK' BY TypeStep
<1>2. ASSUME erasures' = erasures PROVE Final BY <1>2 DEF Final
<1>3. ASSUME NEW c \in Clients, NEW s \in Scopes, Advance(c, s) \/ HandlerFails(c, s)
      PROVE  Monotone /\ Inv' /\ Final
  <2>1. CASE Gate(c, s) BY <1>1, <1>2, <2>1, GateKeeps DEF Gate, control
  <2>2. CASE Process(c, s) BY <1>1, <1>2, <2>2, ProcessKeeps DEF Process, control
  <2>3. CASE Project(c, s) BY <1>1, <1>2, <2>3, ProjectKeeps DEF Project, control
  <2>4. CASE Fence(c, s) BY <1>1, <1>2, <2>4, FenceKeeps DEF Fence
  <2>5. CASE BeginErasure(c, s) BY <1>1, <2>5, BeginKeeps, BeginFinal
  <2>6. CASE DeleteProjection(c, s)
    BY <1>1, <1>2, <2>6, DeleteProjectionKeeps DEF DeleteProjection, control
  <2>7. CASE CountRows(c, s) BY <1>1, <1>2, <2>7, CountRowsKeeps DEF CountRows, control
  <2>10. CASE DeleteRows(c, s) BY <1>1, <1>2, <2>10, DeleteRowsKeeps DEF DeleteRows, control
  <2>8. CASE CompleteErasure(c, s) BY <1>1, <2>8, CompleteKeeps
  <2>9. CASE HandlerFails(c, s) BY <1>1, <2>9, HandlerFailsKeeps
  <2> QED
    BY <1>3, <2>1, <2>2, <2>3, <2>4, <2>5, <2>6, <2>7, <2>8, <2>9, <2>10 DEF Advance
<1>4. ASSUME NEW c \in Clients, Arrive(c) \/ Connect(c) \/ Crash(c)
      PROVE  Monotone /\ Inv' /\ Final
  <2>1. erasures' = erasures
    BY <1>4 DEF Arrive, Request, Load, Suppress, Erase, Start, Connect, Crash, control
  <2>2. CASE Arrive(c) BY <1>2, <2>1, <2>2, ArriveKeeps
  <2>3. CASE Connect(c) BY <1>1, <1>2, <2>1, <2>3, ConnectKeeps
  <2>4. CASE Crash(c) BY <1>1, <1>2, <2>1, <2>4, QuitKeeps DEF Crash
  <2> QED BY <1>4, <2>2, <2>3, <2>4
<1>5. CASE UNCHANGED <<fenced, erasures, data, locks, local>>
  <2>1. /\ fenced' = fenced /\ erasures' = erasures /\ rows' = rows /\ docs' = docs
        /\ holders' = holders /\ pc' = pc /\ job' = job
    BY <1>5 DEF data, locks, local
  <2>2. Monotone BY <2>1 DEF Monotone
  <2>3. \A c \in Clients : JobOK(c)' BY <2>1 DEF Inv, JobOK, Erasing
  <2>4. FenceOK' BY <2>1 DEF Inv, FenceOK
  <2>5. IndexFollowsStore' /\ EmptyOK'
    BY <2>1 DEF Inv, IndexFollowsStore, EmptyOK, Completed
  <2> QED BY <1>1, <1>2, <2>1, <2>2, <2>3, <2>4, <2>5 DEF Inv
<1>6. CASE Tick BY <1>5, <1>6 DEF Tick, control
<1>7. CASE \E s \in Scopes, g \in GrantKeys, from \in Time, until \in 1..MaxTime + 1 :
               Issue(s, g, from, until)
  BY <1>5, <1>7 DEF Issue
<1>8. CASE \E s \in Scopes : \E h \in grants[s] : Revoke(s, h)
  BY <1>5, <1>8 DEF Revoke
<1>9. CASE UNCHANGED vars BY <1>5, <1>9 DEF vars, control
<1> QED BY <1>3, <1>4, <1>6, <1>7, <1>8, <1>9 DEF Next

LEMMA InitKeeps == Init => Inv
<1> SUFFICES ASSUME Init PROVE Inv OBVIOUS
<1>1. TypeOK BY InitType
<1>2. \A c \in Clients : JobOK(c) BY DEF Init, JobOK, Idle, Erasing
<1>3. FenceOK BY DEF Init, FenceOK
<1>4. IndexFollowsStore /\ EmptyOK
  BY DEF Init, IndexFollowsStore, EmptyOK, Completed
<1> QED BY <1>1, <1>2, <1>3, <1>4 DEF Inv

-----------------------------------------------------------------------------
(* What receipts count. *)

\* Clients that have counted the rows of s for a receipt.
Counted(s) ==
    {c \in Clients : pc[c] \in {"counted", "receipt", "completing"} /\ job[c].scope = s}

\* Behind a fence, the rows a scope has and those it had are the same for good.
AllOrNothing(s) == {0, Cardinality(rows[s] \cup removed[s])}

\* Rows go all together, and only behind a fence.
RemovedOK(s) ==
    /\ s \notin fenced => removed[s] = {}
    /\ rows[s] = {} \/ removed[s] = {}

CountOK(s) ==
    /\ \A k \in Completed(s) : erasures[s][k].summary \in AllOrNothing(s)
    /\ \A c \in Counted(s) : job[c].count \in AllOrNothing(s)

ReceiptsInv == Inv /\ \A s \in Scopes : RemovedOK(s) /\ CountOK(s)

\* What a step may do to the rows of s.
RowsStep(s) ==
    \/ rows'[s] = rows[s] /\ removed'[s] = removed[s]
    \/ s \in fenced /\ rows'[s] = {} /\ removed'[s] = removed[s] \cup rows[s]
    \/ s \notin fenced /\ s \notin fenced' /\ removed'[s] = removed[s]

LEMMA CountsKept ==
    ASSUME ReceiptsInv, Inv', NEW s \in Scopes, fenced \subseteq fenced', RowsStep(s),
           \A k \in Completed(s)' : erasures'[s][k].summary \in AllOrNothing(s),
           \A c \in Counted(s)' : job'[c].count \in AllOrNothing(s)
    PROVE  RemovedOK(s)' /\ CountOK(s)'
<1>1. RemovedOK(s) BY DEF ReceiptsInv
<1>2. CASE \/ rows'[s] = rows[s] /\ removed'[s] = removed[s]
           \/ s \in fenced /\ rows'[s] = {} /\ removed'[s] = removed[s] \cup rows[s]
  <2>1. RemovedOK(s)' BY <1>1, <1>2 DEF RemovedOK
  <2>2. rows'[s] \cup removed'[s] = rows[s] \cup removed[s] BY <1>2
  <2>3. AllOrNothing(s)' = AllOrNothing(s) BY <2>2 DEF AllOrNothing
  <2> QED BY <2>1, <2>3 DEF CountOK
<1>3. CASE s \notin fenced /\ s \notin fenced' /\ removed'[s] = removed[s]
  <2>1. RemovedOK(s)' BY <1>1, <1>3 DEF RemovedOK
  <2>2. \A c \in Counted(s)' : s \in fenced' BY DEF Inv, JobOK, Counted, Erasing
  <2>3. \A k \in Completed(s)' : s \in fenced' BY DEF Inv, FenceOK, Completed
  <2> QED BY <1>3, <2>1, <2>2, <2>3 DEF CountOK
<1> QED BY <1>2, <1>3 DEF RowsStep

\* Clients of scope s go on with the count they had, and receipts are what they were.
Calm(s) ==
    /\ \A d \in Counted(s)' : d \in Counted(s) /\ job'[d] = job[d]
    /\ \A k \in Completed(s)' : k \in Completed(s) /\ erasures'[s][k] = erasures[s][k]

LEMMA QuietKeeps ==
    ASSUME ReceiptsInv, Inv', NEW s \in Scopes, fenced \subseteq fenced', RowsStep(s), Calm(s)
    PROVE  RemovedOK(s)' /\ CountOK(s)'
<1>1. CountOK(s) BY DEF ReceiptsInv
<1>2. \A k \in Completed(s)' : erasures'[s][k].summary \in AllOrNothing(s)
  BY <1>1 DEF CountOK, Calm
<1>3. \A c \in Counted(s)' : job'[c].count \in AllOrNothing(s) BY <1>1 DEF CountOK, Calm
<1> QED BY <1>2, <1>3, CountsKept

\* The clients of a step that moves c only.
LEMMA StepCounts ==
    ASSUME ReceiptsInv, NEW c \in Clients, Others(c), NEW s \in Scopes,
           pc'[c] \in {"counted", "receipt", "completing"} =>
               /\ pc[c] \in {"counted", "receipt", "completing"}
               /\ job'[c] = job[c]
    PROVE  \A d \in Counted(s)' : d \in Counted(s) /\ job'[d] = job[d]
BY DEF Counted, Others

LEMMA SameReceipts ==
    ASSUME Final, NEW s \in Scopes, Completed(s)' = Completed(s)
    PROVE  \A k \in Completed(s)' : k \in Completed(s) /\ erasures'[s][k] = erasures[s][k]
BY DEF Final

\* The steps of a client that neither count nor write a receipt.
LEMMA CallsKeepReceipts ==
    ASSUME ReceiptsInv, Monotone, Final, Inv', NEW c \in Clients, NEW s \in Scopes,
           \/ Arrive(c) \/ Connect(c) \/ Crash(c)
           \/ Gate(c, s) \/ Process(c, s) \/ Project(c, s)
           \/ Fence(c, s) \/ BeginErasure(c, s) \/ DeleteProjection(c, s)
           \/ DeleteRows(c, s) \/ HandlerFails(c, s)
    PROVE  ReceiptsInv'
<1>1. Inv /\ TypeOK BY DEF ReceiptsInv, Inv
<1>2. /\ Others(c)
      /\ pc'[c] \in {"counted", "receipt", "completing"} =>
             pc[c] \in {"counted", "receipt", "completing"} /\ job'[c] = job[c]
  <2>1. CASE Leave(c) BY <1>1, <2>1, LeaveEffect
  <2>2. ASSUME NEW step \in Steps \ {"counted", "receipt", "completing"}, Goto(c, step),
               \A d \in Clients \ {c} : job'[d] = job[d]
        PROVE  Others(c) /\ pc'[c] = step
    BY <1>1, <2>2 DEF Goto, Others, TypeOK
  <2>3. CASE Arrive(c)
    <3>1. PICK new : Start(c, new) BY <2>3 DEF Arrive, Request, Load, Suppress, Erase
    <3>2. Goto(c, "queued") /\ \A d \in Clients \ {c} : job'[d] = job[d]
      BY <1>1, <3>1 DEF Start, TypeOK
    <3> QED BY <2>2, <3>2 DEF Steps
  <2>4. CASE Connect(c)
    <3>1. job' = job BY <2>4 DEF Connect
    <3>2. CASE Goto(c, "waiting") BY <2>2, <3>1, <3>2 DEF Steps
    <3>3. CASE pc[c] = "receipt" /\ Goto(c, "completing")
      BY <1>1, <3>1, <3>3 DEF Goto, Others, TypeOK
    <3> QED BY <2>4, <3>2, <3>3 DEF Connect
  <2>5. CASE Crash(c) \/ Process(c, s) \/ Project(c, s) \/ Fence(c, s) \/ HandlerFails(c, s)
    BY <2>1, <2>5 DEF Crash, Process, Project, Fence, HandlerFails
  <2>6. CASE Gate(c, s) BY <2>1, <2>2, <2>6 DEF Gate, Steps
  <2>7. CASE BeginErasure(c, s) BY <2>1, <2>2, <2>7 DEF BeginErasure, Steps
  <2>8. CASE DeleteProjection(c, s) BY <2>2, <2>8 DEF DeleteProjection, Steps
  <2>9. CASE DeleteRows(c, s)
    BY <1>1, <2>9 DEF DeleteRows, Goto, Others, TypeOK
  <2> QED BY <2>3, <2>4, <2>5, <2>6, <2>7, <2>8, <2>9
<1>3. \A t \in Scopes : Completed(t)' = Completed(t)
  <2>1. CASE erasures' = erasures BY <2>1 DEF Completed
  <2>2. CASE BeginErasure(c, s) BY <1>1, <2>2, BeginKeeps DEF Inv
  <2>3. CASE HandlerFails(c, s) BY <1>1, <2>3, HandlerFailsKeeps DEF Inv
  <2> QED BY <2>1, <2>2, <2>3
    DEF Arrive, Request, Load, Suppress, Erase, Start, Connect, Crash, Gate, Process,
        Project, Fence, DeleteProjection, DeleteRows, control
<1>4. \A t \in Scopes : Calm(t) BY <1>2, <1>3, StepCounts, SameReceipts DEF Calm
<1>5. \A t \in Scopes : RowsStep(t)
  <2>1. CASE rows' = rows /\ removed' = removed BY <2>1 DEF RowsStep
  <2>2. CASE Process(c, s)
    <3>1. s \notin fenced BY <1>1, <2>2, WorkingOpen DEF Process
    <3>2. fenced' = fenced /\ removed' = removed /\ \A t \in Scopes \ {s} : rows'[t] = rows[t]
      BY <1>1, <2>2 DEF Process, control, TypeOK
    <3> QED BY <3>1, <3>2 DEF RowsStep
  <2>3. CASE pc[c] = "counted" /\ job[c].scope = s /\ RowsDeleted(s)
    <3>1. s \in fenced BY <1>1, <2>3, EraserWorks DEF Erasing
    <3> QED BY <1>1, <2>3, <3>1, RowsDeletedType DEF RowsStep
  <2>4. CASE HandlerFails(c, s) BY <2>1, <2>3, <2>4 DEF HandlerFails, data
  <2> QED BY <2>1, <2>2, <2>3, <2>4
    DEF Arrive, Request, Load, Suppress, Erase, Start, Connect, Crash, Gate,
        Project, Fence, BeginErasure, DeleteProjection, DeleteRows, data
<1> QED BY <1>4, <1>5, QuietKeeps DEF ReceiptsInv, Monotone

\* A count is of all rows or of none, since rows go all together.
LEMMA CountRowsCounts ==
    ASSUME ReceiptsInv, Monotone, Final, Inv', NEW c \in Clients, NEW s \in Scopes,
           CountRows(c, s)
    PROVE  ReceiptsInv'
<1>1. Inv /\ TypeOK BY DEF ReceiptsInv, Inv
<1>2. /\ pc[c] = "store" /\ job[c].scope = s
      /\ UNCHANGED <<fenced, erasures, rows, removed>>
  BY DEF CountRows, control, data
<1>3. job[c].op = "erase" BY <1>1, <1>2, EraserWorks DEF Erasing
<1>4. /\ Others(c)
      /\ job'[c] = [job[c] EXCEPT !.count = Cardinality(rows[s])]
  BY <1>1 DEF CountRows, Goto, Others, TypeOK
<1>5. job'[c].scope = s /\ job'[c].count = Cardinality(rows[s])
  <2>1. Cardinality(rows[s]) \in Nat BY <1>1, CountIsNatural
  <2>2. job[c] \in [op : {"erase"}, scope : Scopes, key : Keys, count : Nat]
    BY <1>1, <1>3 DEF TypeOK, Jobs
  <2> QED BY <1>2, <1>4, <2>1, <2>2
<1>6. Cardinality(rows[s]) \in AllOrNothing(s)
  <2>1. rows[s] = {} \/ removed[s] = {} BY DEF ReceiptsInv, RemovedOK
  <2>2. CASE rows[s] = {}
    <3>1. Cardinality({}) = 0 BY FS_EmptySet
    <3> QED BY <2>2, <3>1 DEF AllOrNothing
  <2>3. CASE removed[s] = {}
    <3>1. rows[s] \cup removed[s] = rows[s] BY <2>3
    <3> QED BY <3>1 DEF AllOrNothing
  <2> QED BY <2>1, <2>2, <2>3
<1>7. ASSUME NEW t \in Scopes PROVE RemovedOK(t)' /\ CountOK(t)'
  <2>1. CountOK(t) BY DEF ReceiptsInv
  <2>2. Completed(t)' = Completed(t) BY <1>2 DEF Completed
  <2>3. \A k \in Completed(t)' : erasures'[t][k].summary \in AllOrNothing(t)
    BY <1>2, <2>1, <2>2 DEF CountOK
  <2>4. \A d \in Counted(t)' : job'[d].count \in AllOrNothing(t)
    <3> SUFFICES ASSUME NEW d \in Counted(t)' PROVE job'[d].count \in AllOrNothing(t)
      OBVIOUS
    <3>1. CASE d = c BY <1>5, <1>6, <3>1 DEF Counted
    <3>2. CASE d # c
      <4>1. d \in Counted(t) /\ job'[d] = job[d] BY <1>4, <3>2 DEF Counted, Others
      <4> QED BY <2>1, <4>1 DEF CountOK
    <3> QED BY <3>1, <3>2
  <2>5. RowsStep(t) /\ fenced \subseteq fenced' BY <1>2 DEF RowsStep
  <2> QED BY <2>3, <2>4, <2>5, CountsKept
<1> QED BY <1>7 DEF ReceiptsInv

\* A receipt certifies the count of the client that writes it.
LEMMA CompleteCounts ==
    ASSUME ReceiptsInv, Monotone, Final, Inv', NEW c \in Clients, NEW s \in Scopes,
           CompleteErasure(c, s)
    PROVE  ReceiptsInv'
<1> PICK k : k = job[c].key OBVIOUS
<1> PICK n : n = job[c].count OBVIOUS
<1>1. Inv /\ TypeOK BY DEF ReceiptsInv, Inv
<1>2. /\ pc[c] = "completing" /\ job[c].scope = s /\ Leave(c) /\ Receipt(c, s)
      /\ UNCHANGED <<fenced, rows, removed>>
  BY DEF CompleteErasure, data
<1>3. k \in Keys /\ n \in Nat /\ erasures[s][k] # None
  BY <1>1, <1>2, EraserWorks, EraserJob DEF Erasing
<1>4. c \in Counted(s) BY <1>2 DEF Counted
<1>5. n \in AllOrNothing(s) BY <1>4 DEF ReceiptsInv, CountOK
<1>6. Others(c) /\ pc'[c] = "idle" BY <1>1, <1>2, LeaveEffect
<1>7. \/ erasures' = erasures
      \/ /\ \A t \in Scopes, q \in Keys : t # s \/ q # k => erasures'[t][q] = erasures[t][q]
         /\ erasures'[s][k].summary = n
  <2>1. CASE k \in Completed(s) BY <1>2, <2>1 DEF Receipt
  <2>2. CASE k \notin Completed(s)
    <3> DEFINE e == [erasures[s][k] EXCEPT !.status = "completed", !.error = FALSE,
                                           !.summary = n]
    <3>1. erasures[s][k] \in Erasure BY <1>1, <1>3 DEF TypeOK
    <3>2. e \in Erasure /\ e.summary = n BY <1>3, <3>1 DEF Erasure
    <3>3. erasures' = [erasures EXCEPT ![s][k] = e] BY <1>2, <2>2 DEF Receipt
    <3> HIDE DEF e
    <3>4. erasures'[s][k] = e BY <1>1, <1>3, <3>2, <3>3, ErasureUpdate
    <3>5. \A t \in Scopes, q \in Keys : t # s \/ q # k => erasures'[t][q] = erasures[t][q]
      BY <1>1, <1>3, <3>2, <3>3, ErasureUpdate
    <3> QED BY <3>2, <3>4, <3>5
  <2> QED BY <2>1, <2>2
<1>8. ASSUME NEW t \in Scopes PROVE RemovedOK(t)' /\ CountOK(t)'
  <2>1. CountOK(t) BY DEF ReceiptsInv
  <2>2. \A q \in Completed(t)' : erasures'[t][q].summary \in AllOrNothing(t)
    <3> SUFFICES ASSUME NEW q \in Completed(t)' PROVE erasures'[t][q].summary \in AllOrNothing(t)
      OBVIOUS
    <3>1. q \in Keys BY DEF Completed
    <3>2. CASE erasures'[t][q] = erasures[t][q]
      <4>1. q \in Completed(t) BY <3>2 DEF Completed
      <4> QED BY <2>1, <3>2, <4>1 DEF CountOK
    <3>3. CASE t = s /\ q = k /\ erasures'[s][k].summary = n BY <1>5, <3>3
    <3> QED BY <1>7, <3>1, <3>2, <3>3
  <2>3. \A d \in Counted(t)' : job'[d].count \in AllOrNothing(t)
    <3>1. \A d \in Counted(t)' : d \in Counted(t) /\ job'[d] = job[d] BY <1>6, StepCounts
    <3> QED BY <2>1, <3>1 DEF CountOK
  <2>4. RowsStep(t) /\ fenced \subseteq fenced' BY <1>2 DEF RowsStep
  <2> QED BY <2>2, <2>3, <2>4, CountsKept
<1> QED BY <1>8 DEF ReceiptsInv

LEMMA ReceiptsStep ==
    ASSUME ReceiptsInv, [Next]_vars
    PROVE  ReceiptsInv'
<1>1. Monotone /\ Inv' /\ Final BY Step DEF ReceiptsInv
<1>2. ASSUME NEW c \in Clients, NEW s \in Scopes, Advance(c, s) \/ HandlerFails(c, s)
      PROVE  ReceiptsInv'
  BY <1>1, <1>2, CallsKeepReceipts, CountRowsCounts, CompleteCounts DEF Advance
<1>3. ASSUME NEW c \in Clients, Arrive(c) \/ Connect(c) \/ Crash(c) PROVE ReceiptsInv'
  <2>1. CASE Scopes = {} BY <1>1, <2>1 DEF ReceiptsInv
  <2>2. CASE Scopes # {} BY <1>1, <1>3, <2>2, CallsKeepReceipts
  <2> QED BY <2>1, <2>2
<1>4. CASE UNCHANGED <<fenced, erasures, data, locks, local>>
  <2>1. /\ fenced' = fenced /\ erasures' = erasures /\ rows' = rows
        /\ removed' = removed /\ pc' = pc /\ job' = job
    BY <1>4 DEF data, local
  <2>2. \A t \in Scopes : Calm(t) /\ RowsStep(t)
    BY <2>1 DEF Completed, Calm, Counted, RowsStep
  <2> QED BY <1>1, <2>1, <2>2, QuietKeeps DEF ReceiptsInv
<1>5. CASE Tick BY <1>4, <1>5 DEF Tick, control
<1>6. CASE \E s \in Scopes, g \in GrantKeys, from \in Time, until \in 1..MaxTime + 1 :
               Issue(s, g, from, until)
  BY <1>4, <1>6 DEF Issue
<1>7. CASE \E s \in Scopes : \E h \in grants[s] : Revoke(s, h)
  BY <1>4, <1>7 DEF Revoke
<1>8. CASE UNCHANGED vars BY <1>4, <1>8 DEF vars, control
<1> QED BY <1>2, <1>3, <1>5, <1>6, <1>7, <1>8 DEF Next

LEMMA ReceiptsInit == Init => ReceiptsInv
<1> SUFFICES ASSUME Init PROVE ReceiptsInv OBVIOUS
<1>1. Inv BY InitKeeps
<1>2. ASSUME NEW s \in Scopes PROVE RemovedOK(s) /\ CountOK(s)
  <2>1. Completed(s) = {} /\ Counted(s) = {} /\ removed[s] = {} /\ rows[s] = {}
    BY DEF Init, Completed, Counted
  <2> QED BY <2>1 DEF RemovedOK, CountOK
<1> QED BY <1>1, <1>2 DEF ReceiptsInv

-----------------------------------------------------------------------------
(* The theorems. *)

\* In every reachable state clients rely on facts that hold, no lock of a fenced
\* scope is held, and a completed erasure has left nothing (the access service,
\* the control plane and the stores together).
THEOREM Invariance == Spec => []Inv
<1>1. Init => Inv BY InitKeeps
<1>2. Inv /\ [Next]_vars => Inv' BY Step
<1> QED BY <1>1, <1>2, PTL DEF Spec

\* Tables, locks and local state stay well formed, and the governance pool hands
\* out no more connections than it has.
THEOREM TypeCorrect == Spec => []TypeOK
<1>1. Inv => TypeOK BY DEF Inv
<1> QED BY <1>1, Invariance, PTL

\* While an erasure request is completed, its scope holds no row and no document,
\* and no request or worker is past the gate to write one.
THEOREM ErasureCorrect == Spec => []ErasedStaysErased
<1>1. ASSUME Inv PROVE ErasedStaysErased
  <2>1. \A s \in Scopes : Completed(s) # {} => s \in fenced
    BY <1>1 DEF Inv, FenceOK, Completed
  <2> QED BY <1>1, <2>1 DEF Inv, EmptyOK, FenceOK, IndexFollowsStore, ErasedStaysErased
<1> QED BY <1>1, Invariance, PTL

\* The search index shows no row the store has lost, however handlers fail and
\* workers upsert late.
THEOREM IndexCorrect == Spec => []IndexFollowsStore
<1>1. Inv => IndexFollowsStore BY DEF Inv
<1> QED BY <1>1, Invariance, PTL

\* Nothing is added to the store or the index of a scope behind its fence.
THEOREM FenceCorrect == Spec => NothingWrittenBehindTheFence
<1>1. Inv /\ [Next]_vars =>
          [\A s \in fenced : rows'[s] \subseteq rows[s] /\ docs'[s] \subseteq docs[s]]_vars
  BY Step DEF Monotone
<1> QED BY <1>1, Invariance, PTL DEF Spec, NothingWrittenBehindTheFence

\* No step of concurrent erasers, retries or failures changes a completed receipt.
THEOREM ReceiptCorrect == Spec => ReceiptIsFinal
<1>1. Inv /\ [Next]_vars =>
          [\A s \in Scopes : \A k \in Completed(s) : erasures'[s][k] = erasures[s][k]]_vars
  BY Step DEF Final
<1> QED BY <1>1, Invariance, PTL DEF Spec, ReceiptIsFinal

\* A receipt counts every row a table had when the scope's fence rose, or none:
\* neither writers nor other erasers come between a count and what it is a count of
\* (erase_scope behind begin_erasure's fence).
THEOREM ReceiptsCorrect == Spec => []ReceiptCountsAllOrNothing
<1>1. ASSUME ReceiptsInv PROVE ReceiptCountsAllOrNothing
  <2> SUFFICES ASSUME NEW s \in Scopes, NEW k \in Completed(s)
               PROVE  erasures[s][k].summary \in {0, Cardinality(removed[s])}
    BY DEF ReceiptCountsAllOrNothing
  <2>1. rows[s] = {} BY <1>1 DEF ReceiptsInv, Inv, EmptyOK
  <2>2. rows[s] \cup removed[s] = removed[s] BY <2>1
  <2> QED BY <1>1, <2>2 DEF ReceiptsInv, CountOK, AllOrNothing
<1> QED BY <1>1, ReceiptsInit, ReceiptsStep, PTL DEF Spec

-----------------------------------------------------------------------------
(* The refinement of ErasurePromise. *)

Certified == [s \in Scopes |-> Completed(s)]

\* A step that changes none of what the promise is about.
LEMMA PromiseStutters ==
    ASSUME UNCHANGED <<fenced, erasures, rows, docs>>
    PROVE  UNCHANGED Promise!vars
<1>1. \A s \in Scopes : Completed(s)' = Completed(s) BY DEF Completed
<1> QED BY <1>1 DEF Promise!vars

LEMMA ProcessRefines ==
    ASSUME NEW c \in Clients, NEW s \in Scopes, Inv, Process(c, s)
    PROVE  [Promise!Next]_(Promise!vars)
<1>1. s \notin fenced BY WorkingOpen DEF Process
<1>2. fenced' = fenced /\ erasures' = erasures /\ docs' = docs
  BY DEF Process, control
<1>3. CASE rows' = rows BY <1>2, <1>3, PromiseStutters
<1>4. CASE \E r \in Rows \ rows[s] : rows' = [rows EXCEPT ![s] = @ \cup {r}]
  <2>1. PICK r \in Rows : rows' = [rows EXCEPT ![s] = @ \cup {r}] BY <1>4
  <2>2. \A t \in Scopes : Completed(t)' = Completed(t) BY <1>2 DEF Completed
  <2>3. Promise!Keep(s, r) BY <1>1, <1>2, <2>1, <2>2 DEF Promise!Keep
  <2> QED BY <2>3 DEF Promise!Next
<1> QED BY <1>3, <1>4 DEF Process

LEMMA ProjectRefines ==
    ASSUME NEW c \in Clients, NEW s \in Scopes, Inv, Project(c, s)
    PROVE  [Promise!Next]_(Promise!vars)
<1>1. s \notin fenced BY WorkingOpen DEF Project
<1>2. fenced' = fenced /\ erasures' = erasures /\ rows' = rows
  BY DEF Project, control
<1>3. job[c].row \in rows[s] /\ job[c].row \in Rows
  BY <1>1 DEF Project, Inv, JobOK, TypeOK, Jobs
<1>4. CASE docs' = docs BY <1>2, <1>4, PromiseStutters
<1>5. CASE docs' = [docs EXCEPT ![s] = @ \cup {job[c].row}]
  <2>1. \A t \in Scopes : Completed(t)' = Completed(t) BY <1>2 DEF Completed
  <2>2. Promise!Find(s, job[c].row) BY <1>1, <1>2, <1>3, <1>5, <2>1 DEF Promise!Find
  <2> QED BY <1>3, <2>2 DEF Promise!Next
<1> QED BY <1>4, <1>5 DEF Project

LEMMA CloseRefines ==
    ASSUME NEW c \in Clients, NEW s \in Scopes, Inv, TypeOK',
           Fence(c, s) \/ BeginErasure(c, s)
    PROVE  [Promise!Next]_(Promise!vars)
<1>1. rows' = rows /\ docs' = docs BY DEF Fence, BeginErasure, data
<1>2. \A t \in Scopes : Completed(t)' = Completed(t)
  <2>1. CASE Fence(c, s) BY <2>1 DEF Fence, Completed
  <2>2. CASE BeginErasure(c, s) BY <2>2, BeginKeeps
  <2> QED BY <2>1, <2>2
<1>3. CASE fenced' = fenced \cup {s}
  <2>1. Promise!Close(s) BY <1>1, <1>2, <1>3 DEF Promise!Close
  <2> QED BY <2>1 DEF Promise!Next
<1>4. CASE fenced' = fenced
  <2>1. UNCHANGED Promise!vars BY <1>1, <1>2, <1>4 DEF Promise!vars
  <2> QED BY <2>1
<1> QED BY <1>3, <1>4 DEF Fence, BeginErasure

\* What removes data of a fenced scope, index first, is the promise's Remove.
LEMMA RemoveRefines ==
    ASSUME NEW s \in Scopes, s \in fenced, TypeOK, TypeOK', IndexFollowsStore',
           fenced' = fenced, \A t \in Scopes : Completed(t)' = Completed(t),
           rows'[s] \subseteq rows[s], docs'[s] \subseteq docs[s],
           \A t \in Scopes \ {s} : rows'[t] = rows[t] /\ docs'[t] = docs[t]
    PROVE  [Promise!Next]_(Promise!vars)
<1>1. rows' = [rows EXCEPT ![s] = rows'[s]] BY DEF TypeOK
<1>2. docs' = [docs EXCEPT ![s] = docs'[s]] BY DEF TypeOK
<1>3. docs'[s] \subseteq rows'[s] BY DEF IndexFollowsStore
<1>4. Certified' = Certified BY DEF Certified
<1>5. Promise!Remove(s) BY <1>1, <1>2, <1>3, <1>4 DEF Promise!Remove, Certified
<1> QED BY <1>5 DEF Promise!Next

LEMMA DeleteRefines ==
    ASSUME NEW c \in Clients, NEW s \in Scopes, Inv, Inv',
           DeleteProjection(c, s) \/ DeleteRows(c, s) \/ HandlerFails(c, s)
    PROVE  [Promise!Next]_(Promise!vars)
<1>1. TypeOK /\ TypeOK' /\ IndexFollowsStore' BY DEF Inv
<1>2. pc[c] \in Erasing /\ job[c].scope = s
  BY DEF DeleteProjection, DeleteRows, HandlerFails, Erasing
<1>3. s \in fenced BY <1>2, EraserWorks
<1>4. fenced' = fenced BY DEF DeleteProjection, DeleteRows, HandlerFails, control
<1>5. \A t \in Scopes : Completed(t)' = Completed(t)
  <2>1. CASE HandlerFails(c, s) BY <1>1, <2>1, HandlerFailsKeeps
  <2>2. CASE erasures' = erasures BY <2>2 DEF Completed
  <2> QED BY <2>1, <2>2 DEF DeleteProjection, DeleteRows, control
<1>6. /\ rows' = rows \/ rows' = [rows EXCEPT ![s] = {}]
      /\ docs' = docs \/ \E left \in SUBSET docs[s] : docs' = [docs EXCEPT ![s] = left]
  <2>1. CASE DeleteProjection(c, s) BY <2>1 DEF DeleteProjection
  <2>2. CASE DeleteRows(c, s) BY <2>2 DEF DeleteRows, RowsDeleted
  <2>3. CASE HandlerFails(c, s) BY <2>3 DEF HandlerFails, RowsDeleted, data
  <2> QED BY <2>1, <2>2, <2>3
<1>7. rows'[s] \subseteq rows[s] /\ docs'[s] \subseteq docs[s] BY <1>1, <1>6 DEF TypeOK
<1>8. \A t \in Scopes \ {s} : rows'[t] = rows[t] /\ docs'[t] = docs[t]
  BY <1>1, <1>6 DEF TypeOK
<1> QED BY <1>1, <1>3, <1>4, <1>5, <1>7, <1>8, RemoveRefines

LEMMA CompleteRefines ==
    ASSUME NEW c \in Clients, NEW s \in Scopes, Inv, CompleteErasure(c, s)
    PROVE  [Promise!Next]_(Promise!vars)
<1> DEFINE k == job[c].key
<1>1. TypeOK BY DEF Inv
<1>2. /\ pc[c] = "completing" /\ job[c].scope = s /\ Receipt(c, s)
      /\ fenced' = fenced /\ rows' = rows /\ docs' = docs
  BY DEF CompleteErasure, data
<1>3. /\ s \in fenced /\ k \in Keys /\ job[c].count \in Nat /\ erasures[s][k] # None
  BY <1>1, <1>2, EraserWorks, EraserJob DEF Erasing
<1>4. rows[s] = {} /\ docs[s] = {} BY <1>2 DEF Inv, JobOK, Erasing
<1>5. CASE k \in Completed(s) BY <1>2, <1>5, PromiseStutters DEF Receipt
<1>6. CASE k \notin Completed(s)
  <2> DEFINE e == [erasures[s][k] EXCEPT !.status = "completed", !.error = FALSE,
                                         !.summary = job[c].count]
  <2>1. erasures[s][k] \in Erasure BY <1>1, <1>3 DEF TypeOK
  <2>2. e \in Erasure /\ e.status = "completed" BY <1>3, <2>1 DEF Erasure
  <2>3. erasures' = [erasures EXCEPT ![s][k] = e] BY <1>2, <1>6 DEF Receipt
  <2> HIDE DEF e
  <2>4. erasures'[s][k] = e BY <1>1, <1>3, <2>2, <2>3, ErasureUpdate
  <2>5. \A t \in Scopes, q \in Keys : t # s \/ q # k => erasures'[t][q] = erasures[t][q]
    BY <1>1, <1>3, <2>2, <2>3, ErasureUpdate
  <2>6. Completed(s)' = Completed(s) \cup {k}
    BY <1>3, <2>2, <2>4, <2>5, NoneAssumption DEF Completed
  <2>7. \A t \in Scopes \ {s} : Completed(t)' = Completed(t) BY <2>5 DEF Completed
  <2>8. Certified' = [Certified EXCEPT ![s] = @ \cup {k}] BY <2>6, <2>7 DEF Certified
  <2>9. Promise!Certify(s, k)
    BY <1>2, <1>3, <1>4, <2>8 DEF Promise!Certify, Certified
  <2> QED BY <1>3, <2>9 DEF Promise!Next
<1> QED BY <1>5, <1>6

LEMMA StepRefines ==
    ASSUME Inv, [Next]_vars
    PROVE  [Promise!Next]_(Promise!vars)
<1>1. TypeOK' /\ Inv' BY TypeStep, Step
<1>2. ASSUME NEW c \in Clients, NEW s \in Scopes, Advance(c, s) \/ HandlerFails(c, s)
      PROVE  [Promise!Next]_(Promise!vars)
  <2>1. CASE Gate(c, s) \/ CountRows(c, s)
    BY <2>1, PromiseStutters DEF Gate, CountRows, control, data
  <2>2. CASE Process(c, s) BY <2>2, ProcessRefines
  <2>3. CASE Project(c, s) BY <2>3, ProjectRefines
  <2>4. CASE Fence(c, s) \/ BeginErasure(c, s) BY <1>1, <2>4, CloseRefines
  <2>5. CASE DeleteProjection(c, s) \/ DeleteRows(c, s) \/ HandlerFails(c, s)
    BY <1>1, <2>5, DeleteRefines
  <2>6. CASE CompleteErasure(c, s) BY <2>6, CompleteRefines
  <2> QED BY <1>2, <2>1, <2>2, <2>3, <2>4, <2>5, <2>6 DEF Advance
<1>3. ASSUME NEW c \in Clients, Arrive(c) \/ Connect(c) \/ Crash(c)
      PROVE  [Promise!Next]_(Promise!vars)
  <2>1. UNCHANGED <<fenced, erasures, rows, docs>>
    BY <1>3
    DEF Arrive, Request, Load, Suppress, Erase, Start, Connect, Crash, control, data
  <2> QED BY <2>1, PromiseStutters
<1>4. CASE UNCHANGED <<fenced, erasures, data>> BY <1>4, PromiseStutters DEF data
<1>5. CASE Tick BY <1>4, <1>5 DEF Tick, control
<1>6. CASE \E s \in Scopes, g \in GrantKeys, from \in Time, until \in 1..MaxTime + 1 :
               Issue(s, g, from, until)
  BY <1>4, <1>6 DEF Issue
<1>7. CASE \E s \in Scopes : \E h \in grants[s] : Revoke(s, h)
  BY <1>4, <1>7 DEF Revoke
<1>8. CASE UNCHANGED vars BY <1>4, <1>8 DEF vars, control
<1> QED BY <1>2, <1>3, <1>5, <1>6, <1>7, <1>8 DEF Next

\* Requests, workers, suppression and erasure together implement the promise:
\* closed scopes only lose data, the index never outlives the store, and an
\* erasure is certified over an empty scope.
THEOREM Refinement == Spec => ImplementsErasurePromise
<1>1. Init => Promise!Init
  <2> SUFFICES ASSUME Init PROVE Promise!Init OBVIOUS
  <2>1. \A s \in Scopes : Completed(s) = {} BY DEF Init, Completed
  <2> QED BY <2>1 DEF Init, Promise!Init
<1>2. Inv /\ [Next]_vars => [Promise!Next]_(Promise!vars) BY StepRefines
<1> QED BY <1>1, <1>2, Invariance, PTL DEF Spec, ImplementsErasurePromise, Promise!Spec

=============================================================================
