--------------------------- MODULE PgMemoryProofs ---------------------------
(***************************************************************************)
(* Proofs about PgMemory, for any number of requests, keys and identities: *)
(* type correctness, linear revision chains, evidence that is not lost,    *)
(* and commands that are applied at most once.                             *)
(***************************************************************************)
EXTENDS PgMemory, DataFacts, TLAPS

Holding == {"clock", "read", "write", "commit"}

\* What the locks protect: from its insert to its commit a request owns a key
\* nobody has committed, and from its write to its commit the record row, whose
\* active revision is then the one it read.
LocksProtect ==
    \A r \in Requests :
        /\ pc[r] \in Holding => keyLock[Key(r)] = r /\ ingested[Key(r)] = None
        /\ pc[r] = "commit" => rowLock[Ident(r)] = r /\ current[r] = active[Ident(r)]

\* The two tables agree: a row's key was used for that row, and a used key names a row that
\* carries it for the value it was used for.
TablesAgree ==
    /\ \A row \in revisions : /\ ingested[row.key] # None
                             /\ ingested[row.key].ident = row.ident
                             /\ ingested[row.key].revision = row.sequence
    /\ \A k \in Keys : ingested[k] # None =>
           \E row \in revisions : /\ row.ident = ingested[k].ident
                                 /\ row.sequence = ingested[k].revision
                                 /\ row.key = k /\ row.value = ingested[k].value

\* An accepted or replayed answer names the row of the request's own key.
AnswersHold ==
    \A r \in Requests :
        /\ pc[r] # "done" => answer[r].kind = "none"
        /\ answer[r].kind \in {"accepted", "replayed"} =>
               /\ ingested[Key(r)] # None
               /\ ingested[Key(r)].ident = Ident(r)
               /\ ingested[Key(r)].value = command[r].value
               /\ ingested[Key(r)].revision = answer[r].revision
        /\ \A q \in Requests :
               answer[r].kind = "accepted" /\ answer[q].kind = "accepted" /\ r # q
                   => Key(r) # Key(q)

Inv == TypeOK /\ ChainIsLinear /\ SupportFollowsChain /\ LocksProtect /\ TablesAgree
           /\ AnswersHold

LEMMA CommandShape ==
    ASSUME TypeOK, NEW r \in Requests
    PROVE  /\ command[r].op \in {"remember", "correct"} /\ command[r].value \in Values
           /\ Key(r) \in Keys /\ Ident(r) \in Idents
  BY DEF TypeOK, Command, Key, Ident

\* In a linear chain RowAt is the one row with that sequence.
LEMMA RowAtUnique ==
    ASSUME ChainIsLinear, NEW row \in revisions, row.ident \in Idents
    PROVE  RowAt(row.ident, row.sequence) = row
<1>1. \A other \in revisions :
          other.ident = row.ident /\ other.sequence = row.sequence => other = row
  BY DEF ChainIsLinear, RowsOf
<1> QED BY <1>1 DEF RowAt

LEMMA RowAtExists ==
    ASSUME ChainIsLinear, NEW i \in Idents, NEW n \in 1..active[i]
    PROVE  /\ RowAt(i, n) \in revisions
           /\ RowAt(i, n).ident = i /\ RowAt(i, n).sequence = n
<1>1. \E row \in revisions : row.ident = i /\ row.sequence = n
  BY DEF ChainIsLinear, RowsOf
<1> QED BY <1>1 DEF RowAt

LEMMA InitInv == Init => Inv
<1> SUFFICES ASSUME Init PROVE Inv OBVIOUS
<1>1. TypeOK
  BY ClockAssumption, NoneAssumption DEF Init, TypeOK, Time, Reply, Answer, Row, Statements
<1>2. ChainIsLinear
  BY DEF Init, ChainIsLinear, RowsOf
<1>3. SupportFollowsChain BY DEF Init, SupportFollowsChain
<1>4. LocksProtect BY DEF Init, LocksProtect, Holding
<1>5. TablesAgree BY DEF Init, TablesAgree
<1>6. AnswersHold BY DEF Init, AnswersHold, Reply
<1> QED BY <1>1, <1>2, <1>3, <1>4, <1>5, <1>6 DEF Inv

\* Only a commit changes the tables.
LEMMA StoreStep ==
    ASSUME Next
    PROVE  UNCHANGED store \/ \E r \in Requests : Commit(r)
  BY DEF Next, Begin, Statement, ReadSnapshot, Lookup, SaveIngestion, ReadClock, ReadCurrent,
         AddMemory, AppendRevision, LockRow, Crash, Rollback, Replay, Tick, store

\* What a commit writes: the next row of one chain, under an unused key, whose
\* support continues that of the row it supersedes.
LEMMA CommitEffect ==
    ASSUME Inv, NEW r \in Requests, Commit(r)
    PROVE  \E row \in Row :
               /\ row.ident = Ident(r) /\ row.key = Key(r) /\ row.value = command[r].value
               /\ row.sequence = active[Ident(r)] + 1
               /\ row.supersedes = active[Ident(r)]
               /\ row.support = IF active[Ident(r)] # 0
                                  /\ RowAt(Ident(r), active[Ident(r)]).value = row.value
                                THEN RowAt(Ident(r), active[Ident(r)]).support + 1
                                ELSE 1
               /\ revisions' = revisions \cup {row}
               /\ active' = [active EXCEPT ![Ident(r)] = active[Ident(r)] + 1]
               /\ ingested' = [ingested EXCEPT ![Key(r)] =
                      [op |-> command[r].op, ident |-> Ident(r), value |-> command[r].value,
                       revision |-> active[Ident(r)] + 1]]
               /\ ingested[Key(r)] = None
               /\ \A old \in revisions : old.key # Key(r)
               /\ \A old \in revisions : old.ident = Ident(r) => old.sequence # row.sequence
<1> DEFINE i == Ident(r)
           row == NewRow(r)
<1>1. TypeOK /\ ChainIsLinear /\ TablesAgree BY DEF Inv
<1>2. /\ pc[r] = "commit" /\ current[r] = active[i] /\ ingested[Key(r)] = None
  BY DEF Inv, LocksProtect, Holding, Commit
<1>3. /\ revisions' = revisions \cup {row}
      /\ active' = [active EXCEPT ![i] = active[i] + 1]
      /\ ingested' = [ingested EXCEPT ![Key(r)] =
             [op |-> command[r].op, ident |-> i, value |-> command[r].value,
              revision |-> active[i] + 1]]
  BY <1>2 DEF Commit, NextSequence
<1>4. /\ i \in Idents /\ Key(r) \in Keys /\ command[r].value \in Values
      /\ active[i] \in Nat /\ now[r] \in Time /\ expected[r] \in Nat
  BY <1>1, CommandShape DEF TypeOK
<1>5. /\ row.ident = i /\ row.key = Key(r) /\ row.value = command[r].value
      /\ row.sequence = active[i] + 1 /\ row.supersedes = active[i]
      /\ row.support = IF active[i] # 0 /\ RowAt(i, active[i]).value = row.value
                       THEN RowAt(i, active[i]).support + 1 ELSE 1
  BY <1>2 DEF NewRow, NextSequence, Support
<1>6. row.support \in Nat \ {0}
  <2>1. CASE active[i] = 0 BY <2>1, <1>5
  <2>2. CASE active[i] # 0
    <3>1. RowAt(i, active[i]) \in revisions
      BY <1>1, <1>4, <2>2, RowAtExists
    <3>2. RowAt(i, active[i]).support \in Nat \ {0}
      BY <1>1, <3>1 DEF TypeOK, Row
    <3> QED BY <1>5, <3>2
  <2> QED BY <2>1, <2>2
<1>7. row \in Row
  BY <1>2, <1>4, <1>5, <1>6 DEF NewRow, Row
<1>8. \A old \in revisions : old.key # Key(r)
  BY <1>1, <1>2 DEF TablesAgree
<1>9. \A old \in revisions : old.ident = i => old.sequence # active[i] + 1
  <2> SUFFICES ASSUME NEW old \in revisions, old.ident = i PROVE old.sequence # active[i] + 1
    OBVIOUS
  <2>1. old.sequence \in 1..active[i]
    BY <1>1, <1>4 DEF ChainIsLinear, RowsOf
  <2> QED BY <2>1, <1>4
<1> QED BY <1>2, <1>3, <1>5, <1>7, <1>8, <1>9

LEMMA ChainStep ==
    ASSUME Inv, [Next]_vars
    PROVE  ChainIsLinear'
<1>1. TypeOK /\ ChainIsLinear BY DEF Inv
<1>2. CASE UNCHANGED store
  BY <1>1, <1>2 DEF store, ChainIsLinear, RowsOf
<1>3. ASSUME NEW r \in Requests, Commit(r) PROVE ChainIsLinear'
  <2>0. PICK i \in Idents : i = Ident(r) BY <1>1, CommandShape
  <2>1. PICK row \in Row :
            /\ row.ident = i /\ row.sequence = active[i] + 1 /\ row.supersedes = active[i]
            /\ revisions' = revisions \cup {row}
            /\ active' = [active EXCEPT ![i] = active[i] + 1]
            /\ \A old \in revisions : old.ident = i => old.sequence # row.sequence
    BY <1>3, <2>0, CommitEffect
  <2>2. active \in [Idents -> Nat] /\ active[i] \in Nat
    BY <1>1 DEF TypeOK
  <2>3. /\ RowsOf(i)' = RowsOf(i) \cup {row} /\ active'[i] = active[i] + 1
        /\ \A j \in Idents \ {i} : RowsOf(j)' = RowsOf(j) /\ active'[j] = active[j]
    BY <2>1, <2>2 DEF RowsOf
  <2>4. ASSUME NEW j \in Idents
        PROVE  (/\ {old.sequence : old \in RowsOf(j)} = 1..active[j]
                /\ \A row1, row2 \in RowsOf(j) : row1.sequence = row2.sequence => row1 = row2
                /\ \A old \in RowsOf(j) : old.supersedes = old.sequence - 1)'
    <3>0. /\ {old.sequence : old \in RowsOf(j)} = 1..active[j]
          /\ \A row1, row2 \in RowsOf(j) : row1.sequence = row2.sequence => row1 = row2
          /\ \A old \in RowsOf(j) : old.supersedes = old.sequence - 1
      BY <1>1 DEF ChainIsLinear
    <3>1. CASE j # i BY <3>0, <3>1, <2>3
    <3>2. CASE j = i
      <4>1. {old.sequence : old \in RowsOf(i) \cup {row}} = 1..(active[i] + 1)
        <5>1. {old.sequence : old \in RowsOf(i) \cup {row}}
                  = {old.sequence : old \in RowsOf(i)} \cup {active[i] + 1}
          BY <2>1
        <5>2. 1..(active[i] + 1) = 1..active[i] \cup {active[i] + 1}
          BY <2>2
        <5> QED BY <5>1, <5>2, <3>0, <3>2
      <4>2. \A row1, row2 \in RowsOf(i) \cup {row} :
                row1.sequence = row2.sequence => row1 = row2
        BY <3>0, <3>2, <2>1 DEF RowsOf
      <4>3. \A old \in RowsOf(i) \cup {row} : old.supersedes = old.sequence - 1
        BY <3>0, <3>2, <2>1, <2>2
      <4> QED BY <4>1, <4>2, <4>3, <2>3, <3>2
    <3> QED BY <3>1, <3>2
  <2> QED BY <2>4 DEF ChainIsLinear
<1>4. CASE UNCHANGED vars BY <1>2, <1>4 DEF vars
<1> QED BY <1>2, <1>3, <1>4, StoreStep

\* A commit moves no row that was there.
LEMMA RowAtStable ==
    ASSUME Inv, NEW r \in Requests, Commit(r), NEW i \in Idents, NEW n \in 1..active[i]
    PROVE  RowAt(i, n)' = RowAt(i, n)
<1>1. TypeOK /\ ChainIsLinear BY DEF Inv
<1>2. ChainIsLinear' BY ChainStep DEF Next, Statement
<1>3. PICK row \in Row : revisions' = revisions \cup {row} BY CommitEffect
<1>4. /\ RowAt(i, n) \in revisions' /\ RowAt(i, n).ident = i /\ RowAt(i, n).sequence = n
  BY <1>1, <1>3, RowAtExists
<1>5. \A other \in revisions' :
          other.ident = i /\ other.sequence = n => other = RowAt(i, n)
  BY <1>2, <1>4 DEF ChainIsLinear, RowsOf
<1> QED BY <1>4, <1>5 DEF RowAt

LEMMA SupportStep ==
    ASSUME Inv, [Next]_vars
    PROVE  SupportFollowsChain'
<1>1. TypeOK /\ ChainIsLinear /\ SupportFollowsChain BY DEF Inv
<1>2. CASE UNCHANGED store
  BY <1>1, <1>2 DEF store, SupportFollowsChain, RowAt
<1>3. ASSUME NEW r \in Requests, Commit(r) PROVE SupportFollowsChain'
  <2>0. PICK i \in Idents : i = Ident(r) BY <1>1, CommandShape
  <2>1. PICK row \in Row :
            /\ row.ident = i /\ row.sequence = active[i] + 1
            /\ row.support = IF active[i] # 0 /\ RowAt(i, active[i]).value = row.value
                             THEN RowAt(i, active[i]).support + 1 ELSE 1
            /\ revisions' = revisions \cup {row}
    BY <1>3, <2>0, CommitEffect
  <2>2. ASSUME NEW old \in revisions'
        PROVE  (old.support =
                   IF old.sequence > 1 /\ RowAt(old.ident, old.sequence - 1).value = old.value
                   THEN RowAt(old.ident, old.sequence - 1).support + 1 ELSE 1)'
    <3>1. CASE old = row
      <4>1. active[i] \in Nat BY <1>1 DEF TypeOK
      <4>2. CASE active[i] = 0 BY <2>1, <3>1, <4>1, <4>2
      <4>3. CASE active[i] # 0
        <5>1. active[i] \in 1..active[i] BY <4>1, <4>3
        <5>3. \A n \in 1..active[i] : RowAt(i, n)' = RowAt(i, n) BY <1>3, RowAtStable
        <5>4. old.sequence - 1 = active[i] /\ old.sequence > 1 /\ old.ident = i
          BY <2>1, <3>1, <4>1, <4>3
        <5> QED BY <5>1, <5>3, <5>4, <2>1, <3>1, <4>3
      <4> QED BY <4>2, <4>3
    <3>2. CASE old # row
      <4>1. old \in revisions BY <2>1, <2>2, <3>2
      <4>2. old.ident \in Idents /\ old.sequence \in Nat \ {0} BY <1>1, <4>1 DEF TypeOK, Row
      <4>3. active[old.ident] \in Nat /\ old.sequence \in 1..active[old.ident]
        BY <1>1, <4>1, <4>2 DEF ChainIsLinear, RowsOf, TypeOK
      <4>4. old.sequence > 1 => old.sequence - 1 \in 1..active[old.ident]
        BY <4>2, <4>3
      <4>5. old.sequence > 1 =>
                RowAt(old.ident, old.sequence - 1)' = RowAt(old.ident, old.sequence - 1)
        BY <1>3, <4>2, <4>4, RowAtStable
      <4>6. old.support =
                IF old.sequence > 1 /\ RowAt(old.ident, old.sequence - 1).value = old.value
                THEN RowAt(old.ident, old.sequence - 1).support + 1 ELSE 1
        BY <1>1, <4>1 DEF SupportFollowsChain
      <4> QED BY <4>5, <4>6
    <3> QED BY <3>1, <3>2
  <2> QED BY <2>2 DEF SupportFollowsChain
<1>4. CASE UNCHANGED vars BY <1>2, <1>4 DEF vars
<1> QED BY <1>2, <1>3, <1>4, StoreStep

LEMMA TablesStep ==
    ASSUME Inv, [Next]_vars
    PROVE  TablesAgree'
<1>1. TypeOK /\ TablesAgree BY DEF Inv
<1>2. CASE UNCHANGED store BY <1>1, <1>2 DEF store, TablesAgree
<1>3. ASSUME NEW r \in Requests, Commit(r) PROVE TablesAgree'
  <2>0. PICK i \in Idents, key \in Keys : i = Ident(r) /\ key = Key(r)
    BY <1>1, CommandShape
  <2> DEFINE ing == [op |-> command[r].op, ident |-> i, value |-> command[r].value,
                     revision |-> active[i] + 1]
  <2>1. PICK row \in Row :
            /\ row.ident = i /\ row.key = key /\ row.value = command[r].value
            /\ row.sequence = active[i] + 1
            /\ revisions' = revisions \cup {row}
            /\ ingested' = [ingested EXCEPT ![key] = ing]
            /\ ingested[key] = None
    BY <1>3, <2>0, CommitEffect
  <2>2. ing \in Ingestion /\ ing # None
    <3>1. active[i] + 1 \in Nat \ {0} /\ command[r].op \in {"remember", "correct"}
          /\ command[r].value \in Values
      BY <1>1, CommandShape DEF TypeOK
    <3>2. ing \in Ingestion BY <3>1 DEF Ingestion
    <3> QED BY <3>2, NoneAssumption DEF Ingestion
  <2>3. /\ ingested'[key] = ing
        /\ \A k \in Keys \ {key} : ingested'[k] = ingested[k]
        /\ \A old \in revisions : old.key \in Keys
    BY <1>1, <2>1 DEF TypeOK, Row
  <2>4. \A old \in revisions' : /\ ingested'[old.key] # None
                                /\ ingested'[old.key].ident = old.ident
                                /\ ingested'[old.key].revision = old.sequence
    BY <1>1, <2>1, <2>2, <2>3 DEF TablesAgree
  <2>5. ASSUME NEW k \in Keys, ingested'[k] # None
        PROVE  \E old \in revisions' :
                   /\ old.ident = ingested'[k].ident /\ old.sequence = ingested'[k].revision
                   /\ old.key = k /\ old.value = ingested'[k].value
    <3>1. CASE k = key BY <2>1, <2>3, <3>1
    <3>2. CASE k # key BY <1>1, <2>1, <2>3, <2>5, <3>2 DEF TablesAgree
    <3> QED BY <3>1, <3>2
  <2> QED BY <2>4, <2>5 DEF TablesAgree
<1>4. CASE UNCHANGED vars BY <1>2, <1>4 DEF vars
<1> QED BY <1>2, <1>3, <1>4, StoreStep

\* A request that ends releases its own locks only.
LEMMA FinishFrame ==
    ASSUME TypeOK, NEW r \in Requests, NEW reply, Finish(r, reply)
    PROVE  /\ pc'[r] = "done" /\ answer'[r] = reply
           /\ \A q \in Requests \ {r} : pc'[q] = pc[q] /\ answer'[q] = answer[q]
           /\ \A k \in Keys : keyLock[k] # r => keyLock'[k] = keyLock[k]
           /\ \A i \in Idents : rowLock[i] # r => rowLock'[i] = rowLock[i]
           /\ command' = command
  BY DEF TypeOK, Finish

\* A request that ends without writing keeps every other request's protection.
LEMMA FinishKeepsLocks ==
    ASSUME TypeOK, LocksProtect, NEW r \in Requests, NEW reply, Finish(r, reply),
           UNCHANGED <<store, current>>
    PROVE  LocksProtect'
<1>1. \A q \in Requests : Key(q)' = Key(q) /\ Ident(q)' = Ident(q)
  BY FinishFrame DEF Key, Ident
<1> SUFFICES ASSUME NEW q \in Requests
             PROVE  (/\ pc[q] \in Holding => keyLock[Key(q)] = q /\ ingested[Key(q)] = None
                     /\ pc[q] = "commit" => /\ rowLock[Ident(q)] = q
                                            /\ current[q] = active[Ident(q)])'
  BY DEF LocksProtect
<1>2. CASE q = r BY <1>2, FinishFrame DEF Holding
<1>3. CASE q # r
  BY <1>1, <1>3, FinishFrame, CommandShape DEF LocksProtect, store
<1> QED BY <1>2, <1>3

LEMMA LocksStep ==
    ASSUME Inv, [Next]_vars
    PROVE  LocksProtect'
<1>1. TypeOK /\ LocksProtect BY DEF Inv
<1>2. ASSUME NEW r \in Requests,
             \E reply : Finish(r, reply) /\ UNCHANGED <<store, current>>
      PROVE  LocksProtect'
  BY <1>1, <1>2, FinishKeepsLocks
<1>3. ASSUME NEW r \in Requests, NEW kind, Rollback(r, kind) PROVE LocksProtect'
  BY <1>2, <1>3 DEF Rollback
<1>4. ASSUME NEW r \in Requests, Replay(r) PROVE LocksProtect'
  BY <1>2, <1>4 DEF Replay
<1>5. ASSUME NEW r \in Requests, NEW statement \in {"snapshot", "lookup", "insert"},
             Goto(r, statement), UNCHANGED <<store, locks>>,
             current' \in {[current EXCEPT ![r] = active[Ident(r)]], current}
      PROVE  LocksProtect'
  BY <1>1, <1>5 DEF Goto, LocksProtect, Holding, TypeOK, store, locks, Key, Ident
<1>6. ASSUME NEW r \in Requests, Begin(r) PROVE LocksProtect'
  BY <1>5, <1>6 DEF Begin
<1>7. ASSUME NEW r \in Requests, ReadSnapshot(r) PROVE LocksProtect'
  BY <1>3, <1>5, <1>7 DEF ReadSnapshot
<1>8. ASSUME NEW r \in Requests, Lookup(r) PROVE LocksProtect'
  BY <1>3, <1>4, <1>5, <1>8 DEF Lookup
<1>9. ASSUME NEW r \in Requests, SaveIngestion(r) PROVE LocksProtect'
  <2>1. CASE ingested[Key(r)] # None BY <1>4, <1>9, <2>1 DEF SaveIngestion
  <2>2. CASE ingested[Key(r)] = None
    <3>1. /\ pc[r] = "insert" /\ keyLock[Key(r)] = None /\ Key(r) \in Keys
          /\ keyLock' = [keyLock EXCEPT ![Key(r)] = r] /\ pc' = [pc EXCEPT ![r] = "clock"]
          /\ UNCHANGED <<store, rowLock, current, command>>
      BY <1>1, <1>9, <2>2, CommandShape DEF SaveIngestion, Goto
    <3>2. \A q \in Requests : pc[q] \in Holding => Key(q) # Key(r)
      BY <1>1, <3>1, NoneAssumption DEF LocksProtect
    <3> QED BY <1>1, <2>2, <3>1, <3>2
            DEF LocksProtect, Holding, TypeOK, store, Key, Ident
  <2> QED BY <2>1, <2>2
<1>10. ASSUME NEW r \in Requests, ReadClock(r) \/ ReadCurrent(r) PROVE LocksProtect'
  BY <1>1, <1>10
     DEF ReadClock, ReadCurrent, Goto, LocksProtect, Holding, TypeOK, store, locks, Key, Ident
<1>11. ASSUME NEW r \in Requests, pc[r] = "write", active[Ident(r)] = current[r], LockRow(r)
       PROVE  LocksProtect'
  <2>1. /\ rowLock[Ident(r)] = None /\ rowLock' = [rowLock EXCEPT ![Ident(r)] = r]
        /\ pc' = [pc EXCEPT ![r] = "commit"] /\ Ident(r) \in Idents
        /\ UNCHANGED <<store, keyLock, current, command>>
    BY <1>1, <1>11, CommandShape DEF LockRow, Goto
  <2>2. \A q \in Requests : pc[q] = "commit" => Ident(q) # Ident(r)
    BY <1>1, <2>1, NoneAssumption DEF LocksProtect
  <2> QED BY <1>1, <1>11, <2>1, <2>2 DEF LocksProtect, Holding, TypeOK, store, Key, Ident
<1>12. ASSUME NEW r \in Requests, AddMemory(r) PROVE LocksProtect'
  BY <1>3, <1>11, <1>12 DEF AddMemory
<1>13. ASSUME NEW r \in Requests, AppendRevision(r) PROVE LocksProtect'
  BY <1>3, <1>11, <1>13 DEF AppendRevision
<1>14. ASSUME NEW r \in Requests, Commit(r) PROVE LocksProtect'
  <2>0. PICK i \in Idents, key \in Keys : i = Ident(r) /\ key = Key(r)
    BY <1>1, CommandShape
  <2>1. PICK reply : Finish(r, reply) BY <1>14 DEF Commit
  <2>2. /\ pc[r] = "commit" /\ keyLock[key] = r /\ rowLock[i] = r
        /\ current' = current
        /\ \E ing : ingested' = [ingested EXCEPT ![key] = ing]
        /\ \E n : active' = [active EXCEPT ![i] = n]
    BY <1>1, <1>14, <2>0 DEF Commit, LocksProtect, Holding
  <2>3. \A q \in Requests : Key(q)' = Key(q) /\ Ident(q)' = Ident(q)
    BY <1>1, <2>1, FinishFrame DEF Key, Ident
  <2>4. ASSUME NEW q \in Requests
        PROVE  (/\ pc[q] \in Holding => keyLock[Key(q)] = q /\ ingested[Key(q)] = None
                /\ pc[q] = "commit" => /\ rowLock[Ident(q)] = q
                                       /\ current[q] = active[Ident(q)])'
    <3>1. CASE q = r BY <1>1, <2>1, <3>1, FinishFrame DEF Holding
    <3>2. CASE q # r
      <4>1. pc'[q] = pc[q] BY <1>1, <2>1, <3>2, FinishFrame
      <4>2. pc[q] \in Holding =>
                /\ keyLock[Key(q)] = q /\ ingested[Key(q)] = None /\ Key(q) # key
                /\ keyLock'[Key(q)] = q /\ ingested'[Key(q)] = None
        BY <1>1, <2>1, <2>2, <3>2, FinishFrame, CommandShape DEF LocksProtect, TypeOK
      <4>3. pc[q] = "commit" =>
                /\ rowLock[Ident(q)] = q /\ current[q] = active[Ident(q)] /\ Ident(q) # i
                /\ rowLock'[Ident(q)] = q /\ current'[q] = active'[Ident(q)]
        BY <1>1, <2>1, <2>2, <3>2, FinishFrame, CommandShape DEF LocksProtect, TypeOK
      <4> QED BY <2>3, <4>1, <4>2, <4>3
    <3> QED BY <3>1, <3>2
  <2> QED BY <2>4 DEF LocksProtect
<1>15. ASSUME NEW r \in Requests, Crash(r) PROVE LocksProtect'
  BY <1>3, <1>15 DEF Crash
<1>16. CASE Tick \/ UNCHANGED vars
  BY <1>1, <1>16 DEF Tick, vars, store, locks, local, LocksProtect, Key, Ident
<1> QED
  BY <1>6, <1>7, <1>8, <1>9, <1>10, <1>12, <1>13, <1>14, <1>15, <1>16 DEF Next, Statement

\* What an answer claims about its own request.
Honest(r, reply) ==
    reply.kind \in {"accepted", "replayed"} =>
        /\ ingested[Key(r)] # None
        /\ ingested[Key(r)].ident = Ident(r)
        /\ ingested[Key(r)].value = command[r].value
        /\ ingested[Key(r)].revision = reply.revision

\* A request that ends without writing tells the truth and is not accepted.
LEMMA FinishKeepsAnswers ==
    ASSUME TypeOK, AnswersHold, NEW r \in Requests, NEW reply, Finish(r, reply),
           reply.kind # "accepted", Honest(r, reply), UNCHANGED store
    PROVE  AnswersHold'
<1>1. /\ pc'[r] = "done" /\ answer'[r] = reply /\ command' = command /\ ingested' = ingested
      /\ \A q \in Requests \ {r} : pc'[q] = pc[q] /\ answer'[q] = answer[q]
  BY FinishFrame DEF store
<1> QED BY <1>1 DEF AnswersHold, Honest, Key, Ident

LEMMA AnswersStep ==
    ASSUME Inv, [Next]_vars
    PROVE  AnswersHold'
<1>1. TypeOK /\ AnswersHold BY DEF Inv
<1>2. ASSUME NEW r \in Requests, NEW kind \in {"not_found", "conflict", "failed"},
             Rollback(r, kind)
      PROVE  AnswersHold'
  <2> DEFINE reply == Reply(kind, 0)
  <2>1. Finish(r, reply) /\ UNCHANGED store BY <1>2 DEF Rollback
  <2>2. reply.kind \notin {"accepted", "replayed"} BY DEF Reply
  <2>3. Honest(r, reply) BY <2>2 DEF Honest
  <2> QED BY <1>1, <2>1, <2>2, <2>3, FinishKeepsAnswers
<1>3. ASSUME NEW r \in Requests, Replay(r), ingested[Key(r)] # None PROVE AnswersHold'
  <2> DEFINE ing == ingested[Key(r)]
             same == ing.op = command[r].op /\ ing.ident = Ident(r)
                         /\ ing.value = command[r].value
             reply == IF same THEN Reply("replayed", ing.revision) ELSE Reply("conflict", 0)
  <2>1. Finish(r, reply) /\ UNCHANGED store BY <1>3 DEF Replay
  <2>2. reply.kind # "accepted" BY DEF Reply
  <2>3. Honest(r, reply) BY <1>3 DEF Honest, Reply
  <2> QED BY <1>1, <2>1, <2>2, <2>3, FinishKeepsAnswers
<1>4. ASSUME NEW r \in Requests, pc[r] # "done", NEW statement \in Statements,
             Goto(r, statement), UNCHANGED <<ingested, answer>>
      PROVE  AnswersHold'
  <2>1. \A q \in Requests : pc'[q] # "done" => pc[q] # "done"
    BY <1>1, <1>4 DEF Goto, TypeOK
  <2> QED BY <1>1, <1>4, <2>1 DEF Goto, AnswersHold, Key, Ident
<1>5. ASSUME NEW r \in Requests, Begin(r) PROVE AnswersHold'
  BY <1>4, <1>5 DEF Begin, store, Statements
<1>6. ASSUME NEW r \in Requests, ReadSnapshot(r) PROVE AnswersHold'
  BY <1>2, <1>4, <1>6 DEF ReadSnapshot, store, Statements
<1>7. ASSUME NEW r \in Requests, Lookup(r) PROVE AnswersHold'
  BY <1>2, <1>3, <1>4, <1>7 DEF Lookup, store, Statements
<1>8. ASSUME NEW r \in Requests, SaveIngestion(r) PROVE AnswersHold'
  BY <1>3, <1>4, <1>8 DEF SaveIngestion, store, Statements
<1>9. ASSUME NEW r \in Requests, ReadClock(r) \/ ReadCurrent(r) PROVE AnswersHold'
  BY <1>4, <1>9 DEF ReadClock, ReadCurrent, store, Statements
<1>10. ASSUME NEW r \in Requests, AddMemory(r) \/ AppendRevision(r) PROVE AnswersHold'
  BY <1>2, <1>4, <1>10 DEF AddMemory, AppendRevision, LockRow, store, Statements
<1>11. ASSUME NEW r \in Requests, Commit(r) PROVE AnswersHold'
  <2>0. PICK i \in Idents, key \in Keys : i = Ident(r) /\ key = Key(r)
    BY <1>1, CommandShape
  <2> DEFINE n == active[i] + 1
             ing == [op |-> command[r].op, ident |-> i, value |-> command[r].value,
                     revision |-> n]
  <2>1. /\ ingested' = [ingested EXCEPT ![key] = ing] /\ ingested[key] = None
    BY <1>11, <2>0, CommitEffect
  <2>2. ing # None
    <3>1. active[i] + 1 \in Nat \ {0} /\ command[r].op \in {"remember", "correct"}
          /\ command[r].value \in Values
      BY <1>1, CommandShape DEF TypeOK
    <3> QED BY <3>1, NoneAssumption
  <2>3. current[r] = active[i] BY <1>11, <2>0 DEF Inv, LocksProtect, Holding, Commit
  <2>4. PICK reply \in {Reply("accepted", n), Reply("failed", 0)} : Finish(r, reply)
    BY <1>11, <2>3 DEF Commit, NextSequence
  <2>5. /\ pc'[r] = "done" /\ answer'[r] = reply /\ command' = command
        /\ \A q \in Requests \ {r} : pc'[q] = pc[q] /\ answer'[q] = answer[q]
    BY <1>1, <2>4, FinishFrame
  <2>6. /\ ingested'[key] = ing
        /\ \A k \in Keys : ingested[k] # None => ingested'[k] = ingested[k]
    BY <1>1, <2>1 DEF TypeOK
  <2>7. \A q \in Requests \ {r} : answer[q].kind = "accepted" => Key(q) # key
    BY <1>1, <2>1 DEF AnswersHold
  <2>8. reply.kind \in {"accepted", "replayed"} => reply.revision = n
    BY DEF Reply
  <2>9. ASSUME NEW q \in Requests
        PROVE  (/\ pc[q] # "done" => answer[q].kind = "none"
                /\ answer[q].kind \in {"accepted", "replayed"} =>
                       /\ ingested[Key(q)] # None
                       /\ ingested[Key(q)].ident = Ident(q)
                       /\ ingested[Key(q)].value = command[q].value
                       /\ ingested[Key(q)].revision = answer[q].revision)'
    <3>1. CASE q = r
      BY <2>0, <2>2, <2>5, <2>6, <2>8, <3>1 DEF Key, Ident
    <3>2. CASE q # r
      <4>1. Key(q) \in Keys BY <1>1, CommandShape
      <4> QED BY <1>1, <2>5, <2>6, <3>2, <4>1 DEF AnswersHold, Key, Ident
    <3> QED BY <3>1, <3>2
  <2>10. ASSUME NEW p \in Requests, NEW q \in Requests,
                answer'[p].kind = "accepted", answer'[q].kind = "accepted", p # q
         PROVE  Key(p)' # Key(q)'
    <3>1. CASE p = r BY <2>0, <2>5, <2>7, <2>10, <3>1 DEF Key
    <3>2. CASE q = r BY <2>0, <2>5, <2>7, <2>10, <3>2 DEF Key
    <3>3. CASE p # r /\ q # r BY <1>1, <2>5, <2>10, <3>3 DEF AnswersHold, Key
    <3> QED BY <3>1, <3>2, <3>3
  <2> QED BY <2>9, <2>10 DEF AnswersHold
<1>12. ASSUME NEW r \in Requests, Crash(r) PROVE AnswersHold'
  BY <1>2, <1>12 DEF Crash
<1>13. CASE Tick \/ UNCHANGED vars
  BY <1>1, <1>13 DEF Tick, vars, store, local, AnswersHold, Key, Ident
<1> QED
  BY <1>5, <1>6, <1>7, <1>8, <1>9, <1>10, <1>11, <1>12, <1>13 DEF Next, Statement

LEMMA FinishType ==
    ASSUME TypeOK, NEW r \in Requests, NEW reply \in Answer, Finish(r, reply),
           UNCHANGED <<store, expected, now, current>>
    PROVE  TypeOK'
<1> USE DEF TypeOK, Finish, store
<1>1. /\ pc' \in [Requests -> Statements \cup {"done"}]
      /\ answer' \in [Requests -> Answer]
  OBVIOUS
<1>2. /\ keyLock' \in [Keys -> Requests \cup {None}]
      /\ rowLock' \in [Idents -> Requests \cup {None}]
  OBVIOUS
<1> QED BY <1>1, <1>2

LEMMA TypeStep ==
    ASSUME Inv, [Next]_vars
    PROVE  TypeOK'
<1>1. TypeOK BY DEF Inv
<1>2. ASSUME NEW r \in Requests, NEW kind \in {"not_found", "conflict", "failed"},
             Rollback(r, kind)
      PROVE  TypeOK'
  <2>1. Reply(kind, 0) \in Answer BY DEF Reply, Answer
  <2> QED BY <1>1, <1>2, <2>1, FinishType DEF Rollback
<1>3. ASSUME NEW r \in Requests, Replay(r), ingested[Key(r)] # None PROVE TypeOK'
  <2>1. ingested[Key(r)].revision \in Nat
    BY <1>1, <1>3, CommandShape DEF TypeOK, Ingestion
  <2>2. /\ Reply("replayed", ingested[Key(r)].revision) \in Answer
        /\ Reply("conflict", 0) \in Answer
    BY <2>1 DEF Reply, Answer
  <2>3. PICK reply \in Answer : Finish(r, reply) BY <1>3, <2>2 DEF Replay
  <2> QED BY <1>1, <1>3, <2>3, FinishType DEF Replay
<1>4. ASSUME NEW r \in Requests, NEW statement \in Statements, Goto(r, statement),
             UNCHANGED <<store, answer>>,
             keyLock' \in {keyLock, [keyLock EXCEPT ![Key(r)] = r]},
             rowLock' \in {rowLock, [rowLock EXCEPT ![Ident(r)] = r]},
             expected' \in [Requests -> Nat],
             now' \in [Requests -> Time], current' \in [Requests -> Nat]
      PROVE  TypeOK'
  BY <1>1, <1>4 DEF Goto, TypeOK, store
<1>5. ASSUME NEW r \in Requests, Begin(r) PROVE TypeOK'
  <2>1. active[Ident(r)] \in Nat BY <1>1, CommandShape DEF TypeOK
  <2>2. expected' \in [Requests -> Nat] BY <1>1, <1>5, <2>1 DEF Begin, TypeOK
  <2> QED BY <1>1, <1>4, <1>5, <2>2 DEF Begin, Statements, locks, TypeOK
<1>6. ASSUME NEW r \in Requests, ReadSnapshot(r) PROVE TypeOK'
  <2>1. CASE active[Ident(r)] = 0 BY <1>2, <1>6, <2>1 DEF ReadSnapshot
  <2>2. CASE active[Ident(r)] # 0
    <3>1. active[Ident(r)] \in Nat BY <1>1, CommandShape DEF TypeOK
    <3>2. current' \in [Requests -> Nat] BY <1>1, <1>6, <2>2, <3>1 DEF ReadSnapshot, TypeOK
    <3> QED BY <1>1, <1>4, <1>6, <2>2, <3>2 DEF ReadSnapshot, Statements, locks, TypeOK
  <2> QED BY <2>1, <2>2
<1>7. ASSUME NEW r \in Requests, Lookup(r) PROVE TypeOK'
  BY <1>1, <1>2, <1>3, <1>4, <1>7 DEF Lookup, Statements, locks, TypeOK
<1>8. ASSUME NEW r \in Requests, SaveIngestion(r) PROVE TypeOK'
  BY <1>1, <1>3, <1>4, <1>8 DEF SaveIngestion, Statements, TypeOK
<1>9. ASSUME NEW r \in Requests, ReadClock(r) PROVE TypeOK'
  <2>1. now' \in [Requests -> Time] BY <1>1, <1>9 DEF ReadClock, TypeOK
  <2> QED BY <1>1, <1>4, <1>9, <2>1 DEF ReadClock, Statements, locks, TypeOK
<1>10. ASSUME NEW r \in Requests, ReadCurrent(r) PROVE TypeOK'
  <2>1. active[Ident(r)] \in Nat BY <1>1, CommandShape DEF TypeOK
  <2>2. current' \in [Requests -> Nat] BY <1>1, <1>10, <2>1 DEF ReadCurrent, TypeOK
  <2> QED BY <1>1, <1>4, <1>10, <2>2 DEF ReadCurrent, Statements, locks, TypeOK
<1>11. ASSUME NEW r \in Requests, LockRow(r) PROVE TypeOK'
  BY <1>1, <1>4, <1>11 DEF LockRow, Statements, TypeOK
<1>12. ASSUME NEW r \in Requests, AddMemory(r) \/ AppendRevision(r) PROVE TypeOK'
  BY <1>2, <1>11, <1>12 DEF AddMemory, AppendRevision
<1>13. ASSUME NEW r \in Requests, Commit(r) PROVE TypeOK'
  <2>0. PICK i \in Idents, key \in Keys : i = Ident(r) /\ key = Key(r)
    BY <1>1, CommandShape
  <2> DEFINE n == active[i] + 1
             ing == [op |-> command[r].op, ident |-> i, value |-> command[r].value,
                     revision |-> n]
  <2>1. PICK row \in Row :
            /\ revisions' = revisions \cup {row} /\ active' = [active EXCEPT ![i] = n]
            /\ ingested' = [ingested EXCEPT ![key] = ing]
    BY <1>13, <2>0, CommitEffect
  <2>2. n \in Nat \ {0} /\ ing \in Ingestion
    BY <1>1, CommandShape DEF TypeOK, Ingestion
  <2>3. current[r] = active[i] BY <1>13, <2>0 DEF Inv, LocksProtect, Holding, Commit
  <2>4. /\ ingested' \in [Keys -> Ingestion \cup {None}] /\ revisions' \subseteq Row
        /\ active' \in [Idents -> Nat]
    BY <1>1, <2>1, <2>2 DEF TypeOK
  <2>5. Reply("accepted", n) \in Answer /\ Reply("failed", 0) \in Answer
    BY <2>2 DEF Reply, Answer
  <2>6. PICK reply \in Answer : Finish(r, reply)
    BY <1>13, <2>3, <2>5 DEF Commit, NextSequence
  <2>7. /\ keyLock' \in [Keys -> Requests \cup {None}]
        /\ rowLock' \in [Idents -> Requests \cup {None}]
    BY <1>1, <2>6 DEF Finish, TypeOK
  <2>8. /\ pc' \in [Requests -> Statements \cup {"done"}]
        /\ answer' \in [Requests -> Answer] /\ UNCHANGED <<clock, command>>
    BY <1>1, <2>6 DEF Finish, TypeOK
  <2>9. UNCHANGED <<expected, now, current>> BY <1>13 DEF Commit
  <2> QED BY <1>1, <2>4, <2>7, <2>8, <2>9 DEF TypeOK
<1>14. ASSUME NEW r \in Requests, Crash(r) PROVE TypeOK'
  BY <1>2, <1>14 DEF Crash
<1>15. CASE Tick
  <2>1. clock' \in Time BY <1>1, <1>15, ClockAssumption DEF Tick, TypeOK, Time
  <2> QED BY <1>1, <1>15, <2>1 DEF Tick, TypeOK, store, locks, local
<1>16. CASE UNCHANGED vars
  BY <1>1, <1>16 DEF vars, store, locks, local, TypeOK
<1> QED
  BY <1>5, <1>6, <1>7, <1>8, <1>9, <1>10, <1>12, <1>13, <1>14, <1>15, <1>16
     DEF Next, Statement

THEOREM Invariance == Spec => []Inv
<1>1. Inv /\ [Next]_vars => Inv'
  BY TypeStep, ChainStep, SupportStep, LocksStep, TablesStep, AnswersStep DEF Inv
<1> QED BY InitInv, <1>1, PTL DEF Spec

\* Tables, locks and request states stay well typed.
THEOREM TypeCorrect == Spec => []TypeOK
<1>1. Inv => TypeOK BY DEF Inv
<1> QED BY Invariance, <1>1, PTL

\* However many requests interleave, the rows of an identity are one chain.
THEOREM ChainCorrect == Spec => []ChainIsLinear
<1>1. Inv => ChainIsLinear BY DEF Inv
<1> QED BY Invariance, <1>1, PTL

\* No evidence is lost to a race between two revisions of one identity.
THEOREM SupportCorrect == Spec => []SupportFollowsChain
<1>1. Inv => SupportFollowsChain BY DEF Inv
<1> QED BY Invariance, <1>1, PTL

\* A command is applied at most once and every replay names its revision.
THEOREM AppliedOnceCorrect == Spec => []AppliedOnce
<1>1. ASSUME Inv PROVE AppliedOnce
  <2>1. TypeOK /\ ChainIsLinear /\ TablesAgree /\ AnswersHold BY <1>1 DEF Inv
  <2>2. \A row \in revisions : row.ident \in Idents BY <2>1 DEF TypeOK, Row
  <2>3. \A row1, row2 \in revisions : row1.key = row2.key => row1 = row2
    BY <2>1, <2>2 DEF TablesAgree, ChainIsLinear, RowsOf
  <2>4. ASSUME NEW r \in Requests, answer[r].kind \in {"accepted", "replayed"}
        PROVE  LET row == RowAt(Ident(r), answer[r].revision)
               IN  /\ answer[r].revision \in 1..active[Ident(r)]
                   /\ row.key = Key(r)
                   /\ row.value = command[r].value
    <3>1. /\ Key(r) \in Keys /\ ingested[Key(r)] # None
          /\ ingested[Key(r)].ident = Ident(r)
          /\ ingested[Key(r)].value = command[r].value
          /\ ingested[Key(r)].revision = answer[r].revision
      BY <2>1, <2>4, CommandShape DEF AnswersHold
    <3>2. PICK row \in revisions : /\ row.ident = Ident(r)
                                   /\ row.sequence = answer[r].revision
                                   /\ row.key = Key(r) /\ row.value = command[r].value
      BY <2>1, <3>1 DEF TablesAgree
    <3>3. RowAt(Ident(r), answer[r].revision) = row
      BY <2>1, <2>2, <3>2, RowAtUnique
    <3>4. answer[r].revision \in 1..active[Ident(r)]
      BY <2>1, <2>2, <3>2 DEF ChainIsLinear, RowsOf
    <3> QED BY <3>2, <3>3, <3>4
  <2>5. \A r, q \in Requests :
            answer[r].kind = "accepted" /\ answer[q].kind = "accepted" /\ r # q
                => Key(r) # Key(q)
    BY <2>1 DEF AnswersHold
  <2> QED BY <2>3, <2>4, <2>5 DEF AppliedOnce
<1> QED BY Invariance, <1>1, PTL
-----------------------------------------------------------------------------
(* The PostgreSQL store implements RevisionChain.                          *)

EntryAt(i, n) == [key |-> RowAt(i, n).key, value |-> RowAt(i, n).value]

Chain(i) == [n \in 1..active[i] |-> EntryAt(i, n)]

\* The mapping of PgMemory in these names.
LEMMA AbstractChain ==
    [s \in {"scope"} |-> [i \in Idents |->
        [n \in 1..active[i] |-> [key |-> RowAt(i, n).key, value |-> RowAt(i, n).value]]]]
    = [s \in {"scope"} |-> [i \in Idents |-> Chain(i)]]
  BY DEF Chain, EntryAt

\* A commit appends the request's key and value to the chain of its identity.
LEMMA CommitAppends ==
    ASSUME Inv, NEW r \in Requests, Commit(r),
           NEW i, i = Ident(r), NEW key, key = Key(r), NEW value, value = command[r].value
    PROVE  /\ Chain(i)' = Append(Chain(i), [key |-> key, value |-> value])
           /\ \A j \in Idents \ {i} : Chain(j)' = Chain(j)
<1>0. i \in Idents BY CommandShape DEF Inv
<1>1. TypeOK /\ ChainIsLinear /\ ChainIsLinear'
  BY ChainStep DEF Inv, Next, Statement
<1>2. PICK row \in Row :
          /\ row.ident = i /\ row.key = key /\ row.value = value
          /\ row.sequence = active[i] + 1
          /\ revisions' = revisions \cup {row}
          /\ active' = [active EXCEPT ![i] = active[i] + 1]
  BY CommitEffect
<1>3. PICK len \in Nat : len = active[i] BY <1>0, <1>1 DEF TypeOK
<1>4. active'[i] = len + 1 /\ \A j \in Idents \ {i} : active'[j] = active[j]
  BY <1>0, <1>1, <1>2, <1>3 DEF TypeOK
<1>5. \A j \in Idents : \A n \in 1..active[j] : EntryAt(j, n)' = EntryAt(j, n)
  BY RowAtStable DEF EntryAt
<1>6. EntryAt(i, len + 1)' = [key |-> key, value |-> value]
  <2>1. row \in revisions' /\ row.sequence = len + 1 BY <1>2, <1>3
  <2>2. \A other \in revisions' :
            other.ident = i /\ other.sequence = len + 1 => other = row
    BY <1>0, <1>1, <1>2, <2>1 DEF ChainIsLinear, RowsOf
  <2>3. RowAt(i, len + 1)' = row BY <1>2, <2>1, <2>2 DEF RowAt
  <2> QED BY <1>2, <2>3 DEF EntryAt
<1>7. \A j \in Idents \ {i} : Chain(j)' = Chain(j)
  <2> SUFFICES ASSUME NEW j \in Idents \ {i} PROVE Chain(j)' = Chain(j)
    OBVIOUS
  <2>1. \A n \in 1..active[j] : EntryAt(j, n)' = EntryAt(j, n) BY <1>5
  <2>2. active'[j] = active[j] BY <1>4
  <2> QED BY <2>1, <2>2 DEF Chain
<1>8. Chain(i)' = Append(Chain(i), [key |-> key, value |-> value])
  <2> DEFINE entries == {EntryAt(i, n)' : n \in 1..(len + 1)}
  <2>1. \A n \in 1..len : n \in 1..(len + 1) /\ EntryAt(i, n)' = EntryAt(i, n)
    BY <1>0, <1>3, <1>5
  <2>2. Chain(i) = [n \in 1..len |-> EntryAt(i, n)] BY <1>3 DEF Chain
  <2>3. Chain(i)' = [n \in 1..(len + 1) |-> EntryAt(i, n)'] BY <1>4 DEF Chain
  <2>4. Chain(i) \in [1..len -> entries]
    <3>1. \A n \in 1..len : EntryAt(i, n) \in entries BY <2>1
    <3> QED BY <2>2, <3>1
  <2>5. Chain(i)' \in [1..(len + 1) -> entries] BY <2>3
  <2>6. \A n \in 1..len : Chain(i)'[n] = Chain(i)[n] BY <2>1, <2>2, <2>3
  <2>7. Chain(i)'[len + 1] = [key |-> key, value |-> value]
    <3>1. len + 1 \in 1..(len + 1) OBVIOUS
    <3> QED BY <1>6, <2>3, <3>1
  <2> HIDE DEF entries
  <2> QED BY <2>4, <2>5, <2>6, <2>7, LongerIsAppend
<1> QED BY <1>7, <1>8

LEMMA CommitRefines ==
    ASSUME Inv, NEW r \in Requests, Commit(r)
    PROVE  Abstract!Next
<1>0. PICK i \in Idents, key \in Keys, value \in Values :
          i = Ident(r) /\ key = Key(r) /\ value = command[r].value
  BY CommandShape DEF Inv
<1> DEFINE chain == [s \in {"scope"} |-> [j \in Idents |-> Chain(j)]]
           entry == [key |-> key, value |-> value]
<1>1. /\ Chain(i)' = Append(Chain(i), entry)
      /\ \A j \in Idents \ {i} : Chain(j)' = Chain(j)
  BY <1>0, CommitAppends
<1>2. \A old \in revisions : old.key # key BY <1>0, CommitEffect
<1>3. \A j \in Idents : \A n \in DOMAIN chain["scope"][j] :
          chain["scope"][j][n].key # key
  <2> SUFFICES ASSUME NEW j \in Idents, NEW n \in 1..active[j]
               PROVE  EntryAt(j, n).key # key
    BY DEF Chain
  <2>1. RowAt(j, n) \in revisions BY RowAtExists DEF Inv
  <2> QED BY <1>2, <2>1 DEF EntryAt
<1>4. chain' = [chain EXCEPT !["scope"][i] = Append(@, entry)]
  <2> HIDE DEF entry
  <2>1. [s \in {"scope"} |-> [j \in Idents |-> Chain(j)']] =
            [chain EXCEPT !["scope"] =
                [chain["scope"] EXCEPT ![i] = Append(chain["scope"][i], entry)]]
    BY <1>1
  <2> QED BY <2>1
<1>5. Abstract!Accept("scope", i, key, value)
  BY <1>3, <1>4 DEF Abstract!Accept, Chain, EntryAt
<1> QED BY <1>5 DEF Abstract!Next

\* However requests interleave, fail and are retried, each commit appends one
\* revision to one chain under a key no chain holds, and no other step shows.
THEOREM Refinement == Spec => ImplementsRevisionChain
<1> DEFINE chain == [s \in {"scope"} |-> [i \in Idents |->
        [n \in 1..active[i] |-> [key |-> RowAt(i, n).key, value |-> RowAt(i, n).value]]]]
<1>1. Init => Abstract!Init
  <2> SUFFICES ASSUME Init PROVE Abstract!Init OBVIOUS
  <2>1. \A i \in Idents : Chain(i) = <<>>
    <3>1. \A i \in Idents : Chain(i) \in [1..0 -> {}] BY DEF Init, Chain
    <3> QED BY <3>1, FunctionOnNothing
  <2> QED BY <2>1, AbstractChain DEF Abstract!Init, Abstract!Empty
<1>2. Inv /\ [Next]_vars => [Abstract!Next]_chain
  <2> SUFFICES ASSUME Inv, [Next]_vars PROVE [Abstract!Next]_chain
    OBVIOUS
  <2>1. ASSUME NEW r \in Requests, Commit(r) PROVE [Abstract!Next]_chain
    BY <2>1, CommitRefines
  <2>2. CASE UNCHANGED store BY <2>2 DEF store, RowAt
  <2> QED BY <2>1, <2>2, StoreStep DEF vars, store
<1> QED BY <1>1, <1>2, Invariance, PTL DEF Spec, ImplementsRevisionChain, Abstract!Spec
=============================================================================
