-------------------------- MODULE ExperienceProofs --------------------------
(***************************************************************************)
(* Proofs about PreferenceLedger and Experience, for any number of scopes, *)
(* identities, traces, keys and weights and any clock bound.  Of the       *)
(* ledger: type correctness, that retries can be answered, that a read of  *)
(* the present sees the active revision, that its evidence explains a      *)
(* belief, and that RevisionChain is implemented.  Of recall and feedback: *)
(* that no outcome is attributed to a revision that was not shown, that    *)
(* utility is the sum of the outcomes, and that a recall can be repeated.  *)
(***************************************************************************)
EXTENDS Experience, DataFacts, TLAPS

-----------------------------------------------------------------------------
(* The ledger.                                                             *)

\* Revisions are recorded in order and none in the future.
RecordedInOrder ==
    \A s \in Scopes, i \in Idents : \A n \in DOMAIN history[s][i] :
        /\ history[s][i][n].recorded_at <= clock
        /\ \A m \in 1..n : history[s][i][m].recorded_at <= history[s][i][n].recorded_at

\* A belief cites some evidence, the newest last.
EvidenceCited ==
    \A s \in Scopes, i \in Idents : \A n \in DOMAIN history[s][i] :
        history[s][i][n].evidence # <<>>

Inv == LedgerTypeOK /\ RecordedInOrder /\ EvidenceCited /\ RetryResolvable

\* Combined confidence is a confidence.
LEMMA CombinedConfidenceType ==
    ASSUME NEW a \in Confidence, NEW b \in Confidence
    PROVE  CombinedConfidence(a, b) \in Confidence
<1> DEFINE x == 1000 - a
           y == 1000 - b
           p == x * y
<1>1. x \in 0..1000 /\ y \in 0..1000 BY DEF Confidence
<1>2. p \in Nat /\ p <= 1000 * 1000
  <2> HIDE DEF x, y
  <2>1. x * y \in Nat /\ x * y <= 1000 * y BY <1>1
  <2> QED BY <1>1, <2>1
<1>3. p \div 1000 \in 0..1000
  <2> HIDE DEF p
  <2> QED BY <1>2
<1>4. 1000 - p \div 1000 \in 0..1000
  <2> HIDE DEF p
  <2> QED BY <1>3
<1> QED BY <1>4 DEF CombinedConfidence, Confidence

LEMMA BeliefType ==
    ASSUME NEW confidence \in Confidence, NEW source \in Sources, NEW at \in Time
    PROVE  /\ Fresh(confidence, source, at) \in Belief
           /\ \A belief \in Belief : Reinforced(belief, confidence, source, at) \in Belief
<1>1. Fresh(confidence, source, at) \in Belief BY DEF Fresh, Belief
<1>2. ASSUME NEW belief \in Belief
      PROVE  Reinforced(belief, confidence, source, at) \in Belief
  <2>1. /\ belief.confidence \in Confidence /\ belief.support_count \in Nat \ {0}
        /\ belief.source_keys \in SUBSET Sources /\ belief.last_evidence_at \in Time
    BY DEF Belief
  <2>2. CombinedConfidence(belief.confidence, confidence) \in Confidence
    BY <2>1, CombinedConfidenceType
  <2>3. Larger(belief.last_evidence_at, at) \in Time BY <2>1 DEF Larger
  <2>4. belief.source_keys \cup {source} \in SUBSET Sources BY <2>1
  <2> QED BY <2>1, <2>2, <2>3, <2>4 DEF Reinforced, Belief
<1> QED BY <1>1, <1>2

LEMMA HistoryShape ==
    ASSUME LedgerTypeOK, NEW s \in Scopes, NEW i \in Idents
    PROVE  /\ history[s][i] \in Seq(Revision)
           /\ Len(history[s][i]) \in Nat
           /\ DOMAIN history[s][i] = 1..Len(history[s][i])
           /\ \A n \in DOMAIN history[s][i] : history[s][i][n] \in Revision
  BY DEF LedgerTypeOK

\* The revision a candidate produces is well formed, recorded now and cites its key last.
LEMMA NextRevisionShape ==
    ASSUME LedgerTypeOK, EvidenceCited, NEW s \in Scopes, NEW i \in Idents, NEW k \in Keys,
           NEW value \in Values, NEW confidence \in Confidence, NEW source \in Sources,
           NEW at \in Time
    PROVE  LET rev == NextRevision(s, i, k, value, confidence, source, at)
           IN  /\ rev \in Revision
               /\ rev.recorded_at = clock /\ rev.value = value /\ rev.valid_from = at
               /\ rev.evidence # <<>> /\ rev.evidence[Len(rev.evidence)] = k
<1> DEFINE rev == NextRevision(s, i, k, value, confidence, source, at)
           supports == history[s][i] # <<>> /\ Latest(s, i).value = value
<1>1. clock \in Time BY DEF LedgerTypeOK
<1>2. /\ rev = [value |-> value, belief |-> rev.belief, evidence |-> rev.evidence,
                valid_from |-> at, recorded_at |-> clock]
      /\ rev.value = value /\ rev.valid_from = at /\ rev.recorded_at = clock
  BY DEF NextRevision
<1>3. CASE supports
  <2>1. Latest(s, i) \in Revision /\ Latest(s, i).evidence # <<>>
    <3>1. Len(history[s][i]) \in DOMAIN history[s][i] BY <1>3, HistoryShape
    <3> QED BY <3>1, HistoryShape DEF Latest, EvidenceCited
  <2>2. Latest(s, i).belief \in Belief /\ Latest(s, i).evidence \in Seq(Keys)
    BY <2>1 DEF Revision
  <2>3. /\ rev.belief = Reinforced(Latest(s, i).belief, confidence, source, at)
        /\ rev.evidence = Append(Latest(s, i).evidence, k)
    BY <1>3 DEF NextRevision
  <2>4. rev.belief \in Belief BY <2>2, <2>3, BeliefType
  <2>5. /\ rev.evidence \in Seq(Keys) /\ rev.evidence # <<>>
        /\ rev.evidence[Len(rev.evidence)] = k
    BY <2>2, <2>3
  <2> QED BY <1>1, <1>2, <2>4, <2>5 DEF Revision
<1>4. CASE ~supports
  <2>1. rev.belief = Fresh(confidence, source, at) /\ rev.evidence = <<k>>
    BY <1>4 DEF NextRevision
  <2>2. rev.belief \in Belief BY <2>1, BeliefType
  <2>3. /\ rev.evidence \in Seq(Keys) /\ rev.evidence # <<>>
        /\ rev.evidence[Len(rev.evidence)] = k
    BY <2>1
  <2> QED BY <1>1, <1>2, <2>2, <2>3 DEF Revision
<1> QED BY <1>3, <1>4

\* Every ingestion is the acceptance of one candidate under an unused key.
LEMMA IngestIsAccept ==
    ASSUME LedgerTypeOK, Ingest
    PROVE  \E s \in Scopes, k \in Keys, i \in Idents, value \in Values,
              source \in Sources, at \in Time, confidence \in Confidence,
              kind \in {"message", "user_feedback"} :
               /\ ingested[s][k] = None
               /\ AcceptCandidate(s, k, kind, i, value, confidence, source, at)
               /\ UNCHANGED clock
<1>1. PICK s \in Scopes, k \in Keys, i \in Idents, value \in Values,
           source \in Sources, at \in Time :
          \/ \E confidence \in Confidences :
                 RememberPreference(s, k, i, value, confidence, source, at)
          \/ CorrectPreference(s, k, i, value, source, at)
  BY DEF Ingest
<1>2. CASE CorrectPreference(s, k, i, value, source, at)
  <2>1. 1000 \in Confidence BY DEF Confidence
  <2>2. /\ ingested[s][k] = None /\ UNCHANGED clock
        /\ AcceptCandidate(s, k, "user_feedback", i, value, 1000, source, at)
    BY <1>2 DEF CorrectPreference
  <2> QED BY <2>1, <2>2
<1>3. ASSUME NEW confidence \in Confidences,
             RememberPreference(s, k, i, value, confidence, source, at)
      PROVE  /\ confidence \in Confidence /\ ingested[s][k] = None /\ UNCHANGED clock
             /\ AcceptCandidate(s, k, "message", i, value, confidence, source, at)
  BY <1>3, ConfidencesAssumption DEF RememberPreference
<1> QED BY <1>1, <1>2, <1>3

\* What an ingestion does: one well-formed revision, recorded now, is appended to
\* one history, and its key now names it.
LEMMA IngestEffect ==
    ASSUME Inv, Ingest
    PROVE  \E s \in Scopes, k \in Keys, i \in Idents, rev \in Revision, ing \in Ingestion :
               /\ ingested[s][k] = None
               /\ history'[s][i] = Append(history[s][i], rev)
               /\ \A t \in Scopes, j \in Idents :
                      t # s \/ j # i => history'[t][j] = history[t][j]
               /\ history' \in [Scopes -> [Idents -> Seq(Revision)]]
               /\ ingested' = [ingested EXCEPT ![s][k] = ing]
               /\ rev.recorded_at = clock
               /\ rev.evidence # <<>> /\ rev.evidence[Len(rev.evidence)] = k
               /\ ing.ident = i /\ ing.revision = Len(history[s][i]) + 1
               /\ ing.value = rev.value /\ ing.occurred_at = rev.valid_from
               /\ UNCHANGED clock
<1>1. LedgerTypeOK /\ EvidenceCited BY DEF Inv
<1>2. PICK s \in Scopes, k \in Keys, i \in Idents, value \in Values,
           source \in Sources, at \in Time, confidence \in Confidence,
           kind \in {"message", "user_feedback"} :
          /\ ingested[s][k] = None
          /\ AcceptCandidate(s, k, kind, i, value, confidence, source, at)
          /\ UNCHANGED clock
  BY <1>1, IngestIsAccept
<1> DEFINE rev == NextRevision(s, i, k, value, confidence, source, at)
           ing == [kind |-> kind, ident |-> i, value |-> value, source |-> source,
                   confidence |-> confidence, occurred_at |-> at,
                   revision |-> Len(history[s][i]) + 1]
<1>3. /\ history' = [history EXCEPT ![s][i] = Append(@, rev)]
      /\ ingested' = [ingested EXCEPT ![s][k] = ing]
  BY <1>2 DEF AcceptCandidate
<1>4. /\ rev \in Revision /\ rev.recorded_at = clock
      /\ rev.value = value /\ rev.valid_from = at
      /\ rev.evidence # <<>> /\ rev.evidence[Len(rev.evidence)] = k
  BY <1>1, NextRevisionShape
<1>5. ing \in Ingestion
  <2>1. Len(history[s][i]) + 1 \in Nat \ {0} BY <1>1, HistoryShape
  <2> QED BY <2>1 DEF Ingestion
<1> HIDE DEF rev
<1>6. /\ history \in [Scopes -> [Idents -> Seq(Revision)]]
      /\ history[s][i] \in Seq(Revision)
  BY <1>1 DEF LedgerTypeOK
<1>7. /\ history'[s][i] = Append(history[s][i], rev)
      /\ \A t \in Scopes, j \in Idents :
             t # s \/ j # i => history'[t][j] = history[t][j]
  BY <1>3, <1>6
<1>8. history' \in [Scopes -> [Idents -> Seq(Revision)]]
  <2>1. Append(history[s][i], rev) \in Seq(Revision) BY <1>4, <1>6
  <2> QED BY <1>3, <1>6, <2>1
<1>9. /\ ing.ident = i /\ ing.revision = Len(history[s][i]) + 1
      /\ ing.value = rev.value /\ ing.occurred_at = rev.valid_from
  BY <1>4
<1> HIDE DEF ing
<1>10. rev \in Revision /\ ing \in Ingestion BY <1>4, <1>5
<1> QED
  <2> USE <1>10
  <2> WITNESS s \in Scopes, k \in Keys, i \in Idents, rev \in Revision, ing \in Ingestion
  <2> QED BY <1>2, <1>3, <1>4, <1>7, <1>8, <1>9

LEMMA InitInv == LedgerInit => Inv
<1> SUFFICES ASSUME LedgerInit PROVE Inv OBVIOUS
<1>1. \A s \in Scopes, i \in Idents : history[s][i] = <<>>
  BY DEF LedgerInit, NoHistory
<1>2. LedgerTypeOK
  <2>1. clock \in Time BY ClockAssumption DEF LedgerInit, Time
  <2>2. ingested \in [Scopes -> [Keys -> Ingestion \cup {None}]]
    BY DEF LedgerInit, NoIngestion
  <2>3. history \in [Scopes -> [Idents -> Seq(Revision)]]
    BY DEF LedgerInit, NoHistory
  <2> QED BY <2>1, <2>2, <2>3 DEF LedgerTypeOK
<1>3. RecordedInOrder BY <1>1 DEF RecordedInOrder
<1>4. EvidenceCited BY <1>1 DEF EvidenceCited
<1>5. RetryResolvable
  BY <1>1 DEF LedgerInit, NoIngestion, RetryResolvable
<1> QED BY <1>2, <1>3, <1>4, <1>5 DEF Inv

\* Erasure leaves one scope with nothing and the others as they are.
LEMMA EraseEffect ==
    ASSUME LedgerTypeOK, NEW s \in Scopes, EraseScope(s)
    PROVE  /\ \A i \in Idents : history'[s][i] = <<>>
           /\ \A k \in Keys : ingested'[s][k] = None
           /\ \A t \in Scopes \ {s} : history'[t] = history[t] /\ ingested'[t] = ingested[t]
           /\ LedgerTypeOK'
           /\ clock' = clock
<1>1. /\ history' = [history EXCEPT ![s] = NoHistory]
      /\ ingested' = [ingested EXCEPT ![s] = NoIngestion] /\ clock' = clock
  BY DEF EraseScope, EraseLedger
<1>2. NoHistory \in [Idents -> Seq(Revision)] /\ \A i \in Idents : NoHistory[i] = <<>>
  BY DEF NoHistory
<1>3. /\ NoIngestion \in [Keys -> Ingestion \cup {None}]
      /\ \A k \in Keys : NoIngestion[k] = None
  BY DEF NoIngestion
<1> QED BY <1>1, <1>2, <1>3 DEF LedgerTypeOK

LEMMA TypeStep ==
    ASSUME Inv, [LedgerNext]_ledgerVars
    PROVE  LedgerTypeOK'
<1>1. LedgerTypeOK BY DEF Inv
<1>2. CASE Ingest
  <2>1. PICK s \in Scopes, k \in Keys, i \in Idents, rev \in Revision, ing \in Ingestion :
            /\ history' \in [Scopes -> [Idents -> Seq(Revision)]]
            /\ ingested' = [ingested EXCEPT ![s][k] = ing]
            /\ UNCHANGED clock
    BY <1>2, IngestEffect
  <2> QED BY <1>1, <2>1 DEF LedgerTypeOK
<1>3. ASSUME NEW s \in Scopes, EraseScope(s) PROVE LedgerTypeOK'
  BY <1>1, <1>3, EraseEffect
<1>4. CASE Tick
  BY <1>1, <1>4, ClockAssumption DEF Tick, LedgerTypeOK, Time
<1>5. CASE UNCHANGED ledgerVars
  BY <1>1, <1>5 DEF ledgerVars, LedgerTypeOK
<1> QED BY <1>2, <1>3, <1>4, <1>5 DEF LedgerNext

\* The clock never goes back and revisions are recorded at its reading.
LEMMA OrderStep ==
    ASSUME Inv, [LedgerNext]_ledgerVars
    PROVE  RecordedInOrder' /\ EvidenceCited'
<1>1. LedgerTypeOK /\ RecordedInOrder /\ EvidenceCited BY DEF Inv
<1>2. CASE Ingest
  <2>1. PICK s \in Scopes, i \in Idents, rev \in Revision :
            /\ history'[s][i] = Append(history[s][i], rev)
            /\ \A t \in Scopes, j \in Idents :
                   t # s \/ j # i => history'[t][j] = history[t][j]
            /\ rev.recorded_at = clock /\ rev.evidence # <<>>
            /\ UNCHANGED clock
    BY <1>2, IngestEffect
  <2>2. ASSUME NEW t \in Scopes, NEW j \in Idents, NEW n \in DOMAIN history'[t][j]
        PROVE  /\ history'[t][j][n].recorded_at <= clock'
               /\ \A m \in 1..n :
                      history'[t][j][m].recorded_at <= history'[t][j][n].recorded_at
               /\ history'[t][j][n].evidence # <<>>
    <3>1. CASE t # s \/ j # i
      BY <1>1, <2>1, <2>2, <3>1 DEF RecordedInOrder, EvidenceCited
    <3>2. CASE t = s /\ j = i
      <4> DEFINE len == Len(history[s][i])
      <4>1. /\ history[s][i] \in Seq(Revision) /\ len \in Nat
            /\ DOMAIN history[s][i] = 1..len /\ n \in 1..(len + 1)
            /\ history'[s][i][len + 1] = rev
            /\ \A m \in 1..len : history'[s][i][m] = history[s][i][m]
        BY <1>1, <2>1, <2>2, <3>2, HistoryShape
      <4>2. clock \in Int BY <1>1 DEF LedgerTypeOK, Time
      <4>3. \A m \in 1..len : history[s][i][m].recorded_at <= clock
        BY <1>1, <4>1 DEF RecordedInOrder
      <4> HIDE DEF len
      <4>4. CASE n = len + 1
        <5>1. \A m \in 1..n : m = n \/ m \in 1..len BY <4>1, <4>4
        <5>2. history'[s][i][n] = rev BY <4>1, <4>4
        <5>3. ASSUME NEW m \in 1..n PROVE history'[s][i][m].recorded_at <= rev.recorded_at
          <6>1. CASE m = n
            <7>1. history'[s][i][m].recorded_at = clock BY <2>1, <5>2, <6>1
            <7> QED BY <7>1, <2>1, <4>2
          <6>2. CASE m \in 1..len
            <7>1. history'[s][i][m].recorded_at <= clock BY <4>1, <4>3, <6>2
            <7> QED BY <7>1, <2>1
          <6> QED BY <5>1, <6>1, <6>2
        <5>4. /\ history'[s][i][n].recorded_at <= clock'
              /\ history'[s][i][n].evidence # <<>>
          <6>1. rev.recorded_at <= clock' BY <2>1, <4>2
          <6> QED BY <2>1, <5>2, <6>1
        <5> QED BY <3>2, <5>2, <5>3, <5>4
      <4>5. CASE n \in 1..len
        <5>1. \A m \in 1..n : m \in 1..len BY <4>1, <4>5
        <5>2. /\ history[s][i][n].recorded_at <= clock
              /\ \A m \in 1..n : history[s][i][m].recorded_at <= history[s][i][n].recorded_at
              /\ history[s][i][n].evidence # <<>>
          BY <1>1, <4>1, <4>5 DEF RecordedInOrder, EvidenceCited
        <5> QED BY <2>1, <3>2, <4>1, <4>5, <5>1, <5>2
      <4> QED BY <4>1, <4>4, <4>5
    <3> QED BY <3>1, <3>2
  <2> QED BY <2>2 DEF RecordedInOrder, EvidenceCited
<1>3. ASSUME NEW s \in Scopes, EraseScope(s) PROVE RecordedInOrder' /\ EvidenceCited'
  <2>1. ASSUME NEW t \in Scopes, NEW j \in Idents
        PROVE  history'[t][j] = <<>> \/ history'[t][j] = history[t][j]
    BY <1>1, <1>3, EraseEffect
  <2>2. clock' = clock BY <1>1, <1>3, EraseEffect
  <2> QED BY <1>1, <2>1, <2>2 DEF RecordedInOrder, EvidenceCited
<1>4. CASE Tick
  <2>1. history' = history /\ clock' = clock + 1 /\ clock \in Int
    BY <1>1, <1>4 DEF Tick, LedgerTypeOK, Time
  <2>2. ASSUME NEW s \in Scopes, NEW i \in Idents, NEW n \in DOMAIN history[s][i]
        PROVE  history[s][i][n].recorded_at <= clock'
    <3>1. history[s][i][n].recorded_at \in Int
      BY <1>1, HistoryShape DEF Revision, Time
    <3>2. history[s][i][n].recorded_at <= clock BY <1>1 DEF RecordedInOrder
    <3> QED BY <2>1, <3>1, <3>2
  <2> QED BY <1>1, <2>1, <2>2 DEF RecordedInOrder, EvidenceCited
<1>5. CASE UNCHANGED ledgerVars
  BY <1>1, <1>5 DEF ledgerVars, RecordedInOrder, EvidenceCited
<1> QED BY <1>2, <1>3, <1>4, <1>5 DEF LedgerNext

\* Keys and revisions stay matched: an ingestion adds one of each.
LEMMA RetryStep ==
    ASSUME Inv, [LedgerNext]_ledgerVars
    PROVE  RetryResolvable'
<1>1. LedgerTypeOK /\ RetryResolvable BY DEF Inv
<1>2. CASE Ingest
  <2>1. PICK s \in Scopes, k \in Keys, i \in Idents, rev \in Revision, ing \in Ingestion :
            /\ ingested[s][k] = None
            /\ history'[s][i] = Append(history[s][i], rev)
            /\ \A t \in Scopes, j \in Idents :
                   t # s \/ j # i => history'[t][j] = history[t][j]
            /\ ingested' = [ingested EXCEPT ![s][k] = ing]
            /\ rev.evidence[Len(rev.evidence)] = k
            /\ ing.ident = i /\ ing.revision = Len(history[s][i]) + 1
            /\ ing.value = rev.value /\ ing.occurred_at = rev.valid_from
    BY <1>2, IngestEffect
  <2> DEFINE len == Len(history[s][i])
  <2>2. /\ history[s][i] \in Seq(Revision) /\ len \in Nat
        /\ DOMAIN history[s][i] = 1..len /\ DOMAIN history'[s][i] = 1..(len + 1)
        /\ history'[s][i][len + 1] = rev
        /\ \A m \in 1..len : history'[s][i][m] = history[s][i][m]
    BY <1>1, <2>1, HistoryShape
  <2>3. /\ ingested'[s][k] = ing
        /\ \A t \in Scopes, q \in Keys :
               t # s \/ q # k => ingested'[t][q] = ingested[t][q]
    BY <1>1, <2>1 DEF LedgerTypeOK
  <2>4. ing # None
    BY NoneAssumption
  <2> HIDE DEF len
  <2>5. \A t \in Scopes, j \in Idents : \A n \in DOMAIN history[t][j] :
            n \in DOMAIN history'[t][j] /\ history'[t][j][n] = history[t][j][n]
    <3> SUFFICES ASSUME NEW t \in Scopes, NEW j \in Idents, NEW n \in DOMAIN history[t][j]
                 PROVE  n \in DOMAIN history'[t][j] /\ history'[t][j][n] = history[t][j][n]
      OBVIOUS
    <3>1. CASE t # s \/ j # i BY <2>1, <3>1
    <3>2. CASE t = s /\ j = i
      <4>1. n \in 1..len /\ n \in 1..(len + 1) BY <2>2, <3>2
      <4> QED BY <2>2, <3>2, <4>1
    <3> QED BY <3>1, <3>2
  <2>6. ASSUME NEW t \in Scopes, NEW q \in Keys, ingested'[t][q] # None
        PROVE  (/\ ingested[t][q].revision \in DOMAIN history[t][ingested[t][q].ident]
                /\ Accepted(t, q).value = ingested[t][q].value
                /\ Accepted(t, q).valid_from = ingested[t][q].occurred_at
                /\ Accepted(t, q).evidence[Len(Accepted(t, q).evidence)] = q)'
    <3>1. CASE t = s /\ q = k
      <4>1. len + 1 \in DOMAIN history'[s][i] BY <2>2
      <4>2. ingested'[t][q].ident = i /\ ingested'[t][q].revision = len + 1
        BY <2>1, <2>3, <3>1 DEF len
      <4>3. Accepted(t, q)' = rev BY <2>2, <3>1, <4>2 DEF Accepted
      <4> QED BY <2>1, <2>3, <3>1, <4>1, <4>2, <4>3
    <3>2. CASE t # s \/ q # k
      <4>1. ingested'[t][q] = ingested[t][q] /\ ingested[t][q] # None
        BY <2>3, <2>6, <3>2
      <4>2. ingested[t][q].ident \in Idents
        BY <1>1, <4>1 DEF LedgerTypeOK, Ingestion
      <4>3. /\ ingested[t][q].revision \in DOMAIN history[t][ingested[t][q].ident]
            /\ Accepted(t, q).value = ingested[t][q].value
            /\ Accepted(t, q).valid_from = ingested[t][q].occurred_at
            /\ Accepted(t, q).evidence[Len(Accepted(t, q).evidence)] = q
        BY <1>1, <4>1 DEF RetryResolvable
      <4>4. Accepted(t, q)' = Accepted(t, q) BY <2>5, <4>1, <4>2, <4>3 DEF Accepted
      <4> QED BY <2>5, <4>1, <4>2, <4>3, <4>4
    <3> QED BY <3>1, <3>2
  <2>7. ASSUME NEW t \in Scopes, NEW j \in Idents, NEW n \in DOMAIN history'[t][j]
        PROVE  \E q \in Keys : /\ ingested'[t][q] # None
                               /\ ingested'[t][q].ident = j
                               /\ ingested'[t][q].revision = n
    <3>1. CASE n \in DOMAIN history[t][j]
      <4>1. PICK q \in Keys : /\ ingested[t][q] # None
                              /\ ingested[t][q].ident = j
                              /\ ingested[t][q].revision = n
        BY <1>1, <3>1 DEF RetryResolvable
      <4>2. t # s \/ q # k BY <2>1, <4>1
      <4> QED BY <2>3, <4>1, <4>2
    <3>2. CASE n \notin DOMAIN history[t][j]
      <4>1. t = s /\ j = i BY <2>1, <2>7, <3>2
      <4>2. n = len + 1 BY <2>2, <2>7, <3>2, <4>1
      <4> QED BY <2>1, <2>3, <2>4, <4>1, <4>2 DEF len
    <3> QED BY <3>1, <3>2
  <2> QED BY <2>6, <2>7 DEF RetryResolvable
<1>3. ASSUME NEW s \in Scopes, EraseScope(s) PROVE RetryResolvable'
  <2>1. /\ \A i \in Idents : history'[s][i] = <<>>
        /\ \A k \in Keys : ingested'[s][k] = None
        /\ \A t \in Scopes \ {s} : history'[t] = history[t] /\ ingested'[t] = ingested[t]
    BY <1>1, <1>3, EraseEffect
  <2>2. ASSUME NEW t \in Scopes, t # s
        PROVE  /\ ingested'[t] = ingested[t] /\ history'[t] = history[t]
               /\ \A q \in Keys : Accepted(t, q)' = Accepted(t, q)
    BY <2>1, <2>2 DEF Accepted
  <2> QED BY <1>1, <2>1, <2>2 DEF RetryResolvable
<1>4. CASE UNCHANGED <<ingested, history>>
  <2>1. ingested' = ingested /\ history' = history BY <1>4
  <2>2. \A s \in Scopes, k \in Keys : Accepted(s, k)' = Accepted(s, k)
    BY <2>1 DEF Accepted
  <2>3. ASSUME NEW t \in Scopes, NEW q \in Keys, ingested'[t][q] # None
        PROVE  /\ ingested'[t][q].revision \in DOMAIN history'[t][ingested'[t][q].ident]
               /\ Accepted(t, q)'.value = ingested'[t][q].value
               /\ Accepted(t, q)'.valid_from = ingested'[t][q].occurred_at
               /\ Accepted(t, q)'.evidence[Len(Accepted(t, q)'.evidence)] = q
    BY <1>1, <2>1, <2>2, <2>3 DEF RetryResolvable
  <2>4. ASSUME NEW t \in Scopes, NEW j \in Idents, NEW n \in DOMAIN history'[t][j]
        PROVE  \E q \in Keys : /\ ingested'[t][q] # None
                               /\ ingested'[t][q].ident = j
                               /\ ingested'[t][q].revision = n
    BY <1>1, <2>1, <2>4 DEF RetryResolvable
  <2> QED BY <2>3, <2>4 DEF RetryResolvable
<1>5. CASE Tick BY <1>4, <1>5 DEF Tick
<1>6. CASE UNCHANGED ledgerVars BY <1>4, <1>6 DEF ledgerVars
<1> QED BY <1>2, <1>3, <1>5, <1>6 DEF LedgerNext

THEOREM Invariance == LedgerSpec => []Inv
<1>1. Inv /\ [LedgerNext]_ledgerVars => Inv'
  BY TypeStep, OrderStep, RetryStep DEF Inv
<1> QED BY InitInv, <1>1, PTL DEF LedgerSpec

\* The ledger stays well typed.
THEOREM TypeCorrect == LedgerSpec => []LedgerTypeOK
<1>1. Inv => LedgerTypeOK BY DEF Inv
<1> QED BY Invariance, <1>1, PTL

\* Every accepted request can be answered again with its original revision.
THEOREM RetryCorrect == LedgerSpec => []RetryResolvable
<1>1. Inv => RetryResolvable BY DEF Inv
<1> QED BY Invariance, <1>1, PTL

-----------------------------------------------------------------------------
(* What a belief rests on.                                                 *)

\* BeliefExplained for one revision and the ingestions of its scope.
ExplainedBy(rev, table, i, n) ==
    LET cited == {rev.evidence[e] : e \in DOMAIN rev.evidence}
    IN  /\ \A k \in cited :
               /\ table[k] # None
               /\ table[k].ident = i
               /\ table[k].value = rev.value
               /\ table[k].occurred_at <= rev.belief.last_evidence_at
        /\ \A e \in DOMAIN rev.evidence :
               table[rev.evidence[e]].revision = n - Len(rev.evidence) + e
        /\ rev.belief.confidence =
               Amount([e \in DOMAIN rev.evidence |-> table[rev.evidence[e]].confidence])
        /\ rev.belief.support_count = Cardinality(cited)
        /\ rev.belief.source_keys = {table[k].source : k \in cited}
        /\ \E k \in cited : table[k].occurred_at = rev.belief.last_evidence_at

LEMMA BeliefExplainedByParts ==
    BeliefExplained <=> \A s \in Scopes, i \in Idents : \A n \in DOMAIN history[s][i] :
                            ExplainedBy(history[s][i][n], ingested[s], i, n)
  BY DEF BeliefExplained, ExplainedBy

\* The recursion equation of an amount.
AmountsTo(c, f) ==
    f = [n \in DOMAIN c |-> IF n = 1 THEN c[1] ELSE CombinedConfidence(f[n - 1], c[n])]

\* An amount is a value of some function that satisfies its equation.
LEMMA AmountIsChosen ==
    ASSUME NEW c
    PROVE  Amount(c) = (CHOOSE f : AmountsTo(c, f))[Len(c)]
  BY DEF Amount, AmountsTo

\* There is such a function: one for the first n confidences extends to n + 1.
LEMMA AmountsExist ==
    ASSUME NEW S, NEW c \in Seq(S)
    PROVE  \E f : AmountsTo(c, f)
<1> DEFINE UpTo(n, f) == f = [m \in 1..n |-> IF m = 1 THEN c[1]
                                            ELSE CombinedConfidence(f[m - 1], c[m])]
           bad == {n \in 0..Len(c) : ~ \E f : UpTo(n, f)}
<1>1. Len(c) \in Nat /\ DOMAIN c = 1..Len(c) OBVIOUS
<1>2. \E f : UpTo(0, f)
  <2> DEFINE f == [m \in 1..0 |-> 0]
  <2>1. UpTo(0, f) OBVIOUS
  <2> QED BY <2>1
<1>3. ASSUME NEW n \in Nat, NEW g, UpTo(n, g)
      PROVE  \E h : UpTo(n + 1, h)
  <2> DEFINE h == [m \in 1..(n + 1) |-> IF m = 1 THEN c[1]
                                       ELSE CombinedConfidence(g[m - 1], c[m])]
  <2>1. ASSUME NEW m \in 1..(n + 1), m # 1 PROVE g[m - 1] = h[m - 1]
    <3>1. m - 1 \in 1..n /\ m - 1 \in 1..(n + 1) BY <2>1
    <3> DEFINE k == m - 1
    <3>2. g[k] = IF k = 1 THEN c[1] ELSE CombinedConfidence(g[k - 1], c[k])
      BY <1>3, <3>1
    <3>3. h[k] = IF k = 1 THEN c[1] ELSE CombinedConfidence(g[k - 1], c[k]) BY <3>1
    <3> QED BY <3>2, <3>3
  <2>2. UpTo(n + 1, h) BY <2>1
  <2> QED BY <2>2
<1>4. bad = {}
  <2> SUFFICES ASSUME bad # {} PROVE FALSE OBVIOUS
  <2>1. PICK m \in bad : \A n \in bad : m <= n
    <3>1. bad \subseteq Nat BY <1>1
    <3> HIDE DEF bad
    <3> QED BY <3>1, LeastNatural
  <2>2. m \in 0..Len(c) /\ m # 0 BY <1>2
  <2>3. m - 1 \in 0..Len(c) /\ m - 1 \in Nat /\ ~ (m <= m - 1) /\ (m - 1) + 1 = m
    BY <1>1, <2>2
  <2>4. m - 1 \notin bad
    <3> HIDE DEF bad
    <3> QED BY <2>1, <2>3
  <2>5. PICK g : UpTo(m - 1, g) BY <2>3, <2>4
  <2>6. \E h : UpTo((m - 1) + 1, h)
    <3> HIDE DEF UpTo, bad
    <3> QED BY <1>3, <2>3, <2>5
  <2> QED BY <2>1, <2>3, <2>6
<1>5. Len(c) \in 0..Len(c) BY <1>1
<1>6. PICK f : UpTo(Len(c), f) BY <1>4, <1>5
<1> QED BY <1>1, <1>6 DEF AmountsTo

\* What the first pieces of evidence amount to does not depend on later ones.
LEMMA AmountsAgree ==
    ASSUME NEW S, NEW c \in Seq(S), NEW d \in Seq(S), DOMAIN c \subseteq DOMAIN d,
           \A n \in DOMAIN c : c[n] = d[n],
           NEW f, AmountsTo(c, f), NEW g, AmountsTo(d, g)
    PROVE  \A n \in DOMAIN c : f[n] = g[n]
<1> DEFINE bad == {n \in DOMAIN c : f[n] # g[n]}
<1> SUFFICES ASSUME bad # {} PROVE FALSE OBVIOUS
<1>1. Len(c) \in Nat /\ DOMAIN c = 1..Len(c) OBVIOUS
<1>2. PICK m \in bad : \A n \in bad : m <= n
  <2>1. bad \subseteq Nat BY <1>1
  <2> HIDE DEF bad
  <2> QED BY <2>1, LeastNatural
<1>3. m \in DOMAIN c /\ m \in DOMAIN d /\ m \in Nat /\ c[m] = d[m] /\ f[m] # g[m] BY <1>1
<1>4. /\ f[m] = IF m = 1 THEN c[1] ELSE CombinedConfidence(f[m - 1], c[m])
      /\ g[m] = IF m = 1 THEN d[1] ELSE CombinedConfidence(g[m - 1], d[m])
  BY <1>3 DEF AmountsTo
<1>5. m # 1 BY <1>3, <1>4
<1>6. m - 1 \in DOMAIN c /\ ~ (m <= m - 1) BY <1>1, <1>3, <1>5
<1>7. m - 1 \notin bad
  <2> HIDE DEF bad
  <2> QED BY <1>2, <1>6
<1> QED BY <1>3, <1>4, <1>5, <1>6, <1>7

\* So the amount itself satisfies the equation.
LEMMA AmountSatisfiesEquation ==
    ASSUME NEW S, NEW c \in Seq(S)
    PROVE  \E f : AmountsTo(c, f) /\ Amount(c) = f[Len(c)]
<1> DEFINE f == CHOOSE f : AmountsTo(c, f)
<1>1. AmountsTo(c, f) BY AmountsExist
<1>2. Amount(c) = f[Len(c)] BY AmountIsChosen
<1> HIDE DEF f
<1> QED BY <1>1, <1>2

\* One piece of evidence amounts to its own confidence.
LEMMA AmountOfOne ==
    ASSUME NEW x
    PROVE  Amount(<<x>>) = x
<1> DEFINE c == <<x>>
<1>1. c \in Seq({x}) /\ Len(c) = 1 /\ 1 \in DOMAIN c /\ c[1] = x OBVIOUS
<1> HIDE DEF c
<1>2. PICK f : AmountsTo(c, f) /\ Amount(c) = f[Len(c)] BY <1>1, AmountSatisfiesEquation
<1>3. f[1] = c[1] BY <1>1, <1>2 DEF AmountsTo
<1>4. Amount(c) = x BY <1>1, <1>2, <1>3
<1> QED BY <1>4 DEF c

\* One piece more is combined with what the others amount to.
LEMMA AmountOfMore ==
    ASSUME NEW S, NEW c \in Seq(S), c # <<>>, NEW x \in S
    PROVE  Amount(Append(c, x)) = CombinedConfidence(Amount(c), x)
<1> DEFINE d == Append(c, x)
           len == Len(c)
<1>1. /\ len \in Nat /\ len # 0 /\ DOMAIN c = 1..len
      /\ d \in Seq(S) /\ Len(d) = len + 1 /\ DOMAIN d = 1..(len + 1)
      /\ d[len + 1] = x /\ \A n \in 1..len : d[n] = c[n]
  OBVIOUS
<1> HIDE DEF d
<1>2. PICK f : AmountsTo(c, f) /\ Amount(c) = f[Len(c)] BY AmountSatisfiesEquation
<1>3. PICK g : AmountsTo(d, g) /\ Amount(d) = g[Len(d)] BY <1>1, AmountSatisfiesEquation
<1> HIDE DEF len
<1>4. f[len] = g[len]
  <2>1. DOMAIN c \subseteq DOMAIN d /\ \A n \in DOMAIN c : c[n] = d[n] BY <1>1
  <2>2. \A n \in DOMAIN c : f[n] = g[n] BY <1>1, <1>2, <1>3, <2>1, AmountsAgree
  <2> QED BY <1>1, <2>2
<1>5. /\ len + 1 \in DOMAIN d /\ len + 1 # 1 /\ (len + 1) - 1 = len BY <1>1
<1>6. g[len + 1] = CombinedConfidence(g[len], x) BY <1>1, <1>3, <1>5 DEF AmountsTo
<1>7. Amount(d) = CombinedConfidence(Amount(c), x)
  BY <1>1, <1>2, <1>3, <1>4, <1>6 DEF len
<1> QED BY <1>7 DEF d

\* What was accepted stays accepted, so an explained belief stays explained.
LEMMA ExplainedStays ==
    ASSUME NEW rev \in Revision, NEW i, NEW n, NEW table, NEW later,
           \A k \in Keys : table[k] # None => later[k] = table[k],
           ExplainedBy(rev, table, i, n)
    PROVE  ExplainedBy(rev, later, i, n)
<1> DEFINE cited == {rev.evidence[e] : e \in DOMAIN rev.evidence}
<1>1. \A k \in cited : later[k] = table[k]
  <2>1. \A e \in DOMAIN rev.evidence : rev.evidence[e] \in Keys BY DEF Revision
  <2>2. \A k \in cited : table[k] # None BY DEF ExplainedBy
  <2> QED BY <2>1, <2>2
<1>2. \A e \in DOMAIN rev.evidence : rev.evidence[e] \in cited OBVIOUS
<1>3. /\ {later[k].source : k \in cited} = {table[k].source : k \in cited}
      /\ [e \in DOMAIN rev.evidence |-> later[rev.evidence[e]].confidence]
             = [e \in DOMAIN rev.evidence |-> table[rev.evidence[e]].confidence]
  BY <1>1, <1>2
<1>4. /\ \A k \in cited :
             /\ table[k] # None
             /\ table[k].ident = i
             /\ table[k].value = rev.value
             /\ table[k].occurred_at <= rev.belief.last_evidence_at
      /\ \A e \in DOMAIN rev.evidence :
             table[rev.evidence[e]].revision = n - Len(rev.evidence) + e
      /\ rev.belief.confidence =
             Amount([e \in DOMAIN rev.evidence |-> table[rev.evidence[e]].confidence])
      /\ rev.belief.support_count = Cardinality(cited)
      /\ rev.belief.source_keys = {table[k].source : k \in cited}
      /\ \E k \in cited : table[k].occurred_at = rev.belief.last_evidence_at
  BY DEF ExplainedBy
<1> HIDE DEF cited
<1>5. /\ \A k \in cited :
             /\ later[k] # None
             /\ later[k].ident = i
             /\ later[k].value = rev.value
             /\ later[k].occurred_at <= rev.belief.last_evidence_at
      /\ \A e \in DOMAIN rev.evidence :
             later[rev.evidence[e]].revision = n - Len(rev.evidence) + e
      /\ rev.belief.confidence =
             Amount([e \in DOMAIN rev.evidence |-> later[rev.evidence[e]].confidence])
      /\ rev.belief.source_keys = {later[k].source : k \in cited}
      /\ \E k \in cited : later[k].occurred_at = rev.belief.last_evidence_at
  BY <1>1, <1>2, <1>3, <1>4
<1> QED BY <1>4, <1>5 DEF ExplainedBy, cited

\* A belief that starts anew rests on the one piece of evidence it cites.
LEMMA FreshExplained ==
    ASSUME NEW rev, NEW i, NEW n \in Nat, NEW k, NEW table, NEW ing \in Ingestion,
           rev.evidence = <<k>>, table[k] = ing,
           rev.belief = Fresh(ing.confidence, ing.source, ing.occurred_at),
           ing.ident = i, ing.value = rev.value, ing.revision = n
    PROVE  ExplainedBy(rev, table, i, n)
<1> DEFINE cited == {rev.evidence[e] : e \in DOMAIN rev.evidence}
<1>1. /\ Len(rev.evidence) = 1 /\ DOMAIN rev.evidence = 1..1 /\ rev.evidence[1] = k
      /\ cited = {k}
  OBVIOUS
<1>2. Cardinality(cited) = 1 BY <1>1, FS_Singleton
<1>3. ing # None BY NoneAssumption
<1>4. ing.confidence \in Int /\ ing.occurred_at \in Int
  BY DEF Ingestion, Confidence, Time
<1>5. /\ rev.belief.confidence = ing.confidence
      /\ rev.belief.last_evidence_at = ing.occurred_at
      /\ rev.belief.support_count = 1 /\ rev.belief.source_keys = {ing.source}
  BY DEF Fresh
<1>6. \A e \in DOMAIN rev.evidence :
          table[rev.evidence[e]].revision = n - Len(rev.evidence) + e
  BY <1>1
<1>7. rev.belief.confidence =
          Amount([e \in DOMAIN rev.evidence |-> table[rev.evidence[e]].confidence])
  <2>1. [e \in DOMAIN rev.evidence |-> table[rev.evidence[e]].confidence]
            = <<ing.confidence>>
    BY <1>1
  <2> QED BY <1>5, <2>1, AmountOfOne
<1> HIDE DEF cited
<1> QED BY <1>1, <1>2, <1>3, <1>4, <1>5, <1>6, <1>7 DEF ExplainedBy, cited

\* A reinforced belief rests on what it rested on and one piece of evidence more.
LEMMA ReinforcedExplained ==
    ASSUME NEW old \in Revision, NEW rev, NEW i, NEW n \in Nat, NEW k \in Keys,
           NEW table, NEW later, NEW ing \in Ingestion,
           ExplainedBy(old, table, i, n),
           table[k] = None, later[k] = ing,
           \A j \in Keys : table[j] # None => later[j] = table[j],
           rev.value = old.value, rev.evidence = Append(old.evidence, k),
           rev.belief = Reinforced(old.belief, ing.confidence, ing.source, ing.occurred_at),
           ing.ident = i, ing.value = rev.value, ing.revision = n + 1,
           \A j \in Keys : table[j] # None => table[j] \in Ingestion
    PROVE  ExplainedBy(rev, later, i, n + 1)
<1> DEFINE before == {old.evidence[e] : e \in DOMAIN old.evidence}
           cited == {rev.evidence[e] : e \in DOMAIN rev.evidence}
           len == Len(old.evidence)
<1>1. /\ old.evidence \in Seq(Keys) /\ len \in Nat /\ DOMAIN old.evidence = 1..len
      /\ old.belief \in Belief
  BY DEF Revision
<1>2. /\ Len(rev.evidence) = len + 1 /\ DOMAIN rev.evidence = 1..(len + 1)
      /\ rev.evidence[len + 1] = k
      /\ \A e \in 1..len : rev.evidence[e] = old.evidence[e]
  BY <1>1
<1>3. cited = before \cup {k}
  <2>1. ASSUME NEW q \in cited PROVE q \in before \cup {k}
    <3>1. PICK e \in 1..(len + 1) : q = rev.evidence[e] BY <1>2
    <3>2. e \in 1..len \/ e = len + 1 BY <1>1, <3>1
    <3> QED BY <1>1, <1>2, <3>1, <3>2
  <2>2. ASSUME NEW q \in before PROVE q \in cited
    <3>1. PICK e \in 1..len : q = old.evidence[e] BY <1>1
    <3>2. e \in 1..(len + 1) BY <1>1, <3>1
    <3> QED BY <1>2, <3>1, <3>2
  <2>3. k \in cited
    <3>1. len + 1 \in 1..(len + 1) BY <1>1
    <3> QED BY <1>2, <3>1
  <2> QED BY <2>1, <2>2, <2>3
<1>4. before \subseteq Keys BY <1>1
<1>5. IsFiniteSet(before)
  <2>1. IsFiniteSet(1..len) BY <1>1, FS_Interval
  <2> QED BY <1>1, <2>1, ImageIsFinite
<1>6. /\ \A q \in before :
             /\ table[q] # None
             /\ table[q].ident = i
             /\ table[q].value = old.value
             /\ table[q].occurred_at <= old.belief.last_evidence_at
      /\ \A e \in DOMAIN old.evidence :
             table[old.evidence[e]].revision = n - Len(old.evidence) + e
      /\ old.belief.confidence =
             Amount([e \in DOMAIN old.evidence |-> table[old.evidence[e]].confidence])
      /\ old.belief.support_count = Cardinality(before)
      /\ old.belief.source_keys = {table[q].source : q \in before}
      /\ \E q \in before : table[q].occurred_at = old.belief.last_evidence_at
  BY DEF ExplainedBy
<1>7. \A q \in before : later[q] = table[q] /\ table[q] \in Ingestion BY <1>4, <1>6
<1>8. k \notin before BY <1>6
<1>9. rev.belief.support_count = Cardinality(cited)
  <2>1. Cardinality(cited) = Cardinality(before) + 1 BY <1>3, <1>5, <1>8, FS_AddElement
  <2>2. rev.belief.support_count = old.belief.support_count + 1 BY DEF Reinforced
  <2> HIDE DEF before, cited
  <2> QED BY <1>6, <2>1, <2>2
<1>10. \A e \in 1..(len + 1) : /\ rev.evidence[e] \in cited
                               /\ later[rev.evidence[e]].revision = (n + 1) - (len + 1) + e
  <2> SUFFICES ASSUME NEW e \in 1..(len + 1)
               PROVE  /\ rev.evidence[e] \in cited
                      /\ later[rev.evidence[e]].revision = (n + 1) - (len + 1) + e
    OBVIOUS
  <2>1. rev.evidence[e] \in cited BY <1>2
  <2>2. CASE e = len + 1
    <3>1. later[rev.evidence[e]].revision = n + 1 BY <1>2, <2>2
    <3> HIDE DEF len
    <3> QED BY <1>1, <2>1, <2>2, <3>1
  <2>3. CASE e \in 1..len
    <3>1. /\ later[rev.evidence[e]] = table[old.evidence[e]]
          /\ table[old.evidence[e]].revision = n - len + e
      <4>1. old.evidence[e] \in before /\ e \in DOMAIN old.evidence BY <1>1, <2>3
      <4>2. table[old.evidence[e]].revision = n - len + e BY <1>6, <4>1
      <4> HIDE DEF before, len
      <4> QED BY <1>2, <1>7, <2>3, <4>1, <4>2
    <3> HIDE DEF len
    <3> QED BY <1>1, <2>1, <2>3, <3>1
  <2>4. e \in 1..len \/ e = len + 1
    <3> HIDE DEF len
    <3> QED BY <1>1
  <2> QED BY <2>2, <2>3, <2>4
<1>11. /\ old.belief.confidence \in Confidence /\ old.belief.last_evidence_at \in Time
       /\ ing.confidence \in Confidence /\ ing.occurred_at \in Time
       /\ \A q \in before : /\ later[q].confidence \in Confidence
                            /\ later[q].occurred_at \in Time
  BY <1>1, <1>7 DEF Belief, Ingestion
<1>12. /\ rev.belief.confidence = CombinedConfidence(old.belief.confidence, ing.confidence)
       /\ rev.belief.last_evidence_at = Larger(old.belief.last_evidence_at, ing.occurred_at)
       /\ rev.belief.source_keys = old.belief.source_keys \cup {ing.source}
  BY DEF Reinforced
<1> HIDE DEF before, cited, len
<1>13. rev.belief.source_keys = {later[q].source : q \in cited}
  <2>1. {later[q].source : q \in before} = {table[q].source : q \in before} BY <1>7
  <2>2. {later[q].source : q \in cited} = {later[q].source : q \in before} \cup {ing.source}
    BY <1>3
  <2> QED BY <1>6, <1>12, <2>1, <2>2
<1>14. ASSUME NEW q \in cited
       PROVE  /\ later[q] # None /\ later[q].ident = i /\ later[q].value = rev.value
              /\ later[q].occurred_at <= rev.belief.last_evidence_at
  <2>1. CASE q = k
    <3>1. later[q] = ing /\ ing # None BY <2>1, NoneAssumption
    <3>2. ing.occurred_at <= rev.belief.last_evidence_at
      BY <1>11, <1>12 DEF Larger, Time
    <3> QED BY <3>1, <3>2
  <2>2. CASE q \in before
    <3>1. later[q] = table[q] BY <1>7, <2>2
    <3>2. later[q].occurred_at <= rev.belief.last_evidence_at
      <4>1. later[q].occurred_at <= old.belief.last_evidence_at BY <1>6, <2>2, <3>1
      <4>2. later[q].occurred_at \in Time BY <1>11, <2>2
      <4> QED BY <1>11, <1>12, <4>1, <4>2 DEF Larger, Time
    <3> QED BY <1>6, <2>2, <3>1, <3>2
  <2> QED BY <1>3, <2>1, <2>2
<1>15. \E q \in cited : later[q].occurred_at = rev.belief.last_evidence_at
  <2>1. PICK q \in before : table[q].occurred_at = old.belief.last_evidence_at BY <1>6
  <2>2. q \in cited /\ k \in cited /\ later[q] = table[q] BY <1>3, <1>7
  <2> QED BY <1>12, <2>1, <2>2 DEF Larger
<1>16. rev.belief.confidence =
           Amount([e \in DOMAIN rev.evidence |-> later[rev.evidence[e]].confidence])
  <2> DEFINE c == [e \in 1..len |-> table[old.evidence[e]].confidence]
             d == [e \in 1..(len + 1) |-> later[rev.evidence[e]].confidence]
  <2>1. \A e \in 1..len : old.evidence[e] \in before BY <1>1 DEF before
  <2>2. c \in [1..len -> Confidence] BY <1>7, <1>11, <2>1
  <2>3. d \in [1..(len + 1) -> Confidence] BY <1>3, <1>10, <1>11
  <2>4. \A e \in 1..len : d[e] = c[e]
    <3> SUFFICES ASSUME NEW e \in 1..len PROVE d[e] = c[e] OBVIOUS
    <3>1. e \in 1..(len + 1) BY <1>1
    <3> QED BY <1>2, <1>7, <2>1, <3>1
  <2>5. d[len + 1] = ing.confidence
    <3>1. len + 1 \in 1..(len + 1) BY <1>1
    <3> QED BY <1>2, <3>1
  <2>6. c \in Seq(Confidence) /\ Len(c) = len /\ len # 0
    <3>1. PICK q \in before : TRUE BY <1>6
    <3>2. PICK e \in 1..len : q = old.evidence[e] BY <1>1, <3>1 DEF before
    <3>3. len # 0 BY <1>1, <3>2
    <3> HIDE DEF c
    <3> QED BY <1>1, <2>2, <3>3, FunctionIsSequence
  <2>7. old.belief.confidence = Amount(c) BY <1>1, <1>6
  <2> HIDE DEF c, d
  <2>8. d = Append(c, ing.confidence) BY <1>1, <2>2, <2>3, <2>4, <2>5, LongerIsAppend
  <2>9. c # <<>> BY <1>1, <2>6
  <2>10. Amount(d) = CombinedConfidence(Amount(c), ing.confidence)
    BY <1>11, <2>6, <2>8, <2>9, AmountOfMore
  <2> QED BY <1>2, <1>12, <2>7, <2>10 DEF d
<1> DEFINE m == n + 1
<1>17. \A e \in DOMAIN rev.evidence :
           later[rev.evidence[e]].revision = m - Len(rev.evidence) + e
  BY <1>2, <1>10
<1> HIDE DEF m
<1>18. \A q \in cited :
          /\ later[q] # None /\ later[q].ident = i /\ later[q].value = rev.value
          /\ later[q].occurred_at <= rev.belief.last_evidence_at
  BY <1>14
<1>19. ExplainedBy(rev, later, i, m)
  BY ONLY <1>9, <1>13, <1>15, <1>17, <1>18, <1>16 DEF ExplainedBy, cited
<1> QED BY <1>19 DEF m

\* Every step leaves every belief explained.
LEMMA BeliefStep ==
    ASSUME Inv, BeliefExplained, [LedgerNext]_ledgerVars
    PROVE  BeliefExplained'
<1>1. LedgerTypeOK /\ EvidenceCited BY DEF Inv
<1>2. \A t \in Scopes, j \in Idents : \A n \in DOMAIN history[t][j] :
          history[t][j][n] \in Revision /\ ExplainedBy(history[t][j][n], ingested[t], j, n)
  BY <1>1, BeliefExplainedByParts, HistoryShape
<1> SUFFICES ASSUME NEW t \in Scopes, NEW j \in Idents, NEW n \in DOMAIN history'[t][j]
             PROVE  ExplainedBy(history'[t][j][n], ingested'[t], j, n)
  BY BeliefExplainedByParts DEF BeliefExplained, ExplainedBy
<1>3. CASE Ingest
  <2>1. PICK s \in Scopes, k \in Keys, i \in Idents, value \in Values,
             source \in Sources, at \in Time, confidence \in Confidence,
             kind \in {"message", "user_feedback"} :
            /\ ingested[s][k] = None
            /\ AcceptCandidate(s, k, kind, i, value, confidence, source, at)
    BY <1>1, <1>3, IngestIsAccept
  <2> DEFINE rev == NextRevision(s, i, k, value, confidence, source, at)
             len == Len(history[s][i])
             ing == [kind |-> kind, ident |-> i, value |-> value, source |-> source,
                     confidence |-> confidence, occurred_at |-> at,
                     revision |-> len + 1]
  <2>2. /\ history' = [history EXCEPT ![s][i] = Append(@, rev)]
        /\ ingested' = [ingested EXCEPT ![s][k] = ing]
    BY <2>1 DEF AcceptCandidate
  <2>3. /\ history[s][i] \in Seq(Revision) /\ len \in Nat /\ DOMAIN history[s][i] = 1..len
        /\ history \in [Scopes -> [Idents -> Seq(Revision)]]
        /\ ingested \in [Scopes -> [Keys -> Ingestion \cup {None}]]
    BY <1>1 DEF LedgerTypeOK
  <2>4. ing \in Ingestion
    <3>1. len + 1 \in Nat \ {0} BY <2>3
    <3> QED BY <3>1 DEF Ingestion
  <2>5. /\ ing.ident = i /\ ing.value = value /\ ing.revision = len + 1
        /\ ing.source = source /\ ing.confidence = confidence /\ ing.occurred_at = at
    OBVIOUS
  <2> HIDE DEF ing, rev, len
  <2>6. /\ ingested'[s][k] = ing
        /\ \A q \in Keys : ingested[t][q] # None =>
               ingested'[t][q] = ingested[t][q] /\ ingested[t][q] \in Ingestion
    BY <2>1, <2>2, <2>3
  <2>7. CASE t # s \/ j # i \/ n # len + 1
    <3>1. n \in DOMAIN history[t][j] /\ history'[t][j][n] = history[t][j][n]
      <4>1. CASE t # s \/ j # i BY <2>2, <2>3, <4>1
      <4>2. CASE t = s /\ j = i
        <5>1. history'[s][i] = Append(history[s][i], rev) BY <2>2, <2>3
        <5>2. n \in 1..len BY <2>3, <2>7, <4>2, <5>1 DEF len
        <5> QED BY <2>3, <4>2, <5>1, <5>2 DEF len
      <4> QED BY <4>1, <4>2
    <3> QED BY <1>2, <2>6, <3>1, ExplainedStays
  <2>8. CASE t = s /\ j = i /\ n = len + 1
    <3>1. history'[s][i][n] = rev
      <4>1. history'[s][i] = Append(history[s][i], rev) BY <2>2, <2>3
      <4> QED BY <2>3, <2>8, <4>1 DEF len
    <3> DEFINE supports == history[s][i] # <<>> /\ Latest(s, i).value = value
    <3>2. CASE supports
      <4>1. /\ len \in DOMAIN history[s][i] /\ Latest(s, i) = history[s][i][len]
            /\ history[s][i][len] \in Revision
        BY <2>3, <3>2 DEF Latest, len
      <4>2. /\ rev.value = Latest(s, i).value /\ rev.value = value
            /\ rev.evidence = Append(Latest(s, i).evidence, k)
            /\ rev.belief = Reinforced(Latest(s, i).belief, confidence, source, at)
        BY <3>2 DEF rev, NextRevision
      <4>3. ExplainedBy(history[s][i][len], ingested[s], i, len) BY <1>2, <4>1
      <4>4. ExplainedBy(rev, ingested'[s], i, len + 1)
        <5> DEFINE old == history[s][i][len]
                   table == ingested[s]
                   later == ingested'[s]
        <5>1. /\ old \in Revision /\ ExplainedBy(old, table, i, len)
              /\ rev.value = old.value /\ rev.evidence = Append(old.evidence, k)
              /\ rev.belief = Reinforced(old.belief, ing.confidence, ing.source,
                                         ing.occurred_at)
              /\ ing.value = rev.value
          BY <2>5, <4>1, <4>2, <4>3
        <5>2. /\ table[k] = None /\ later[k] = ing
              /\ \A q \in Keys : table[q] # None =>
                     later[q] = table[q] /\ table[q] \in Ingestion
          BY <2>1, <2>6, <2>8
        <5> HIDE DEF old, table, later
        <5>3. ExplainedBy(rev, later, i, len + 1)
          BY <2>3, <2>4, <2>5, <5>1, <5>2, ReinforcedExplained
        <5> QED BY <5>3 DEF later
      <4> QED BY <2>8, <3>1, <4>4
    <3>3. CASE ~supports
      <4>1. /\ rev.value = value /\ rev.evidence = <<k>>
            /\ rev.belief = Fresh(confidence, source, at)
        BY <3>3 DEF rev, NextRevision
      <4>2. ExplainedBy(rev, ingested'[s], i, len + 1)
        <5>1. len + 1 \in Nat BY <2>3
        <5> QED BY <2>4, <2>5, <2>6, <4>1, <5>1, FreshExplained
      <4> QED BY <2>8, <3>1, <4>2
    <3> QED BY <3>2, <3>3
  <2> QED BY <2>7, <2>8
<1>4. ASSUME NEW s \in Scopes, EraseScope(s)
      PROVE  ExplainedBy(history'[t][j][n], ingested'[t], j, n)
  <2>1. t # s /\ history'[t] = history[t] /\ ingested'[t] = ingested[t]
    BY <1>1, <1>4, EraseEffect
  <2> QED BY <1>2, <2>1
<1>5. CASE UNCHANGED <<ingested, history>> BY <1>2, <1>5
<1>6. CASE Tick BY <1>5, <1>6 DEF Tick
<1>7. CASE UNCHANGED ledgerVars BY <1>5, <1>7 DEF ledgerVars
<1> QED BY <1>3, <1>4, <1>6, <1>7 DEF LedgerNext

\* Every belief is explained by the evidence it cites, whatever was ingested, in
\* whatever order, and erased.
THEOREM BeliefCorrect == LedgerSpec => []BeliefExplained
<1>1. LedgerInit => BeliefExplained
  BY DEF LedgerInit, NoHistory, BeliefExplained
<1>2. Inv /\ BeliefExplained /\ [LedgerNext]_ledgerVars => BeliefExplained'
  BY BeliefStep
<1> QED BY Invariance, <1>1, <1>2, PTL DEF LedgerSpec
-----------------------------------------------------------------------------
\* A read of the present returns the active revision once it is valid.
THEOREM PresentCorrect == LedgerSpec => []PresentIsActive
<1>1. ASSUME Inv PROVE PresentIsActive
  <2>1. LedgerTypeOK /\ RecordedInOrder BY <1>1 DEF Inv
  <2>2. ASSUME NEW s \in Scopes, NEW i \in Idents, history[s][i] # <<>>,
               NEW v \in Time, Latest(s, i).valid_from <= v
        PROVE  AsOf(s, i, v, clock) = Len(history[s][i])
    <3> DEFINE len == Len(history[s][i])
               eligible == Eligible(history[s][i], v, clock)
    <3>1. /\ len \in Nat \ {0} /\ DOMAIN history[s][i] = 1..len
          /\ \A n \in 1..len : history[s][i][n].recorded_at \in Int
      BY <2>1, <2>2, HistoryShape DEF Revision, Time
    <3>2. \A n \in 1..len : /\ history[s][i][n].recorded_at <= clock
                            /\ history[s][i][n].recorded_at <= history[s][i][len].recorded_at
      BY <2>1, <3>1 DEF RecordedInOrder
    <3>3. len \in eligible /\ eligible \subseteq 1..len
      BY <2>2, <3>1, <3>2 DEF Eligible, Latest
    <3> HIDE DEF len, eligible
    <3>4. \A m \in eligible : NoOlder(history[s][i], len, m)
      BY <3>1, <3>2, <3>3 DEF NoOlder
    <3>5. \A n \in eligible :
              (\A m \in eligible : NoOlder(history[s][i], n, m)) => n = len
      BY <3>1, <3>2, <3>3 DEF NoOlder
    <3>6. Newest(history[s][i], eligible) = {len}
      BY <3>3, <3>4, <3>5 DEF Newest
    <3>7. TheOne(Newest(history[s][i], eligible)) = len
      BY <3>6 DEF TheOne
    <3> QED BY <3>3, <3>7 DEF AsOf, eligible, len
  <2> QED BY <2>2 DEF PresentIsActive
<1> QED BY Invariance, <1>1, PTL

\* An ingestion leaves every read at an instant that has gone by as it is.
LEMMA IngestKeepsPast ==
    ASSUME Inv, Ingest
    PROVE  \A s \in Scopes, i \in Idents, v, known \in Time :
               known < clock => AsOf(s, i, v, known)' = AsOf(s, i, v, known)
<1>1. LedgerTypeOK BY DEF Inv
<1>2. PICK s \in Scopes, i \in Idents, rev \in Revision :
          /\ history'[s][i] = Append(history[s][i], rev)
          /\ \A t \in Scopes, j \in Idents :
                 t # s \/ j # i => history'[t][j] = history[t][j]
          /\ rev.recorded_at = clock
  BY IngestEffect
<1>3. ASSUME NEW t \in Scopes, NEW j \in Idents, NEW v \in Time, NEW known \in Time,
             known < clock
      PROVE  AsOf(t, j, v, known)' = AsOf(t, j, v, known)
  <2> DEFINE before == history[t][j]
             after == history'[t][j]
  <2>1. CASE t # s \/ j # i BY <1>2, <2>1 DEF AsOf
  <2>2. CASE t = s /\ j = i
    <3> DEFINE len == Len(before)
    <3>1. /\ before \in Seq(Revision) /\ len \in Nat /\ DOMAIN before = 1..len
          /\ DOMAIN after = 1..(len + 1) /\ after[len + 1] = rev
          /\ \A m \in 1..len : after[m] = before[m]
      BY <1>1, <1>2, <2>2, HistoryShape
    <3>2. ~(rev.recorded_at <= known) BY <1>1, <1>2, <1>3 DEF LedgerTypeOK, Time
    <3> HIDE DEF before, after, len
    <3>3. Eligible(after, v, known) = Eligible(before, v, known)
      <4>1. \A n : n \in 1..(len + 1) <=> n \in 1..len \/ n = len + 1 BY <3>1
      <4> QED BY <3>1, <3>2, <4>1 DEF Eligible
    <3> DEFINE eligible == Eligible(before, v, known)
    <3>4. Newest(after, eligible) = Newest(before, eligible)
      <4>1. \A n \in eligible : after[n] = before[n] BY <3>1 DEF Eligible
      <4> HIDE DEF eligible
      <4> QED BY <4>1 DEF Newest, NoOlder
    <3> QED BY <3>3, <3>4 DEF AsOf, before, after
  <2> QED BY <2>1, <2>2
<1> QED BY <1>3

\* No ingestion changes what an instant that has gone by shows: the revision it
\* appends is recorded later, so the candidates of that read and their order stay.
THEOREM PastCorrect == LedgerSpec => PastIsImmutable
<1> DEFINE Same == \A s \in Scopes, i \in Idents, v, known \in Time :
                       known < clock /\ history'[s] # NoHistory
                           => AsOf(s, i, v, known)' = AsOf(s, i, v, known)
<1>1. ASSUME Inv, Ingest PROVE Same
  BY <1>1, IngestKeepsPast
<1>2. ASSUME Inv, NEW t \in Scopes, EraseScope(t) PROVE Same
  <2>1. /\ history' = [history EXCEPT ![t] = NoHistory]
        /\ history \in [Scopes -> [Idents -> Seq(Revision)]]
    BY <1>2 DEF EraseScope, EraseLedger, Inv, LedgerTypeOK
  <2>2. \A s \in Scopes : history'[s] # NoHistory => history'[s] = history[s]
    BY <2>1
  <2> QED BY <2>2 DEF AsOf
<1>3. ASSUME UNCHANGED history PROVE Same
  BY <1>3 DEF AsOf
<1>4. Inv /\ [LedgerNext]_ledgerVars => [Same]_ledgerVars
  BY <1>1, <1>2, <1>3 DEF LedgerNext, Tick, ledgerVars
<1> QED BY Invariance, <1>4, PTL DEF LedgerSpec, PastIsImmutable
-----------------------------------------------------------------------------
(* The in-memory store implements RevisionChain.                           *)

\* What RevisionChain sees of a revision.
EntryOf(rev) == [key |-> rev.evidence[Len(rev.evidence)], value |-> rev.value]

\* A revision appended to a history is an entry appended to its chain.
LEMMA ChainOfAppend ==
    ASSUME NEW revisions \in Seq(Revision), NEW rev \in Revision
    PROVE  ChainOf(Append(revisions, rev)) = Append(ChainOf(revisions), EntryOf(rev))
<1> DEFINE len == Len(revisions)
           before == ChainOf(revisions)
           after == ChainOf(Append(revisions, rev))
<1>1. /\ len \in Nat /\ DOMAIN revisions = 1..len
      /\ DOMAIN Append(revisions, rev) = 1..(len + 1)
      /\ Append(revisions, rev)[len + 1] = rev
      /\ \A n \in 1..len : Append(revisions, rev)[n] = revisions[n]
  OBVIOUS
<1>2. before = [n \in 1..len |-> EntryOf(revisions[n])]
  BY <1>1 DEF ChainOf, EntryOf
<1>3. after = [n \in 1..(len + 1) |-> EntryOf(Append(revisions, rev)[n])]
  BY <1>1 DEF ChainOf, EntryOf
<1>4. \A n \in 1..len : EntryOf(revisions[n]) = EntryOf(Append(revisions, rev)[n])
  BY <1>1
<1> DEFINE entries == {EntryOf(Append(revisions, rev)[n]) : n \in 1..(len + 1)}
<1>5. before \in [1..len -> entries] /\ after \in [1..(len + 1) -> entries]
  <2>1. \A n \in 1..len : n \in 1..(len + 1) BY <1>1
  <2>2. \A n \in 1..len : EntryOf(revisions[n]) \in entries BY <1>4, <2>1
  <2> QED BY <1>2, <1>3, <2>2
<1>6. after[len + 1] = EntryOf(rev) /\ \A n \in 1..len : after[n] = before[n]
  <2>1. len + 1 \in 1..(len + 1) /\ \A n \in 1..len : n \in 1..(len + 1) BY <1>1
  <2> QED BY <1>1, <1>2, <1>3, <1>4, <2>1
<1> HIDE DEF before, after, len, entries
<1>7. after = Append(before, EntryOf(rev)) BY <1>1, <1>5, <1>6, LongerIsAppend
<1> QED BY <1>7 DEF before, after

\* The newest evidence of every revision is a key that was used.
LEMMA NewestEvidenceWasUsed ==
    ASSUME Inv, NEW s \in Scopes, NEW i \in Idents, NEW n \in DOMAIN history[s][i]
    PROVE  ingested[s][EntryOf(history[s][i][n]).key] # None
<1>1. PICK k \in Keys : /\ ingested[s][k] # None
                        /\ ingested[s][k].ident = i /\ ingested[s][k].revision = n
  BY DEF Inv, RetryResolvable
<1>2. Accepted(s, k).evidence[Len(Accepted(s, k).evidence)] = k
  BY <1>1 DEF Inv, RetryResolvable
<1>3. Accepted(s, k) = history[s][i][n] BY <1>1 DEF Accepted
<1> QED BY <1>1, <1>2, <1>3 DEF EntryOf

LEMMA ChainOfEmpty == ChainOf(<<>>) = <<>>
<1>1. ChainOf(<<>>) \in [1..0 -> {}]
  <2>1. DOMAIN <<>> = 1..0 OBVIOUS
  <2> QED BY <2>1 DEF ChainOf
<1> QED BY <1>1, FunctionOnNothing

LEMMA IngestRefines ==
    ASSUME Inv, Ingest
    PROVE  Abstract!Next
<1>1. PICK s \in Scopes, k \in Keys, i \in Idents, rev \in Revision :
          /\ ingested[s][k] = None
          /\ history'[s][i] = Append(history[s][i], rev)
          /\ \A t \in Scopes, j \in Idents :
                 t # s \/ j # i => history'[t][j] = history[t][j]
          /\ rev.evidence[Len(rev.evidence)] = k
  BY IngestEffect
<1>2. history[s][i] \in Seq(Revision) BY HistoryShape DEF Inv
<1>3. rev.value \in Values BY DEF Revision
<1> DEFINE chain == [t \in Scopes |-> [j \in Idents |-> ChainOf(history[t][j])]]
<1>4. \A j \in Idents : \A n \in DOMAIN chain[s][j] : chain[s][j][n].key # k
  <2> SUFFICES ASSUME NEW j \in Idents, NEW n \in DOMAIN ChainOf(history[s][j])
               PROVE  ChainOf(history[s][j])[n].key # k
    OBVIOUS
  <2>1. n \in DOMAIN history[s][j] /\ ChainOf(history[s][j])[n] = EntryOf(history[s][j][n])
    BY DEF ChainOf, EntryOf
  <2> QED BY <1>1, <2>1, NewestEvidenceWasUsed
<1>5. chain' = [chain EXCEPT ![s][i] = Append(@, [key |-> k, value |-> rev.value])]
  <2> DEFINE entry == [key |-> k, value |-> rev.value]
  <2>1. ChainOf(history'[s][i]) = Append(ChainOf(history[s][i]), entry)
    BY <1>1, <1>2, ChainOfAppend DEF EntryOf
  <2>2. \A t \in Scopes, j \in Idents :
            t # s \/ j # i => ChainOf(history'[t][j]) = ChainOf(history[t][j])
    BY <1>1
  <2> HIDE DEF entry
  <2>3. [t \in Scopes |-> [j \in Idents |-> ChainOf(history'[t][j])]] =
            [chain EXCEPT ![s] = [chain[s] EXCEPT ![i] = Append(chain[s][i], entry)]]
    <3> DEFINE after == [t \in Scopes |-> [j \in Idents |-> ChainOf(history'[t][j])]]
    <3>1. \A t \in Scopes : t # s => after[t] = chain[t] BY <2>2
    <3>2. after[s] = [chain[s] EXCEPT ![i] = Append(chain[s][i], entry)] BY <2>1, <2>2
    <3> QED BY <3>1, <3>2
  <2> QED BY <2>3 DEF entry
<1>6. Abstract!Accept(s, i, k, rev.value) BY <1>4, <1>5 DEF Abstract!Accept
<1> QED BY <1>3, <1>6 DEF Abstract!Next

LEMMA EraseRefines ==
    ASSUME Inv, NEW s \in Scopes, EraseScope(s)
    PROVE  Abstract!Next
<1>1. /\ \A i \in Idents : history'[s][i] = <<>>
      /\ \A t \in Scopes \ {s} : history'[t] = history[t]
  BY EraseEffect DEF Inv
<1>2. Abstract!Erase(s) BY <1>1, ChainOfEmpty DEF Abstract!Erase, Abstract!Empty
<1> QED BY <1>2 DEF Abstract!Next

\* The in-memory store keeps the promise of RevisionChain: an ingestion extends
\* one chain under a key no chain holds, and nothing but erasure shortens one.
THEOREM LedgerRefinement == LedgerSpec => ImplementsRevisionChain
<1> DEFINE chain == [s \in Scopes |-> [i \in Idents |-> ChainOf(history[s][i])]]
<1>1. LedgerInit => Abstract!Init
  BY ChainOfEmpty DEF LedgerInit, NoHistory, Abstract!Init, Abstract!Empty
<1>2. Inv /\ [LedgerNext]_ledgerVars => [Abstract!Next]_chain
  <2> SUFFICES ASSUME Inv, [LedgerNext]_ledgerVars PROVE [Abstract!Next]_chain
    OBVIOUS
  <2>1. CASE Ingest BY <2>1, IngestRefines
  <2>2. ASSUME NEW s \in Scopes, EraseScope(s) PROVE [Abstract!Next]_chain
    BY <2>2, EraseRefines
  <2>3. CASE UNCHANGED history BY <2>3
  <2> QED BY <2>1, <2>2, <2>3 DEF LedgerNext, Tick, ledgerVars
<1> QED BY <1>1, <1>2, Invariance, PTL DEF LedgerSpec, ImplementsRevisionChain, Abstract!Spec

-----------------------------------------------------------------------------
(* Recall and feedback.                                                    *)

\* What a trace shows was recorded in its scope, by the instant it may know of.
TracesShowRecorded ==
    \A t \in TraceIds : traces[t] # None =>
        /\ traces[t].created_at <= clock
        /\ \A rev \in traces[t].items :
               /\ rev[2] \in DOMAIN history[traces[t].scope][rev[1]]
               /\ history[traces[t].scope][rev[1]][rev[2]].recorded_at <= traces[t].known_at

\* No usage comes from the future.
UsagesArePast ==
    \A s \in Scopes, k \in UsageKeys :
        usages[s][k] # None => usages[s][k].recorded_at <= clock

ExperienceInv ==
    Inv /\ ExperienceTypeOK /\ TracesShowRecorded /\ UsagesArePast /\ OutcomesAreAttributed

\* The two halves of OutcomesAreAttributed, per scope and key.
UsageAttributed(s, k) ==
    usages[s][k] # None =>
        /\ InScope(usages[s][k].trace, s)
        /\ usages[s][k].revisions \subseteq traces[usages[s][k].trace].items
        /\ traces[usages[s][k].trace].created_at <= usages[s][k].recorded_at

OutcomeAttributed(s, k) ==
    outcomes[s][k] # None =>
        LET out == outcomes[s][k]
            revisions == history[s][out.revision[1]]
        IN  /\ InScope(out.trace, s)
            /\ out.revision \in traces[out.trace].items
            /\ out.revision[2] \in DOMAIN revisions
            /\ revisions[out.revision[2]].recorded_at <= traces[out.trace].known_at
            /\ traces[out.trace].created_at <= out.recorded_at
            /\ out.usage # None =>
                   /\ usages[s][out.usage] # None
                   /\ usages[s][out.usage].trace = out.trace
                   /\ out.revision \in usages[s][out.usage].revisions
                   /\ usages[s][out.usage].recorded_at <= out.recorded_at

LEMMA Attribution ==
    OutcomesAreAttributed <=>
        \A s \in Scopes : /\ \A k \in UsageKeys : UsageAttributed(s, k)
                          /\ \A k \in OutcomeKeys : OutcomeAttributed(s, k)
  BY DEF OutcomesAreAttributed, UsageAttributed, OutcomeAttributed
-----------------------------------------------------------------------------
(* What a recall may show.                                                 *)

\* An as-of read names a revision that was recorded by then.
LEMMA AsOfIsRecorded ==
    ASSUME Inv, NEW s \in Scopes, NEW i \in Idents, NEW v \in Time, NEW known \in Time,
           AsOf(s, i, v, known) # 0
    PROVE  /\ AsOf(s, i, v, known) \in DOMAIN history[s][i]
           /\ AsOf(s, i, v, known) \in Nat \ {0}
           /\ history[s][i][AsOf(s, i, v, known)].recorded_at <= known
<1> DEFINE revisions == history[s][i]
           eligible == Eligible(revisions, v, known)
<1>1. /\ Len(revisions) \in Nat /\ DOMAIN revisions = 1..Len(revisions)
      /\ \A n \in DOMAIN revisions : revisions[n].recorded_at \in Int
  BY HistoryShape DEF Inv, Revision, Time
<1>2. eligible # {} BY DEF AsOf
<1>3. eligible \subseteq 1..Len(revisions) BY <1>1 DEF Eligible
<1>4. PICK m \in eligible : \A n \in eligible : n <= m
  <2> HIDE DEF eligible, revisions
  <2>1. eligible \subseteq 0..Len(revisions) BY <1>1, <1>3
  <2> QED BY <1>1, <1>2, <2>1, LargestExists
<1>5. \A n \in eligible : revisions[n].recorded_at <= revisions[m].recorded_at
  BY <1>1, <1>3, <1>4 DEF Inv, RecordedInOrder
<1>6. m \in Newest(revisions, eligible)
  <2> HIDE DEF eligible, revisions
  <2> QED BY <1>1, <1>3, <1>4, <1>5 DEF Newest, NoOlder
<1>7. TheOne(Newest(revisions, eligible)) \in eligible
  <2> HIDE DEF eligible, revisions
  <2> QED BY <1>6 DEF TheOne, Newest
<1>8. AsOf(s, i, v, known) \in eligible BY <1>2, <1>7 DEF AsOf
<1> QED BY <1>1, <1>8 DEF Eligible

\* Every revision a recall may show exists and was recorded by known_at.
LEMMA VisibleIsRecorded ==
    ASSUME Inv, NEW s \in Scopes, NEW v \in Time, NEW known \in Time,
           NEW rev \in Visible(s, v, known)
    PROVE  /\ rev \in RevisionIds
           /\ rev[2] \in DOMAIN history[s][rev[1]]
           /\ history[s][rev[1]][rev[2]].recorded_at <= known
<1>1. PICK i \in Idents : AsOf(s, i, v, known) # 0 /\ rev = <<i, AsOf(s, i, v, known)>>
  BY DEF Visible
<1> QED BY <1>1, AsOfIsRecorded DEF RevisionIds
-----------------------------------------------------------------------------
(* Frame: what is attributed stays so as long as what it leads to stays.   *)

LEMMA UsageFrame ==
    ASSUME NEW s \in Scopes, NEW k \in UsageKeys, UsageAttributed(s, k),
           usages'[s][k] = usages[s][k],
           InScope(usages[s][k].trace, s) =>
               traces'[usages[s][k].trace] = traces[usages[s][k].trace]
    PROVE  UsageAttributed(s, k)'
  BY DEF UsageAttributed, InScope

LEMMA OutcomeFrame ==
    ASSUME NEW s \in Scopes, NEW k \in OutcomeKeys, OutcomeAttributed(s, k),
           ExperienceTypeOK,
           outcomes'[s][k] = outcomes[s][k],
           \A t \in TraceIds : InScope(t, s) => traces'[t] = traces[t],
           \A u \in UsageKeys : usages[s][u] # None => usages'[s][u] = usages[s][u],
           \A i \in Idents : \A n \in DOMAIN history[s][i] :
               n \in DOMAIN history'[s][i] /\ history'[s][i][n] = history[s][i][n]
    PROVE  OutcomeAttributed(s, k)'
<1> SUFFICES ASSUME outcomes[s][k] # None PROVE OutcomeAttributed(s, k)'
  BY DEF OutcomeAttributed
<1>1. outcomes[s][k] \in Outcome BY DEF ExperienceTypeOK
<1>2. /\ outcomes[s][k].trace \in TraceIds /\ outcomes[s][k].usage \in UsageKeys \cup {None}
      /\ outcomes[s][k].revision[1] \in Idents
  BY <1>1 DEF Outcome, RevisionIds
<1> QED BY <1>2 DEF OutcomeAttributed, InScope
-----------------------------------------------------------------------------
(* Every step of the experience is a step of the ledger.                   *)

LEMMA LedgerStep ==
    ASSUME [Next]_vars
    PROVE  [LedgerNext]_ledgerVars
<1>1. CASE UNCHANGED vars BY <1>1 DEF vars
<1>2. CASE (Ingest \/ Tick) /\ UNCHANGED experienceVars BY <1>2 DEF LedgerNext
<1>3. ASSUME NEW s \in Scopes, EraseMemory(s) PROVE [LedgerNext]_ledgerVars
  BY <1>3 DEF EraseMemory, LedgerNext
<1>4. \A s, t, context, valid_at, known_at :
          Recall(t, s, context, valid_at, known_at) => UNCHANGED ledgerVars
  BY DEF Recall
<1>5. \A s, k, t, cited : RecordUsage(s, k, t, cited) => UNCHANGED ledgerVars
  BY DEF RecordUsage
<1>6. \A s, k, t, rev, usage, success, weight, at :
          RecordOutcome(s, k, t, rev, usage, success, weight, at) => UNCHANGED ledgerVars
  BY DEF RecordOutcome
<1> QED BY <1>1, <1>2, <1>3, <1>4, <1>5, <1>6 DEF Next

\* No recorded revision is lost or changed.
HistoryKept ==
    \A s \in Scopes, i \in Idents : \A n \in DOMAIN history[s][i] :
        n \in DOMAIN history'[s][i] /\ history'[s][i][n] = history[s][i][n]

LEMMA IngestKeepsHistory ==
    ASSUME Inv, Ingest
    PROVE  HistoryKept /\ clock' = clock
<1>1. PICK s \in Scopes, i \in Idents, rev \in Revision :
          /\ history'[s][i] = Append(history[s][i], rev)
          /\ \A t \in Scopes, j \in Idents :
                 t # s \/ j # i => history'[t][j] = history[t][j]
          /\ clock' = clock
  BY IngestEffect
<1>2. history[s][i] \in Seq(Revision) BY HistoryShape DEF Inv
<1>3. \A n \in DOMAIN history[s][i] :
          n \in DOMAIN history'[s][i] /\ history'[s][i][n] = history[s][i][n]
  BY <1>1, <1>2
<1> QED BY <1>1, <1>3 DEF HistoryKept
-----------------------------------------------------------------------------
(* One lemma per kind of step.                                             *)

ExperienceParts ==
    ExperienceTypeOK /\ TracesShowRecorded /\ UsagesArePast /\ OutcomesAreAttributed

LEMMA LedgerActionStep ==
    ASSUME ExperienceInv, UNCHANGED experienceVars, HistoryKept,
           clock' \in Time, clock <= clock'
    PROVE  ExperienceParts'
<1>1. /\ ExperienceTypeOK /\ TracesShowRecorded /\ UsagesArePast
      /\ OutcomesAreAttributed /\ clock \in Time
  BY DEF ExperienceInv, Inv, LedgerTypeOK
<1>2. /\ traces' = traces /\ usages' = usages
      /\ outcomes' = outcomes /\ utilities' = utilities
  BY DEF experienceVars
<1>3. ExperienceTypeOK' BY <1>1, <1>2 DEF ExperienceTypeOK
<1>4. TracesShowRecorded'
  <2> SUFFICES ASSUME NEW t \in TraceIds, traces[t] # None
               PROVE  /\ traces[t].created_at <= clock'
                      /\ \A rev \in traces[t].items :
                             /\ rev[2] \in DOMAIN history'[traces[t].scope][rev[1]]
                             /\ history'[traces[t].scope][rev[1]][rev[2]].recorded_at
                                    <= traces[t].known_at
    BY <1>2 DEF TracesShowRecorded
  <2>1. /\ traces[t].scope \in Scopes /\ traces[t].items \subseteq RevisionIds
        /\ traces[t].created_at \in Time /\ traces[t].created_at <= clock
    BY <1>1 DEF ExperienceTypeOK, TracesShowRecorded
  <2>2. \A rev \in traces[t].items : rev[1] \in Idents BY <2>1 DEF RevisionIds
  <2>3. traces[t].created_at <= clock' BY <1>1, <2>1 DEF Time
  <2> QED BY <1>1, <2>1, <2>2, <2>3 DEF HistoryKept, TracesShowRecorded
<1>5. UsagesArePast'
  <2> SUFFICES ASSUME NEW s \in Scopes, NEW k \in UsageKeys, usages[s][k] # None
               PROVE  usages[s][k].recorded_at <= clock'
    BY <1>2 DEF UsagesArePast
  <2>1. usages[s][k] \in Usage BY <1>1 DEF ExperienceTypeOK
  <2>2. usages[s][k].recorded_at \in Time /\ usages[s][k].recorded_at <= clock
    BY <1>1, <2>1 DEF Usage, UsagesArePast
  <2> QED BY <1>1, <2>2 DEF Time
<1>6. OutcomesAreAttributed'
  <2>1. ASSUME NEW s \in Scopes, NEW k \in UsageKeys PROVE UsageAttributed(s, k)'
    BY <1>1, <1>2, Attribution, UsageFrame
  <2>2. ASSUME NEW s \in Scopes, NEW k \in OutcomeKeys PROVE OutcomeAttributed(s, k)'
    <3>1. OutcomeAttributed(s, k) BY <1>1, Attribution
    <3> QED BY <1>1, <1>2, <3>1, OutcomeFrame DEF HistoryKept
  <2> QED BY <2>1, <2>2 DEF OutcomesAreAttributed, UsageAttributed, OutcomeAttributed
<1> QED BY <1>3, <1>4, <1>5, <1>6 DEF ExperienceParts

LEMMA RecallStep ==
    ASSUME ExperienceInv, NEW t \in TraceIds, NEW s \in Scopes, NEW context \in Contexts,
           NEW valid_at \in Time, NEW known_at \in Time,
           Recall(t, s, context, valid_at, known_at)
    PROVE  ExperienceParts'
<1>1. /\ Inv /\ ExperienceTypeOK /\ TracesShowRecorded /\ UsagesArePast
      /\ OutcomesAreAttributed /\ clock \in Time
  BY DEF ExperienceInv, Inv, LedgerTypeOK
<1>2. PICK items \in SUBSET Visible(s, valid_at, known_at) :
          traces' = [traces EXCEPT ![t] =
              [scope |-> s, context |-> context, valid_at |-> valid_at,
               known_at |-> known_at, created_at |-> clock, items |-> items,
               utility |-> [rev \in items |-> UtilityAsOf(s, rev, context, known_at)]]]
  BY DEF Recall
<1>3. /\ clock' = clock /\ history' = history /\ traces[t] = None
      /\ usages' = usages /\ outcomes' = outcomes /\ utilities' = utilities
  BY DEF Recall, ledgerVars
<1>4. /\ DOMAIN traces' = TraceIds
      /\ traces'[t].scope = s /\ traces'[t].context = context
      /\ traces'[t].valid_at = valid_at /\ traces'[t].known_at = known_at
      /\ traces'[t].created_at = clock /\ traces'[t].items = items
      /\ DOMAIN traces'[t].utility = items
  BY <1>1, <1>2 DEF ExperienceTypeOK
<1>5. \A r \in TraceIds : r # t => traces'[r] = traces[r]
  BY <1>1, <1>2 DEF ExperienceTypeOK
<1>6. \A rev \in items : /\ rev \in RevisionIds
                         /\ rev[2] \in DOMAIN history[s][rev[1]]
                         /\ history[s][rev[1]][rev[2]].recorded_at <= known_at
  BY <1>1, VisibleIsRecorded
<1>7. ExperienceTypeOK'
  <2>1. ASSUME NEW r \in TraceIds, traces'[r] # None
        PROVE  /\ traces'[r].scope \in Scopes /\ traces'[r].context \in Contexts
               /\ traces'[r].valid_at \in Time /\ traces'[r].known_at \in Time
               /\ traces'[r].created_at \in Time
               /\ traces'[r].items \subseteq RevisionIds
               /\ DOMAIN traces'[r].utility = traces'[r].items
    <3>1. CASE r = t BY <1>1, <1>4, <1>6, <3>1
    <3>2. CASE r # t BY <1>1, <1>5, <2>1, <3>2 DEF ExperienceTypeOK
    <3> QED BY <3>1, <3>2
  <2> QED BY <1>1, <1>3, <1>4, <2>1 DEF ExperienceTypeOK
<1>8. TracesShowRecorded'
  <2> SUFFICES ASSUME NEW r \in TraceIds, traces'[r] # None
               PROVE  /\ traces'[r].created_at <= clock
                      /\ \A rev \in traces'[r].items :
                             /\ rev[2] \in DOMAIN history[traces'[r].scope][rev[1]]
                             /\ history[traces'[r].scope][rev[1]][rev[2]].recorded_at
                                    <= traces'[r].known_at
    BY <1>3 DEF TracesShowRecorded
  <2>1. CASE r = t BY <1>1, <1>4, <1>6, <2>1 DEF Time
  <2>2. CASE r # t BY <1>1, <1>5, <2>2 DEF TracesShowRecorded
  <2> QED BY <2>1, <2>2
<1>9. UsagesArePast' BY <1>1, <1>3 DEF UsagesArePast
<1>10. OutcomesAreAttributed'
  <2>1. \A r \in TraceIds, o \in Scopes : InScope(r, o) => traces'[r] = traces[r]
    BY <1>3, <1>5 DEF InScope
  <2>2. ASSUME NEW o \in Scopes, NEW k \in UsageKeys PROVE UsageAttributed(o, k)'
    <3>1. UsageAttributed(o, k) BY <1>1, Attribution
    <3> SUFFICES ASSUME usages[o][k] # None PROVE UsageAttributed(o, k)'
      BY <1>3 DEF UsageAttributed
    <3>2. usages[o][k].trace \in TraceIds BY <1>1 DEF ExperienceTypeOK, Usage
    <3> QED BY <1>3, <2>1, <3>1, <3>2, UsageFrame
  <2>3. ASSUME NEW o \in Scopes, NEW k \in OutcomeKeys PROVE OutcomeAttributed(o, k)'
    <3>1. OutcomeAttributed(o, k) BY <1>1, Attribution
    <3> QED BY <1>1, <1>3, <2>1, <3>1, OutcomeFrame
  <2> QED BY <2>2, <2>3 DEF OutcomesAreAttributed, UsageAttributed, OutcomeAttributed
<1> QED BY <1>7, <1>8, <1>9, <1>10 DEF ExperienceParts

LEMMA RecordUsageStep ==
    ASSUME ExperienceInv, NEW s \in Scopes, NEW u \in UsageKeys, NEW t \in TraceIds,
           NEW cited, RecordUsage(s, u, t, cited)
    PROVE  ExperienceParts'
<1>1. /\ ExperienceTypeOK /\ TracesShowRecorded /\ UsagesArePast
      /\ OutcomesAreAttributed /\ clock \in Time
  BY DEF ExperienceInv, Inv, LedgerTypeOK
<1> DEFINE use == [trace |-> t, revisions |-> cited, recorded_at |-> clock]
<1>2. /\ clock' = clock /\ history' = history /\ usages[s][u] = None
      /\ traces' = traces /\ outcomes' = outcomes /\ utilities' = utilities
      /\ usages' = [usages EXCEPT ![s][u] = use]
      /\ InScope(t, s) /\ cited \subseteq traces[t].items
  BY DEF RecordUsage, ledgerVars
<1>3. traces[t].items \subseteq RevisionIds /\ traces[t].created_at <= clock
  BY <1>1, <1>2 DEF InScope, ExperienceTypeOK, TracesShowRecorded
<1>4. use \in Usage BY <1>1, <1>2, <1>3 DEF Usage
<1>5. /\ usages'[s][u] = use
      /\ \A o \in Scopes, k \in UsageKeys :
             o # s \/ k # u => usages'[o][k] = usages[o][k]
      /\ usages' \in [Scopes -> [UsageKeys -> Usage \cup {None}]]
  BY <1>1, <1>2, <1>4 DEF ExperienceTypeOK
<1>6. ExperienceTypeOK' BY <1>1, <1>2, <1>5 DEF ExperienceTypeOK
<1>7. TracesShowRecorded' BY <1>1, <1>2 DEF TracesShowRecorded
<1>8. UsagesArePast'
  <2>1. use.recorded_at <= clock BY <1>1 DEF Time
  <2> QED BY <1>1, <1>2, <1>5, <2>1 DEF UsagesArePast
<1>9. OutcomesAreAttributed'
  <2>1. ASSUME NEW o \in Scopes, NEW k \in UsageKeys PROVE UsageAttributed(o, k)'
    <3>1. CASE o = s /\ k = u
      BY <1>2, <1>3, <1>5, <3>1 DEF UsageAttributed, InScope
    <3>2. CASE o # s \/ k # u
      <4>1. UsageAttributed(o, k) BY <1>1, Attribution
      <4> QED BY <1>2, <1>5, <3>2, <4>1, UsageFrame
    <3> QED BY <3>1, <3>2
  <2>2. ASSUME NEW o \in Scopes, NEW k \in OutcomeKeys PROVE OutcomeAttributed(o, k)'
    <3>1. OutcomeAttributed(o, k) BY <1>1, Attribution
    <3>2. \A v \in UsageKeys : usages[o][v] # None => usages'[o][v] = usages[o][v]
      BY <1>2, <1>5
    <3> QED BY <1>1, <1>2, <3>1, <3>2, OutcomeFrame
  <2> QED BY <2>1, <2>2 DEF OutcomesAreAttributed, UsageAttributed, OutcomeAttributed
<1> QED BY <1>6, <1>7, <1>8, <1>9 DEF ExperienceParts

LEMMA RecordOutcomeStep ==
    ASSUME ExperienceInv, NEW s \in Scopes, NEW c \in OutcomeKeys, NEW t \in TraceIds,
           NEW rev, NEW usage \in UsageKeys \cup {None}, NEW success \in BOOLEAN,
           NEW weight \in Weights, NEW at \in Time,
           RecordOutcome(s, c, t, rev, usage, success, weight, at)
    PROVE  ExperienceParts'
<1>1. /\ ExperienceTypeOK /\ TracesShowRecorded /\ UsagesArePast
      /\ OutcomesAreAttributed /\ clock \in Time
  BY DEF ExperienceInv, Inv, LedgerTypeOK
<1> DEFINE out == [trace |-> t, usage |-> usage, revision |-> rev, success |-> success,
                   weight |-> weight, occurred_at |-> at, recorded_at |-> clock]
           key == <<rev, traces[t].context>>
           estimate == Updated(UtilityFor(s, rev, traces[t].context), success, weight, at)
<1>2. /\ clock' = clock /\ history' = history
      /\ traces' = traces /\ usages' = usages
      /\ outcomes' = [outcomes EXCEPT ![s][c] = out]
      /\ InScope(t, s) /\ Attributable(s, t, rev, usage)
  BY DEF RecordOutcome, ledgerVars
<1>3. utilities' = [utilities EXCEPT ![s] =
          [entry \in DOMAIN utilities[s] \cup {key} |->
              IF entry = key THEN estimate ELSE utilities[s][entry]]]
  BY DEF RecordOutcome
<1>4. /\ rev \in traces[t].items /\ rev \in RevisionIds
      /\ traces[t].context \in Contexts /\ traces[t].created_at <= clock
  <2>1. /\ traces[t] # None /\ traces[t].items \subseteq RevisionIds
        /\ traces[t].context \in Contexts /\ traces[t].created_at <= clock
    BY <1>1, <1>2 DEF InScope, ExperienceTypeOK, TracesShowRecorded
  <2>2. CASE usage = None BY <1>2, <2>1, <2>2 DEF Attributable
  <2>3. CASE usage # None
    <3>1. /\ usages[s][usage] # None /\ usages[s][usage].trace = t
          /\ rev \in usages[s][usage].revisions
      BY <1>2, <2>3 DEF Attributable
    <3>2. usages[s][usage].revisions \subseteq traces[t].items
      BY <1>1, <2>3, <3>1 DEF OutcomesAreAttributed
    <3> QED BY <2>1, <3>1, <3>2
  <2> QED BY <2>2, <2>3
<1>5. out \in Outcome BY <1>1, <1>4 DEF Outcome
<1>6. /\ outcomes'[s][c] = out
      /\ \A o \in Scopes, k \in OutcomeKeys :
             o # s \/ k # c => outcomes'[o][k] = outcomes[o][k]
      /\ outcomes' \in [Scopes -> [OutcomeKeys -> Outcome \cup {None}]]
  BY <1>1, <1>2, <1>5 DEF ExperienceTypeOK
<1>7. estimate \in Utility
  <2>1. UtilityFor(s, rev, traces[t].context) \in Utility
    BY <1>1 DEF UtilityFor, NoUtility, Utility, ExperienceTypeOK
  <2>2. weight \in Nat BY WeightsAssumption
  <2> HIDE DEF estimate
  <2>3. \A utility \in Utility : Updated(utility, success, weight, at) \in Utility
    BY <2>2 DEF Utility, Updated, Larger
  <2> QED BY <2>1, <2>3 DEF estimate
<1>8. ExperienceTypeOK'
  <2>1. /\ DOMAIN utilities' = Scopes
        /\ \A o \in Scopes : o # s => utilities'[o] = utilities[o]
        /\ DOMAIN utilities'[s] = DOMAIN utilities[s] \cup {key}
        /\ \A e \in DOMAIN utilities'[s] :
               utilities'[s][e] = IF e = key THEN estimate ELSE utilities[s][e]
    <3> HIDE DEF key, estimate
    <3> QED BY <1>1, <1>3 DEF ExperienceTypeOK
  <2>2. ASSUME NEW o \in Scopes, NEW e \in DOMAIN utilities'[o]
        PROVE  e \in RevisionIds \X Contexts /\ utilities'[o][e] \in Utility
    <3>1. CASE o = s /\ e = key
      <4>1. key \in RevisionIds \X Contexts BY <1>4
      <4> HIDE DEF key, estimate
      <4> QED BY <1>7, <2>1, <3>1, <4>1
    <3>2. CASE o # s \/ e # key
      <4>1. e \in DOMAIN utilities[o] /\ utilities'[o][e] = utilities[o][e]
        <5> HIDE DEF key, estimate
        <5> QED BY <2>1, <2>2, <3>2
      <4> QED BY <1>1, <4>1 DEF ExperienceTypeOK
    <3> QED BY <3>1, <3>2
  <2> QED BY <1>1, <1>2, <1>6, <2>1, <2>2 DEF ExperienceTypeOK
<1>9. TracesShowRecorded' BY <1>1, <1>2 DEF TracesShowRecorded
<1>10. UsagesArePast' BY <1>1, <1>2 DEF UsagesArePast
<1>11. OutcomesAreAttributed'
  <2>1. ASSUME NEW o \in Scopes, NEW k \in UsageKeys PROVE UsageAttributed(o, k)'
    <3>1. UsageAttributed(o, k) BY <1>1, Attribution
    <3> QED BY <1>2, <3>1, UsageFrame
  <2>2. ASSUME NEW o \in Scopes, NEW k \in OutcomeKeys PROVE OutcomeAttributed(o, k)'
    <3>1. CASE o = s /\ k = c
      <4>1. /\ rev[2] \in DOMAIN history[s][rev[1]]
            /\ history[s][rev[1]][rev[2]].recorded_at <= traces[t].known_at
        BY <1>1, <1>2, <1>4 DEF InScope, TracesShowRecorded
      <4>2. ASSUME usage # None
            PROVE  /\ usages[s][usage] # None /\ usages[s][usage].trace = t
                   /\ rev \in usages[s][usage].revisions
                   /\ usages[s][usage].recorded_at <= clock
        BY <1>1, <1>2, <4>2 DEF Attributable, UsagesArePast
      <4>3. InScope(t, s)' BY <1>2 DEF InScope
      <4> QED BY <1>2, <1>4, <1>6, <3>1, <4>1, <4>2, <4>3 DEF OutcomeAttributed
    <3>2. CASE o # s \/ k # c
      <4>1. OutcomeAttributed(o, k) BY <1>1, Attribution
      <4> QED BY <1>1, <1>2, <1>6, <3>2, <4>1, OutcomeFrame
    <3> QED BY <3>1, <3>2
  <2> QED BY <2>1, <2>2 DEF OutcomesAreAttributed, UsageAttributed, OutcomeAttributed
<1> QED BY <1>8, <1>9, <1>10, <1>11 DEF ExperienceParts

LEMMA EraseStep ==
    ASSUME ExperienceInv, NEW s \in Scopes, EraseMemory(s)
    PROVE  ExperienceParts'
<1>1. /\ ExperienceTypeOK /\ TracesShowRecorded /\ UsagesArePast
      /\ OutcomesAreAttributed /\ LedgerTypeOK /\ clock \in Time
  BY DEF ExperienceInv, Inv, LedgerTypeOK
<1>2. clock' = clock /\ \A o \in Scopes \ {s} : history'[o] = history[o]
  BY <1>1, EraseEffect DEF EraseMemory
<1>3. /\ traces' = [t \in TraceIds |-> IF InScope(t, s) THEN None ELSE traces[t]]
      /\ usages' = [usages EXCEPT ![s] = [k \in UsageKeys |-> None]]
      /\ outcomes' = [outcomes EXCEPT ![s] = [k \in OutcomeKeys |-> None]]
      /\ utilities' = [utilities EXCEPT ![s] = <<>>]
  BY DEF EraseMemory, EraseExperience
<1>4. /\ \A k \in UsageKeys : usages'[s][k] = None
      /\ \A k \in OutcomeKeys : outcomes'[s][k] = None
      /\ DOMAIN utilities'[s] = {}
      /\ \A o \in Scopes : o # s =>
             /\ usages'[o] = usages[o] /\ outcomes'[o] = outcomes[o]
             /\ utilities'[o] = utilities[o]
  BY <1>1, <1>3 DEF ExperienceTypeOK
<1>5. \A t \in TraceIds : traces'[t] # None =>
          /\ traces'[t] = traces[t] /\ traces[t] # None /\ traces[t].scope # s
  BY <1>3 DEF InScope
<1>6. \A t \in TraceIds, o \in Scopes : o # s /\ InScope(t, o) => traces'[t] = traces[t]
  BY <1>3 DEF InScope
<1>7. ExperienceTypeOK'
  <2>1. /\ usages' \in [Scopes -> [UsageKeys -> Usage \cup {None}]]
        /\ outcomes' \in [Scopes -> [OutcomeKeys -> Outcome \cup {None}]]
    BY <1>1, <1>3 DEF ExperienceTypeOK
  <2>2. DOMAIN utilities' = Scopes /\ DOMAIN traces' = TraceIds
    BY <1>1, <1>3 DEF ExperienceTypeOK
  <2>3. \A o \in Scopes : \A e \in DOMAIN utilities'[o] :
            e \in RevisionIds \X Contexts /\ utilities'[o][e] \in Utility
    BY <1>1, <1>4 DEF ExperienceTypeOK
  <2> QED BY <1>1, <1>5, <2>1, <2>2, <2>3 DEF ExperienceTypeOK
<1>8. TracesShowRecorded'
  <2> SUFFICES ASSUME NEW t \in TraceIds, traces'[t] # None
               PROVE  /\ traces'[t].created_at <= clock'
                      /\ \A rev \in traces'[t].items :
                             /\ rev[2] \in DOMAIN history'[traces'[t].scope][rev[1]]
                             /\ history'[traces'[t].scope][rev[1]][rev[2]].recorded_at
                                    <= traces'[t].known_at
    BY DEF TracesShowRecorded
  <2>1. traces[t].scope \in Scopes \ {s} BY <1>1, <1>5 DEF ExperienceTypeOK
  <2> QED BY <1>1, <1>2, <1>5, <2>1 DEF TracesShowRecorded
<1>9. UsagesArePast' BY <1>1, <1>2, <1>4 DEF UsagesArePast
<1>10. OutcomesAreAttributed'
  <2>1. ASSUME NEW o \in Scopes, NEW k \in UsageKeys PROVE UsageAttributed(o, k)'
    <3>1. CASE o = s BY <1>4, <3>1 DEF UsageAttributed
    <3>2. CASE o # s /\ usages[o][k] = None BY <1>4, <3>2 DEF UsageAttributed
    <3>3. CASE o # s /\ usages[o][k] # None
      <4>1. UsageAttributed(o, k) BY <1>1, Attribution
      <4>2. usages[o][k].trace \in TraceIds BY <1>1, <3>3 DEF ExperienceTypeOK, Usage
      <4> QED BY <1>4, <1>6, <3>3, <4>1, <4>2, UsageFrame
    <3> QED BY <3>1, <3>2, <3>3
  <2>2. ASSUME NEW o \in Scopes, NEW k \in OutcomeKeys PROVE OutcomeAttributed(o, k)'
    <3>1. CASE o = s BY <1>4, <3>1 DEF OutcomeAttributed
    <3>2. CASE o # s
      <4>1. OutcomeAttributed(o, k) BY <1>1, Attribution
      <4>2. history'[o] = history[o] BY <1>2, <3>2
      <4>3. \A t \in TraceIds : InScope(t, o) => traces'[t] = traces[t] BY <1>6, <3>2
      <4> QED BY <1>1, <1>4, <3>2, <4>1, <4>2, <4>3, OutcomeFrame
    <3> QED BY <3>1, <3>2
  <2> QED BY <2>1, <2>2 DEF OutcomesAreAttributed, UsageAttributed, OutcomeAttributed
<1> QED BY <1>7, <1>8, <1>9, <1>10 DEF ExperienceParts
-----------------------------------------------------------------------------
(* The theorems.                                                           *)

LEMMA ExperienceInit == Init => ExperienceInv
<1> SUFFICES ASSUME Init PROVE ExperienceInv OBVIOUS
<1>1. Inv BY InitInv DEF Init
<1>2. /\ \A t \in TraceIds : traces[t] = None
      /\ \A s \in Scopes : /\ \A k \in UsageKeys : usages[s][k] = None
                           /\ \A k \in OutcomeKeys : outcomes[s][k] = None
                           /\ DOMAIN utilities[s] = {}
  BY DEF Init
<1>3. ExperienceTypeOK
  <2>1. /\ usages \in [Scopes -> [UsageKeys -> Usage \cup {None}]]
        /\ outcomes \in [Scopes -> [OutcomeKeys -> Outcome \cup {None}]]
        /\ DOMAIN traces = TraceIds /\ DOMAIN utilities = Scopes
    BY DEF Init
  <2> QED BY <1>2, <2>1 DEF ExperienceTypeOK
<1>4. TracesShowRecorded /\ UsagesArePast BY <1>2 DEF TracesShowRecorded, UsagesArePast
<1>5. OutcomesAreAttributed BY <1>2 DEF OutcomesAreAttributed
<1> QED BY <1>1, <1>3, <1>4, <1>5 DEF ExperienceInv

LEMMA ExperienceStep ==
    ASSUME ExperienceInv, [Next]_vars
    PROVE  ExperienceInv'
<1>1. Inv /\ clock \in Time BY DEF ExperienceInv, Inv, LedgerTypeOK
<1>2. Inv' BY <1>1, LedgerStep, TypeStep, OrderStep, RetryStep DEF Inv
<1>3. ExperienceParts'
  <2>1. CASE UNCHANGED vars
    <3>1. UNCHANGED experienceVars /\ clock' = clock /\ history' = history
      BY <2>1 DEF vars, ledgerVars
    <3>2. HistoryKept BY <3>1 DEF HistoryKept
    <3> QED BY <1>1, <3>1, <3>2, LedgerActionStep DEF Time
  <2>2. CASE Ingest /\ UNCHANGED experienceVars
    BY <1>1, <2>2, IngestKeepsHistory, LedgerActionStep DEF Time
  <2>3. CASE Tick /\ UNCHANGED experienceVars
    <3>1. history' = history /\ clock' \in Time /\ clock <= clock'
      BY <1>1, <2>3, ClockAssumption DEF Tick, Time
    <3>2. HistoryKept BY <3>1 DEF HistoryKept
    <3> QED BY <2>3, <3>1, <3>2, LedgerActionStep
  <2>4. ASSUME NEW s \in Scopes, NEW t \in TraceIds, NEW context \in Contexts,
               NEW valid_at \in Time, NEW known_at \in Time,
               Recall(t, s, context, valid_at, known_at)
        PROVE  ExperienceParts'
    BY <2>4, RecallStep
  <2>5. ASSUME NEW s \in Scopes, NEW k \in UsageKeys, NEW t \in TraceIds, NEW cited,
               RecordUsage(s, k, t, cited)
        PROVE  ExperienceParts'
    BY <2>5, RecordUsageStep
  <2>6. ASSUME NEW s \in Scopes, NEW k \in OutcomeKeys, NEW t \in TraceIds, NEW rev,
               NEW usage \in UsageKeys \cup {None}, NEW success \in BOOLEAN,
               NEW weight \in Weights, NEW at \in Time,
               RecordOutcome(s, k, t, rev, usage, success, weight, at)
        PROVE  ExperienceParts'
    BY <2>6, RecordOutcomeStep
  <2>7. ASSUME NEW s \in Scopes, EraseMemory(s) PROVE ExperienceParts'
    BY <2>7, EraseStep
  <2> QED BY <2>1, <2>2, <2>3, <2>4, <2>5, <2>6, <2>7 DEF Next
<1> QED BY <1>2, <1>3 DEF ExperienceInv, ExperienceParts

\* The invariant holds in every reachable state, whatever is ingested, recalled,
\* reported or erased, in any order.
THEOREM ExperienceInvariance == Spec => []ExperienceInv
<1>1. ExperienceInv /\ [Next]_vars => ExperienceInv' BY ExperienceStep
<1> QED BY ExperienceInit, <1>1, PTL DEF Spec

\* Every table of the experience stays well typed.
THEOREM ExperienceTypeCorrect == Spec => []ExperienceTypeOK
<1>1. ExperienceInv => ExperienceTypeOK BY DEF ExperienceInv
<1> QED BY ExperienceInvariance, <1>1, PTL

\* No outcome is learnt from that does not lead back, through the usage it cites,
\* to a trace that showed a revision recorded before it.
THEOREM AttributionCorrect == Spec => []OutcomesAreAttributed
<1>1. ExperienceInv => OutcomesAreAttributed BY DEF ExperienceInv
<1> QED BY ExperienceInvariance, <1>1, PTL

\* The ledger keeps its invariant when it runs under the experience.
THEOREM LedgerUnderExperience == Spec => [](RetryResolvable /\ LedgerTypeOK)
<1>1. ExperienceInv => RetryResolvable /\ LedgerTypeOK BY DEF ExperienceInv, Inv
<1> QED BY ExperienceInvariance, <1>1, PTL
-----------------------------------------------------------------------------
(* What is learnt adds up.                                                 *)

\* The outcomes an estimate for (rev, context) is rebuilt from, and the estimate
\* they amount to.
KnownOutcomes(s, rev, context, known_at) ==
    {k \in OutcomeKeys :
        /\ outcomes[s][k] # None
        /\ outcomes[s][k].revision = rev
        /\ outcomes[s][k].recorded_at <= known_at
        /\ InScope(outcomes[s][k].trace, s)
        /\ traces[outcomes[s][k].trace].context = context}

WeightsOf(table, known) == [k \in known |-> table[k].weight]

Agreeing(table, known, success) == {k \in known : table[k].success = success}

WeightOf(table, known, success) ==
    SumFunctionOnSet(WeightsOf(table, known), Agreeing(table, known, success))

LastOf(table, known) ==
    IF known = {} THEN None ELSE Max({table[k].occurred_at : k \in known})

EstimateOf(table, known) ==
    [positive |-> WeightOf(table, known, TRUE),
     negative |-> WeightOf(table, known, FALSE),
     last |-> LastOf(table, known)]

LEMMA UtilityIsEstimate ==
    \A s, rev, context, known_at :
        UtilityAsOf(s, rev, context, known_at) =
            EstimateOf(outcomes[s], KnownOutcomes(s, rev, context, known_at))
  BY DEF UtilityAsOf, EstimateOf, WeightOf, WeightsOf, Agreeing, LastOf, KnownOutcomes

\* Outcomes are finitely many: each was recorded by a step.
OutcomesAreFinite ==
    \A s \in Scopes : IsFiniteSet({k \in OutcomeKeys : outcomes[s][k] # None})

\* An estimate depends on the outcomes it is rebuilt from only.
LEMMA EstimateSame ==
    ASSUME NEW known, NEW table, NEW later, \A k \in known : later[k] = table[k]
    PROVE  EstimateOf(later, known) = EstimateOf(table, known)
<1>1. WeightsOf(later, known) = WeightsOf(table, known) BY DEF WeightsOf
<1>2. \A success : Agreeing(later, known, success) = Agreeing(table, known, success)
  BY DEF Agreeing
<1>3. LastOf(later, known) = LastOf(table, known)
  <2>1. {later[k].occurred_at : k \in known} = {table[k].occurred_at : k \in known}
    OBVIOUS
  <2> QED BY <2>1 DEF LastOf
<1> QED BY <1>1, <1>2, <1>3 DEF EstimateOf, WeightOf

\* No outcomes amount to the prior.
LEMMA EstimateOfNothing ==
    ASSUME NEW table
    PROVE  EstimateOf(table, {}) = NoUtility
<1>1. \A success : Agreeing(table, {}, success) = {} BY DEF Agreeing
<1>2. \A success : WeightOf(table, {}, success) = 0 BY <1>1, SumOfNothing DEF WeightOf
<1>3. LastOf(table, {}) = None BY DEF LastOf
<1> QED BY <1>2, <1>3 DEF EstimateOf, NoUtility

\* One outcome more updates the estimate the way apply_outcome does.
LEMMA EstimateAdds ==
    ASSUME NEW known, IsFiniteSet(known), NEW c, c \notin known, NEW table,
           \A k \in known \cup {c} : table[k] \in Outcome
    PROVE  EstimateOf(table, known \cup {c}) =
               Updated(EstimateOf(table, known),
                       table[c].success, table[c].weight, table[c].occurred_at)
<1> DEFINE more == known \cup {c}
           old == WeightsOf(table, known)
           new == WeightsOf(table, more)
           out == table[c]
<1>1. \A k \in more : /\ table[k].weight \in Nat /\ table[k].success \in BOOLEAN
                      /\ table[k].occurred_at \in Time
  BY WeightsAssumption DEF Outcome
<1>2. /\ \A k \in known : old[k] \in Nat /\ new[k] = old[k]
      /\ new[c] = out.weight /\ out.weight \in Nat
  BY <1>1 DEF WeightsOf
<1>3. ASSUME NEW success \in BOOLEAN
      PROVE  WeightOf(table, more, success) =
                 WeightOf(table, known, success)
                     + (IF out.success = success THEN out.weight ELSE 0)
  <2> DEFINE S == Agreeing(table, known, success)
             T == Agreeing(table, more, success)
  <2>1. S \subseteq known /\ IsFiniteSet(S) /\ c \notin S BY FS_Subset DEF Agreeing
  <2>2. T = IF out.success = success THEN S \cup {c} ELSE S BY DEF Agreeing
  <2>3. \A k \in S : old[k] \in Nat /\ new[k] = old[k] BY <1>2, <2>1
  <2>4. SumFunctionOnSet(old, S) \in Nat
    <3> HIDE DEF S, old
    <3> QED BY <2>1, <2>3, SumIsNatural
  <2> HIDE DEF more
  <2>5. /\ WeightOf(table, more, success) = SumFunctionOnSet(new, T)
        /\ WeightOf(table, known, success) = SumFunctionOnSet(old, S)
    BY DEF WeightOf
  <2> DEFINE before == WeightOf(table, known, success)
             after == WeightOf(table, more, success)
  <2> HIDE DEF S, T, old, new, out, before, after
  <2>6. before \in Nat BY <2>4, <2>5 DEF before
  <2>7. CASE out.success = success
    <3>1. SumFunctionOnSet(new, S \cup {c}) = new[c] + SumFunctionOnSet(old, S)
      BY <1>2, <2>1, <2>3, SumAdds
    <3>2. after = out.weight + before BY <1>2, <2>2, <2>7, <2>5, <3>1 DEF before, after
    <3>3. after = before + out.weight BY <1>2, <2>6, <3>2
    <3> QED BY <2>7, <3>3 DEF before, after
  <2>8. CASE out.success # success
    <3>1. SumFunctionOnSet(new, S) = SumFunctionOnSet(old, S)
      BY <2>1, <2>3, SumDependsOnValues
    <3>2. after = before BY <2>2, <2>8, <2>5, <3>1 DEF before, after
    <3>3. after = before + 0 BY <2>6, <3>2
    <3> QED BY <2>8, <3>3 DEF before, after
  <2> QED BY <2>7, <2>8
<1>4. LastOf(table, more) =
          IF LastOf(table, known) = None THEN out.occurred_at
          ELSE Larger(LastOf(table, known), out.occurred_at)
  <2> DEFINE times == {table[k].occurred_at : k \in known}
             at == out.occurred_at
  <2>1. times \subseteq 0..MaxClock /\ at \in 0..MaxClock BY <1>1 DEF Time
  <2>2. {table[k].occurred_at : k \in more} = times \cup {at} OBVIOUS
  <2>3. (known = {} <=> times = {}) /\ more # {} OBVIOUS
  <2> HIDE DEF times, at
  <2>4. Max(times \cup {at}) =
            IF times = {} THEN at ELSE IF Max(times) >= at THEN Max(times) ELSE at
    BY <2>1, ClockAssumption, MaxGrows
  <2>5. times # {} => Max(times) \in Time
    BY <2>1, ClockAssumption, MaxIsLargest DEF Time
  <2>6. LastOf(table, more) = Max(times \cup {at}) BY <2>2, <2>3 DEF LastOf
  <2>7. LastOf(table, known) = IF times = {} THEN None ELSE Max(times)
    BY <2>3 DEF LastOf, times
  <2>8. CASE times = {} BY <2>4, <2>6, <2>7, <2>8 DEF at
  <2>9. CASE times # {}
    <3>1. LastOf(table, known) # None BY <2>5, <2>7, <2>9, AbsenceAssumption
    <3> QED BY <2>4, <2>6, <2>7, <2>9, <3>1 DEF Larger, at
  <2> QED BY <2>8, <2>9
<1>5. /\ WeightOf(table, more, TRUE) =
             WeightOf(table, known, TRUE) + (IF out.success THEN out.weight ELSE 0)
      /\ WeightOf(table, more, FALSE) =
             WeightOf(table, known, FALSE) + (IF out.success THEN 0 ELSE out.weight)
  <2>1. out.success \in BOOLEAN BY <1>1
  <2>2. (out.success = TRUE <=> out.success) /\ (out.success = FALSE <=> ~out.success)
    BY <2>1
  <2> HIDE DEF more, out
  <2> QED BY <1>3, <2>1, <2>2
<1> HIDE DEF more, out
<1>6. EstimateOf(table, more) =
          Updated(EstimateOf(table, known), out.success, out.weight, out.occurred_at)
  BY <1>4, <1>5 DEF EstimateOf, Updated
<1> QED BY <1>6 DEF more, out

\* What an instant knew stays as long as the outcomes recorded by then and their
\* traces stay, whatever is recorded later.
LEMMA KnownFrame ==
    ASSUME NEW s \in Scopes, NEW rev, NEW context, NEW known_at,
           \A k \in OutcomeKeys : outcomes[s][k] # None =>
               /\ outcomes'[s][k] = outcomes[s][k]
               /\ InScope(outcomes[s][k].trace, s)
               /\ traces'[outcomes[s][k].trace] = traces[outcomes[s][k].trace],
           \A k \in OutcomeKeys : outcomes[s][k] = None /\ outcomes'[s][k] # None =>
               ~(outcomes'[s][k].recorded_at <= known_at)
    PROVE  UtilityAsOf(s, rev, context, known_at)' = UtilityAsOf(s, rev, context, known_at)
<1> DEFINE known == KnownOutcomes(s, rev, context, known_at)
<1>1. KnownOutcomes(s, rev, context, known_at)' = known
  BY DEF KnownOutcomes, InScope
<1>2. \A k \in known : outcomes'[s][k] = outcomes[s][k] BY DEF KnownOutcomes
<1>3. EstimateOf(outcomes'[s], known) = EstimateOf(outcomes[s], known)
  <2> HIDE DEF known
  <2> QED BY <1>2, EstimateSame
<1>4. UtilityAsOf(s, rev, context, known_at)' =
          EstimateOf(outcomes'[s], KnownOutcomes(s, rev, context, known_at)')
  BY DEF UtilityAsOf, EstimateOf, WeightOf, WeightsOf, Agreeing, LastOf, KnownOutcomes
<1>5. UtilityAsOf(s, rev, context, known_at) = EstimateOf(outcomes[s], known)
  BY UtilityIsEstimate
<1> QED BY <1>1, <1>3, <1>4, <1>5
\* What an outcome leads to is well formed and of its scope.
LEMMA OutcomeLeadsTo ==
    ASSUME ExperienceInv, NEW s \in Scopes, NEW k \in OutcomeKeys, outcomes[s][k] # None
    PROVE  /\ outcomes[s][k] \in Outcome
           /\ outcomes[s][k].trace \in TraceIds
           /\ InScope(outcomes[s][k].trace, s)
           /\ traces[outcomes[s][k].trace].context \in Contexts
           /\ outcomes[s][k].recorded_at <= MaxClock
<1>1. ExperienceTypeOK /\ OutcomesAreAttributed BY DEF ExperienceInv
<1>2. outcomes[s][k] \in Outcome BY <1>1 DEF ExperienceTypeOK
<1>3. outcomes[s][k].trace \in TraceIds /\ outcomes[s][k].recorded_at \in Time
  BY <1>2 DEF Outcome
<1>4. InScope(outcomes[s][k].trace, s) BY <1>1 DEF OutcomesAreAttributed
<1>5. traces[outcomes[s][k].trace].context \in Contexts
  BY <1>1, <1>3, <1>4 DEF ExperienceTypeOK, InScope
<1> QED BY <1>2, <1>3, <1>4, <1>5, ClockAssumption DEF Time

\* The two halves of UtilityIsSumOfOutcomes, per scope.
Recorded(s) == {k \in OutcomeKeys : outcomes[s][k] # None}

LearntEntry(s, k) == <<outcomes[s][k].revision, traces[outcomes[s][k].trace].context>>

UtilityAddsUp(s) ==
    /\ DOMAIN utilities[s] = {LearntEntry(s, k) : k \in Recorded(s)}
    /\ \A e \in DOMAIN utilities[s] : utilities[s][e] = UtilityAsOf(s, e[1], e[2], MaxClock)

LEMMA UtilityPerScope ==
    UtilityIsSumOfOutcomes <=> \A s \in Scopes : UtilityAddsUp(s)
  BY DEF UtilityIsSumOfOutcomes, UtilityAddsUp, Recorded, LearntEntry

LEMMA UtilityFrame ==
    ASSUME ExperienceInv, NEW s \in Scopes, UtilityAddsUp(s),
           outcomes'[s] = outcomes[s], utilities'[s] = utilities[s],
           \A t \in TraceIds : InScope(t, s) => traces'[t] = traces[t]
    PROVE  UtilityAddsUp(s)'
<1>1. \A k \in OutcomeKeys : outcomes[s][k] # None =>
          /\ outcomes'[s][k] = outcomes[s][k]
          /\ InScope(outcomes[s][k].trace, s)
          /\ traces'[outcomes[s][k].trace] = traces[outcomes[s][k].trace]
  BY OutcomeLeadsTo
<1>2. {LearntEntry(s, k) : k \in Recorded(s)}' = {LearntEntry(s, k) : k \in Recorded(s)}
  BY <1>1 DEF LearntEntry, Recorded
<1>3. \A rev, context :
          UtilityAsOf(s, rev, context, MaxClock)' = UtilityAsOf(s, rev, context, MaxClock)
  BY <1>1, KnownFrame
<1> QED BY <1>2, <1>3 DEF UtilityAddsUp

\* The running estimate before an outcome is what the outcomes so far amount to.
LEMMA RunningEstimate ==
    ASSUME ExperienceInv, NEW s \in Scopes, UtilityAddsUp(s), NEW rev, NEW context
    PROVE  UtilityFor(s, rev, context) = UtilityAsOf(s, rev, context, MaxClock)
<1>1. CASE <<rev, context>> \in DOMAIN utilities[s]
  BY <1>1 DEF UtilityAddsUp, UtilityFor
<1>2. CASE <<rev, context>> \notin DOMAIN utilities[s]
  <2>1. KnownOutcomes(s, rev, context, MaxClock) = {}
    <3>1. \A k \in KnownOutcomes(s, rev, context, MaxClock) :
              k \in Recorded(s) /\ LearntEntry(s, k) = <<rev, context>>
      BY DEF KnownOutcomes, Recorded, LearntEntry
    <3> QED BY <1>2, <3>1 DEF UtilityAddsUp
  <2> QED BY <1>2, <2>1, UtilityIsEstimate, EstimateOfNothing DEF UtilityFor
<1> QED BY <1>1, <1>2

\* One outcome more: its entry is updated, the others stay.
LEMMA OutcomeAddsUp ==
    ASSUME ExperienceInv, OutcomesAreFinite, NEW s \in Scopes, UtilityAddsUp(s),
           NEW c \in OutcomeKeys, NEW t \in TraceIds, NEW rev,
           NEW usage \in UsageKeys \cup {None}, NEW success \in BOOLEAN,
           NEW weight \in Weights, NEW at \in Time,
           RecordOutcome(s, c, t, rev, usage, success, weight, at)
    PROVE  UtilityAddsUp(s)'
<1> DEFINE out == [trace |-> t, usage |-> usage, revision |-> rev, success |-> success,
                   weight |-> weight, occurred_at |-> at, recorded_at |-> clock]
           context == traces[t].context
           key == <<rev, context>>
           estimate == Updated(UtilityFor(s, rev, context), success, weight, at)
<1>1. /\ ExperienceTypeOK /\ clock \in Time /\ ExperienceParts'
  BY RecordOutcomeStep DEF ExperienceInv, Inv, LedgerTypeOK
<1>2. /\ traces' = traces /\ outcomes[s][c] = None /\ InScope(t, s)
      /\ outcomes' = [outcomes EXCEPT ![s][c] = out]
  BY DEF RecordOutcome
<1>3. utilities' = [utilities EXCEPT ![s] =
          [entry \in DOMAIN utilities[s] \cup {key} |->
              IF entry = key THEN estimate ELSE utilities[s][entry]]]
  BY DEF RecordOutcome
<1>4. outcomes'[s][c] = out /\ \A k \in OutcomeKeys : k # c => outcomes'[s][k] = outcomes[s][k]
  BY <1>1, <1>2 DEF ExperienceTypeOK
<1>5. out \in Outcome /\ out # None
  <2>1. outcomes'[s][c] \in Outcome \cup {None} BY <1>1 DEF ExperienceParts, ExperienceTypeOK
  <2>2. out \in Outcome \/ out = None BY <1>4, <2>1
  <2>3. rev \in RevisionIds
    <3>1. outcomes[s][c] = None BY <1>2
    <3>2. rev \in traces[t].items
      BY <1>2 DEF RecordOutcome, Attributable, ExperienceInv, OutcomesAreAttributed
    <3> QED BY <1>1, <1>2, <3>2 DEF ExperienceTypeOK, InScope
  <2>4. out \in Outcome BY <1>1, <2>3 DEF Outcome
  <2> QED BY <2>4, AbsenceAssumption
<1>6. /\ out.trace = t /\ out.revision = rev /\ out.recorded_at <= MaxClock
      /\ out.success = success /\ out.weight = weight /\ out.occurred_at = at
  BY <1>1, ClockAssumption DEF Time
<1> HIDE DEF out, estimate
<1>7. /\ DOMAIN utilities'[s] = DOMAIN utilities[s] \cup {key}
      /\ \A e \in DOMAIN utilities'[s] :
             utilities'[s][e] = IF e = key THEN estimate ELSE utilities[s][e]
  <2> HIDE DEF key
  <2> QED BY <1>1, <1>3 DEF ExperienceTypeOK
<1>8. {LearntEntry(s, k) : k \in Recorded(s)}' =
          {LearntEntry(s, k) : k \in Recorded(s)} \cup {key}
  <2>1. Recorded(s)' = Recorded(s) \cup {c} BY <1>2, <1>4, <1>5 DEF Recorded
  <2>2. LearntEntry(s, c)' = key BY <1>2, <1>4, <1>6 DEF LearntEntry
  <2>3. \A k \in Recorded(s) : LearntEntry(s, k)' = LearntEntry(s, k)
    BY <1>2, <1>4 DEF LearntEntry, Recorded
  <2> QED BY <2>1, <2>2, <2>3
<1>9. ASSUME NEW e \in DOMAIN utilities'[s]
      PROVE  utilities'[s][e] = UtilityAsOf(s, e[1], e[2], MaxClock)'
  <2> DEFINE known == KnownOutcomes(s, e[1], e[2], MaxClock)
             later == KnownOutcomes(s, e[1], e[2], MaxClock)'
  <2>1. UtilityAsOf(s, e[1], e[2], MaxClock)' = EstimateOf(outcomes'[s], later)
    BY DEF UtilityAsOf, EstimateOf, WeightOf, WeightsOf, Agreeing, LastOf, KnownOutcomes
  <2>2. UtilityAsOf(s, e[1], e[2], MaxClock) = EstimateOf(outcomes[s], known)
    BY UtilityIsEstimate
  <2>3. c \notin known /\ known \subseteq Recorded(s) BY <1>2 DEF KnownOutcomes, Recorded
  <2>4. EstimateOf(outcomes'[s], known) = EstimateOf(outcomes[s], known)
    <3>1. \A k \in known : outcomes'[s][k] = outcomes[s][k]
      BY <1>4, <2>3 DEF Recorded
    <3> HIDE DEF known
    <3> QED BY <3>1, EstimateSame
  <2>5. later = IF rev = e[1] /\ context = e[2] THEN known \cup {c} ELSE known
    <3>1. \A k \in OutcomeKeys : k # c => (k \in later <=> k \in known)
      BY <1>2, <1>4 DEF KnownOutcomes, InScope
    <3>2. c \in later <=> rev = e[1] /\ context = e[2]
      BY <1>2, <1>4, <1>5, <1>6 DEF KnownOutcomes, InScope
    <3>3. later \subseteq OutcomeKeys /\ known \subseteq OutcomeKeys BY DEF KnownOutcomes
    <3> HIDE DEF later, known, context
    <3> QED BY <2>3, <3>1, <3>2, <3>3
  <2>6. CASE e = key
    <3>1. e[1] = rev /\ e[2] = context BY <2>6
    <3>2. later = known \cup {c} BY <2>5, <3>1
    <3>3. IsFiniteSet(known) BY <2>3, FS_Subset DEF OutcomesAreFinite, Recorded
    <3>4. \A k \in known \cup {c} : outcomes'[s][k] \in Outcome
      BY <1>4, <1>5, <2>3, OutcomeLeadsTo DEF Recorded
    <3>5. EstimateOf(outcomes'[s], known \cup {c}) =
              Updated(EstimateOf(outcomes'[s], known), success, weight, at)
      <4> HIDE DEF known
      <4> QED BY <1>4, <1>6, <2>3, <3>3, <3>4, EstimateAdds
    <3>6. UtilityFor(s, rev, context) = EstimateOf(outcomes[s], known)
      BY <2>2, <3>1, RunningEstimate
    <3>7. estimate = Updated(EstimateOf(outcomes[s], known), success, weight, at)
      BY <3>6 DEF estimate
    <3>8. utilities'[s][e] = estimate
      <4> HIDE DEF key
      <4> QED BY <1>7, <1>9, <2>6
    <3> HIDE DEF known, later, key
    <3> QED BY <2>1, <2>4, <3>2, <3>5, <3>7, <3>8
  <2>7. CASE e # key
    <3>1. e \in DOMAIN utilities[s] /\ utilities'[s][e] = utilities[s][e]
      <4> HIDE DEF key
      <4> QED BY <1>7, <1>9, <2>7
    <3>2. e \in RevisionIds \X Contexts BY <1>1, <3>1 DEF ExperienceTypeOK
    <3>3. ~(rev = e[1] /\ context = e[2]) BY <2>7, <3>2
    <3>4. utilities[s][e] = UtilityAsOf(s, e[1], e[2], MaxClock) BY <3>1 DEF UtilityAddsUp
    <3> HIDE DEF known, later, key, context
    <3> QED BY <2>1, <2>2, <2>4, <2>5, <3>1, <3>3, <3>4
  <2> QED BY <2>6, <2>7
<1> HIDE DEF key
<1> QED BY <1>7, <1>8, <1>9 DEF UtilityAddsUp

\* Every step keeps the outcomes finitely many and the estimates what they add up to.
LEMMA UtilityStep ==
    ASSUME ExperienceInv, OutcomesAreFinite, UtilityIsSumOfOutcomes, [Next]_vars
    PROVE  OutcomesAreFinite' /\ UtilityIsSumOfOutcomes'
<1>1. ExperienceTypeOK BY DEF ExperienceInv
<1>2. \A s \in Scopes : UtilityAddsUp(s) BY UtilityPerScope
<1> SUFFICES ASSUME NEW s \in Scopes
             PROVE  IsFiniteSet(Recorded(s)') /\ UtilityAddsUp(s)'
  BY DEF OutcomesAreFinite, Recorded, UtilityIsSumOfOutcomes, UtilityAddsUp, LearntEntry
<1>3. IsFiniteSet(Recorded(s)) BY DEF OutcomesAreFinite, Recorded
<1>4. ASSUME outcomes'[s] = outcomes[s], utilities'[s] = utilities[s],
             \A t \in TraceIds : InScope(t, s) => traces'[t] = traces[t]
      PROVE  IsFiniteSet(Recorded(s)') /\ UtilityAddsUp(s)'
  <2>1. Recorded(s)' = Recorded(s) BY <1>4 DEF Recorded
  <2> QED BY <1>2, <1>3, <1>4, <2>1, UtilityFrame
<1>5. CASE UNCHANGED experienceVars BY <1>4, <1>5 DEF experienceVars
<1>6. ASSUME NEW o \in Scopes, NEW t \in TraceIds, NEW context, NEW valid_at, NEW known_at,
             Recall(t, o, context, valid_at, known_at)
      PROVE  IsFiniteSet(Recorded(s)') /\ UtilityAddsUp(s)'
  <2>1. /\ outcomes' = outcomes /\ utilities' = utilities
        /\ \A r \in TraceIds : InScope(r, s) => traces'[r] = traces[r]
    BY <1>1, <1>6 DEF Recall, InScope, ExperienceTypeOK
  <2> QED BY <1>4, <2>1
<1>7. ASSUME NEW o, NEW k, NEW t, NEW cited, RecordUsage(o, k, t, cited)
      PROVE  IsFiniteSet(Recorded(s)') /\ UtilityAddsUp(s)'
  <2>1. outcomes' = outcomes /\ utilities' = utilities /\ traces' = traces
    BY <1>7 DEF RecordUsage
  <2> QED BY <1>4, <2>1
<1>8. ASSUME NEW o \in Scopes, NEW c \in OutcomeKeys, NEW t \in TraceIds, NEW rev,
             NEW usage \in UsageKeys \cup {None}, NEW success \in BOOLEAN,
             NEW weight \in Weights, NEW at \in Time,
             RecordOutcome(o, c, t, rev, usage, success, weight, at)
      PROVE  IsFiniteSet(Recorded(s)') /\ UtilityAddsUp(s)'
  <2>1. CASE o = s
    <3>1. Recorded(s)' \subseteq Recorded(s) \cup {c}
      <4>1. \A k \in OutcomeKeys : k # c => outcomes'[s][k] = outcomes[s][k]
        BY <1>1, <1>8, <2>1 DEF RecordOutcome, ExperienceTypeOK
      <4> QED BY <4>1 DEF Recorded
    <3>2. IsFiniteSet(Recorded(s)') BY <1>3, <3>1, FS_AddElement, FS_Subset
    <3> QED BY <1>2, <1>8, <2>1, <3>2, OutcomeAddsUp
  <2>2. CASE o # s
    <3>1. outcomes'[s] = outcomes[s] /\ utilities'[s] = utilities[s] /\ traces' = traces
      BY <1>1, <1>8, <2>2 DEF RecordOutcome, ExperienceTypeOK
    <3> QED BY <1>4, <3>1
  <2> QED BY <2>1, <2>2
<1>9. ASSUME NEW o \in Scopes, EraseMemory(o)
      PROVE  IsFiniteSet(Recorded(s)') /\ UtilityAddsUp(s)'
  <2>1. /\ traces' = [t \in TraceIds |-> IF InScope(t, o) THEN None ELSE traces[t]]
        /\ outcomes' = [outcomes EXCEPT ![o] = [k \in OutcomeKeys |-> None]]
        /\ utilities' = [utilities EXCEPT ![o] = <<>>]
    BY <1>9 DEF EraseMemory, EraseExperience
  <2>2. CASE o = s
    <3>1. Recorded(s)' = {} /\ DOMAIN utilities'[s] = {}
      BY <1>1, <2>1, <2>2 DEF Recorded, ExperienceTypeOK
    <3> QED BY <3>1, FS_EmptySet DEF UtilityAddsUp
  <2>3. CASE o # s
    <3>1. /\ outcomes'[s] = outcomes[s] /\ utilities'[s] = utilities[s]
          /\ \A t \in TraceIds : InScope(t, s) => traces'[t] = traces[t]
      BY <1>1, <2>1, <2>3 DEF InScope, ExperienceTypeOK
    <3> QED BY <1>4, <3>1
  <2> QED BY <2>2, <2>3
<1>10. CASE UNCHANGED vars BY <1>5, <1>10 DEF vars, experienceVars
<1> QED BY <1>5, <1>6, <1>7, <1>8, <1>9, <1>10 DEF Next

\* The running estimates are what the stored outcomes add up to, for any number of
\* outcomes, whatever is reported, in whatever order, and erased.
THEOREM UtilityCorrect == Spec => []UtilityIsSumOfOutcomes
<1> DEFINE UtilityInv == OutcomesAreFinite /\ UtilityIsSumOfOutcomes
<1>1. Init => UtilityInv
  <2> SUFFICES ASSUME Init PROVE UtilityInv OBVIOUS
  <2>1. \A s \in Scopes : Recorded(s) = {} /\ DOMAIN utilities[s] = {}
    BY DEF Init, Recorded
  <2>2. \A s \in Scopes : UtilityAddsUp(s) BY <2>1 DEF UtilityAddsUp
  <2>3. OutcomesAreFinite BY <2>1, FS_EmptySet DEF OutcomesAreFinite, Recorded
  <2> QED BY <2>2, <2>3, UtilityPerScope
<1>2. ExperienceInv /\ UtilityInv /\ [Next]_vars => UtilityInv' BY UtilityStep
<1>3. UtilityInv => UtilityIsSumOfOutcomes OBVIOUS
<1> HIDE DEF UtilityInv
<1> QED BY ExperienceInvariance, <1>1, <1>2, <1>3, PTL DEF Spec
-----------------------------------------------------------------------------
(* A recall of the past stays reproducible.                                *)

\* RecallIsReproducible for one trace.
Reproducible(t) ==
    (traces[t] # None /\ traces[t].known_at < traces[t].created_at) =>
        LET trace == traces[t]
        IN  /\ trace.items \subseteq Visible(trace.scope, trace.valid_at, trace.known_at)
            /\ \A rev \in trace.items : trace.utility[rev] =
                   UtilityAsOf(trace.scope, rev, trace.context, trace.known_at)

LEMMA ReproduciblePerTrace ==
    RecallIsReproducible <=> \A t \in TraceIds : Reproducible(t)
  BY DEF RecallIsReproducible, Reproducible

\* A trace stays reproducible as long as the reads of its instant keep their
\* answers and only later outcomes are recorded.
LEMMA ReproducibleFrame ==
    ASSUME ExperienceInv, NEW t \in TraceIds, Reproducible(t),
           traces[t] # None, traces'[t] = traces[t],
           NEW s, s = traces[t].scope,
           \A r \in TraceIds : InScope(r, s) => traces'[r] = traces[r],
           \A i \in Idents, v, known \in Time :
               known < clock => AsOf(s, i, v, known)' = AsOf(s, i, v, known),
           \A k \in OutcomeKeys : outcomes[s][k] # None => outcomes'[s][k] = outcomes[s][k],
           \A k \in OutcomeKeys : outcomes[s][k] = None /\ outcomes'[s][k] # None =>
               outcomes'[s][k].recorded_at = clock
    PROVE  Reproducible(t)'
<1> SUFFICES ASSUME traces[t].known_at < traces[t].created_at PROVE Reproducible(t)'
  BY DEF Reproducible
<1>0. PICK v, known, context : /\ v = traces[t].valid_at /\ known = traces[t].known_at
                               /\ context = traces[t].context
  OBVIOUS
<1>1. /\ s \in Scopes /\ v \in Time /\ known \in Time /\ clock \in Time
      /\ traces[t].created_at \in Time /\ traces[t].created_at <= clock
  BY <1>0 DEF ExperienceInv, ExperienceTypeOK, TracesShowRecorded, Inv, LedgerTypeOK
<1>2. known < clock BY <1>0, <1>1 DEF Time
<1>3. Visible(s, v, known)' = Visible(s, v, known)
  <2>1. \A i \in Idents : AsOf(s, i, v, known)' = AsOf(s, i, v, known) BY <1>1, <1>2
  <2> QED BY <2>1 DEF Visible
<1>4. ASSUME NEW rev
      PROVE  UtilityAsOf(s, rev, context, known)' = UtilityAsOf(s, rev, context, known)
  <2>1. \A k \in OutcomeKeys : outcomes[s][k] # None =>
            /\ outcomes'[s][k] = outcomes[s][k]
            /\ InScope(outcomes[s][k].trace, s)
            /\ traces'[outcomes[s][k].trace] = traces[outcomes[s][k].trace]
    BY <1>1, OutcomeLeadsTo
  <2>2. \A k \in OutcomeKeys : outcomes[s][k] = None /\ outcomes'[s][k] # None =>
            ~(outcomes'[s][k].recorded_at <= known)
    <3>1. ~(clock <= known) BY <1>1, <1>2 DEF Time
    <3> QED BY <3>1
  <2> QED BY <1>1, <2>1, <2>2, KnownFrame
<1>5. /\ traces[t].items \subseteq Visible(s, v, known)
      /\ \A rev \in traces[t].items :
             traces[t].utility[rev] = UtilityAsOf(s, rev, context, known)
  BY <1>0 DEF Reproducible
<1>6. /\ traces'[t].items \subseteq Visible(s, v, known)'
      /\ \A rev \in traces'[t].items :
             traces'[t].utility[rev] = UtilityAsOf(s, rev, context, known)'
  BY <1>3, <1>4, <1>5
<1>7. /\ traces'[t].scope = s /\ traces'[t].valid_at = v /\ traces'[t].known_at = known
      /\ traces'[t].context = context
  BY <1>0
<1> QED BY <1>6, <1>7 DEF Reproducible

\* What a recall saves is what its coordinates yield.
LEMMA RecallReproducible ==
    ASSUME ExperienceInv, NEW t \in TraceIds, NEW s \in Scopes, NEW context \in Contexts,
           NEW valid_at \in Time, NEW known_at \in Time,
           Recall(t, s, context, valid_at, known_at)
    PROVE  Reproducible(t)'
<1>1. PICK items \in SUBSET Visible(s, valid_at, known_at) :
          traces' = [traces EXCEPT ![t] =
              [scope |-> s, context |-> context, valid_at |-> valid_at,
               known_at |-> known_at, created_at |-> clock, items |-> items,
               utility |-> [rev \in items |-> UtilityAsOf(s, rev, context, known_at)]]]
  BY DEF Recall
<1>2. /\ DOMAIN traces = TraceIds /\ traces[t] = None
      /\ history' = history /\ outcomes' = outcomes
  BY DEF ExperienceInv, ExperienceTypeOK, Recall, ledgerVars
<1>3. /\ traces'[t].scope = s /\ traces'[t].context = context
      /\ traces'[t].valid_at = valid_at /\ traces'[t].known_at = known_at
      /\ traces'[t].items = items
      /\ \A rev \in items : traces'[t].utility[rev] = UtilityAsOf(s, rev, context, known_at)
  BY <1>1, <1>2
<1>4. Visible(s, valid_at, known_at)' = Visible(s, valid_at, known_at)
  BY <1>2 DEF Visible, AsOf
<1>5. ASSUME NEW rev
      PROVE  UtilityAsOf(s, rev, context, known_at)' = UtilityAsOf(s, rev, context, known_at)
  <2>1. \A r \in TraceIds : InScope(r, s) => traces'[r] = traces[r]
    BY <1>1, <1>2 DEF InScope
  <2>2. \A k \in OutcomeKeys : outcomes[s][k] # None =>
            /\ outcomes'[s][k] = outcomes[s][k]
            /\ InScope(outcomes[s][k].trace, s)
            /\ traces'[outcomes[s][k].trace] = traces[outcomes[s][k].trace]
    BY <1>2, <2>1, OutcomeLeadsTo
  <2>3. \A k \in OutcomeKeys : outcomes[s][k] = None => outcomes'[s][k] = None BY <1>2
  <2> QED BY <2>2, <2>3, KnownFrame
<1> QED BY <1>3, <1>4, <1>5 DEF Reproducible

LEMMA ReproducibleStep ==
    ASSUME ExperienceInv, RecallIsReproducible, [Next]_vars
    PROVE  RecallIsReproducible'
<1>1. Inv /\ ExperienceTypeOK /\ LedgerTypeOK BY DEF ExperienceInv, Inv
<1> SUFFICES ASSUME NEW t \in TraceIds, traces'[t] # None PROVE Reproducible(t)'
  BY ReproduciblePerTrace DEF RecallIsReproducible, Reproducible
<1>2. Reproducible(t) BY ReproduciblePerTrace
<1>0. PICK s : s = traces[t].scope OBVIOUS
<1>3. traces[t] # None => s \in Scopes BY <1>0, <1>1 DEF ExperienceTypeOK
<1>4. ASSUME traces' = traces, outcomes' = outcomes,
             \A i \in Idents, v, known \in Time :
                 known < clock => AsOf(s, i, v, known)' = AsOf(s, i, v, known)
      PROVE  Reproducible(t)'
  <2>1. traces[t] # None /\ traces'[t] = traces[t] BY <1>4
  <2> QED BY <1>0, <1>2, <1>4, <2>1, ReproducibleFrame
<1>5. ASSUME history' = history
      PROVE  \A i \in Idents, v, known \in Time : AsOf(s, i, v, known)' = AsOf(s, i, v, known)
  BY <1>5 DEF AsOf
<1>6. CASE UNCHANGED vars
  BY <1>4, <1>5, <1>6 DEF vars, ledgerVars, experienceVars
<1>7. CASE Ingest /\ UNCHANGED experienceVars
  <2>1. traces' = traces /\ outcomes' = outcomes /\ traces[t] # None
    BY <1>7 DEF experienceVars
  <2>2. \A i \in Idents, v, known \in Time :
            known < clock => AsOf(s, i, v, known)' = AsOf(s, i, v, known)
    <3>1. s \in Scopes BY <1>3, <2>1
    <3> QED BY <1>1, <1>7, <3>1, IngestKeepsPast
  <2> QED BY <1>4, <2>1, <2>2
<1>8. CASE Tick /\ UNCHANGED experienceVars
  BY <1>4, <1>5, <1>8 DEF Tick, experienceVars
<1>9. ASSUME NEW o \in Scopes, NEW r \in TraceIds, NEW context \in Contexts,
             NEW valid_at \in Time, NEW known_at \in Time,
             Recall(r, o, context, valid_at, known_at)
      PROVE  Reproducible(t)'
  <2>1. CASE r = t BY <1>9, <2>1, RecallReproducible
  <2>2. CASE r # t
    <3>1. /\ \A q \in TraceIds : q # r => traces'[q] = traces[q]
          /\ traces[r] = None /\ outcomes' = outcomes /\ history' = history
      BY <1>1, <1>9 DEF Recall, ledgerVars, ExperienceTypeOK
    <3>2. traces[t] # None /\ traces'[t] = traces[t] BY <2>2, <3>1
    <3>3. \A q \in TraceIds : InScope(q, s) => traces'[q] = traces[q]
      BY <1>0, <3>1 DEF InScope
    <3>4. \A i \in Idents, v, known \in Time : AsOf(s, i, v, known)' = AsOf(s, i, v, known)
      BY <1>5, <3>1
    <3> QED BY <1>0, <1>2, <3>1, <3>2, <3>3, <3>4, ReproducibleFrame
  <2> QED BY <2>1, <2>2
<1>10. ASSUME NEW o, NEW k, NEW r, NEW cited, RecordUsage(o, k, r, cited)
       PROVE  Reproducible(t)'
  BY <1>4, <1>5, <1>10 DEF RecordUsage, ledgerVars
<1>11. ASSUME NEW o \in Scopes, NEW c \in OutcomeKeys, NEW r, NEW rev, NEW usage,
              NEW success, NEW weight, NEW at,
              RecordOutcome(o, c, r, rev, usage, success, weight, at)
       PROVE  Reproducible(t)'
  <2> DEFINE out == [trace |-> r, usage |-> usage, revision |-> rev, success |-> success,
                     weight |-> weight, occurred_at |-> at, recorded_at |-> clock]
  <2>1. /\ traces' = traces /\ history' = history /\ outcomes[o][c] = None
        /\ outcomes' = [outcomes EXCEPT ![o][c] = out]
    BY <1>11 DEF RecordOutcome, ledgerVars
  <2>2. out.recorded_at = clock OBVIOUS
  <2> HIDE DEF out
  <2>3. traces[t] # None /\ traces'[t] = traces[t] BY <2>1
  <2>4. \A q \in Scopes, k \in OutcomeKeys :
            \/ outcomes'[q][k] = outcomes[q][k]
            \/ outcomes[q][k] = None /\ outcomes'[q][k] = out
    BY <1>1, <2>1 DEF ExperienceTypeOK
  <2>5. s \in Scopes BY <1>3, <2>3
  <2>6. \A i \in Idents, v, known \in Time : AsOf(s, i, v, known)' = AsOf(s, i, v, known)
    BY <1>5, <2>1
  <2>7. /\ \A k \in OutcomeKeys : outcomes[s][k] # None => outcomes'[s][k] = outcomes[s][k]
        /\ \A k \in OutcomeKeys : outcomes[s][k] = None /\ outcomes'[s][k] # None =>
               outcomes'[s][k].recorded_at = clock
    BY <2>2, <2>4, <2>5
  <2> QED BY <1>0, <1>2, <2>1, <2>3, <2>6, <2>7, ReproducibleFrame
<1>12. ASSUME NEW o \in Scopes, EraseMemory(o) PROVE Reproducible(t)'
  <2>1. /\ traces' = [q \in TraceIds |-> IF InScope(q, o) THEN None ELSE traces[q]]
        /\ outcomes' = [outcomes EXCEPT ![o] = [k \in OutcomeKeys |-> None]]
        /\ EraseScope(o)
    BY <1>12 DEF EraseMemory, EraseExperience
  <2>2. traces[t] # None /\ traces'[t] = traces[t] /\ s # o BY <1>0, <2>1 DEF InScope
  <2>3. s \in Scopes BY <1>3, <2>2
  <2>4. history'[s] = history[s] BY <1>1, <2>1, <2>2, <2>3, EraseEffect
  <2>5. outcomes'[s] = outcomes[s] BY <1>1, <2>1, <2>2, <2>3 DEF ExperienceTypeOK
  <2>6. \A q \in TraceIds : InScope(q, s) => traces'[q] = traces[q]
    BY <1>0, <2>1, <2>2 DEF InScope
  <2>7. \A i \in Idents, v, known \in Time : AsOf(s, i, v, known)' = AsOf(s, i, v, known)
    BY <2>4 DEF AsOf
  <2> QED BY <1>0, <1>2, <2>2, <2>5, <2>6, <2>7, ReproducibleFrame
<1> QED BY <1>6, <1>7, <1>8, <1>9, <1>10, <1>11, <1>12 DEF Next

\* A trace that knew less than was recorded when it was taken can be recomputed
\* from its coordinates for ever, whatever is ingested or learnt meanwhile.
THEOREM RecallCorrect == Spec => []RecallIsReproducible
<1>1. Init => RecallIsReproducible BY DEF Init, RecallIsReproducible
<1>2. ExperienceInv /\ RecallIsReproducible /\ [Next]_vars => RecallIsReproducible'
  BY ReproducibleStep
<1> QED BY ExperienceInvariance, <1>1, <1>2, PTL DEF Spec
=============================================================================
