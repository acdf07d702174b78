-------------------------- MODULE PreferenceLedger --------------------------
(***************************************************************************)
(* MemoryApplication's preference operations over InMemoryMemoryStore.     *)
(*                                                                         *)
(* Every operation runs inside store.transaction(): one re-entrant lock    *)
(* held from the first read to the last write, and a snapshot restored on  *)
(* any exception.  An operation is therefore one action; a request that is *)
(* refused or replayed changes nothing and is a stutter.                   *)
(*                                                                         *)
(* An observation, its evidence span and its candidate are saved together  *)
(* and are one to one, so one Ingestion record stands for the three and    *)
(* the idempotency key names the evidence.  The revisions of an identity   *)
(* are a sequence: the position is `sequence`, the predecessor is          *)
(* `supersedes_revision_id` and the last one is the active revision.       *)
(***************************************************************************)
EXTENDS Integers, Sequences, FiniteSets

CONSTANTS
    Scopes,       \* (tenant, subject) pairs
    Idents,       \* (key, context fingerprint) pairs
    Values,       \* preference values
    Sources,      \* who reported the evidence
    Keys,         \* idempotency keys
    Confidences,  \* confidences of remembered candidates, per mille
    MaxClock,     \* bound on the clock and on the times a caller may supply
    None          \* an idempotency key that was never used

Confidence == 0..1000

Time == 0..MaxClock

Ingestion == [kind : {"message", "user_feedback"}, ident : Idents,
              value : Values, source : Sources, confidence : Confidence,
              occurred_at : Time, revision : Nat \ {0}]

Belief == [confidence : Confidence, support_count : Nat \ {0},
           source_keys : SUBSET Sources, last_evidence_at : Time]

Revision == [value : Values, belief : Belief, evidence : Seq(Keys),
             valid_from : Time, recorded_at : Time]

ASSUME ClockAssumption == MaxClock \in Nat
ASSUME ConfidencesAssumption == Confidences \subseteq Confidence
ASSUME NoneAssumption == None \notin Ingestion

VARIABLES
    clock,     \* the service clock
    ingested,  \* ingested[s][k]: what idempotency key k was accepted for
    history    \* history[s][i]: revisions of identity i, oldest first

ledgerVars == <<clock, ingested, history>>

NoHistory == [i \in Idents |-> <<>>]

NoIngestion == [k \in Keys |-> None]

Latest(s, i) == history[s][i][Len(history[s][i])]

LedgerInit ==
    /\ clock = 0
    /\ ingested = [s \in Scopes |-> NoIngestion]
    /\ history = [s \in Scopes |-> NoHistory]
-----------------------------------------------------------------------------
(* Belief revision.                                                        *)

Larger(a, b) == IF a >= b THEN a ELSE b

\* Independent evidence, combined and kept below certainty.
CombinedConfidence(a, b) ==
    LET combined == 1000 - ((1000 - a) * (1000 - b)) \div 1000
    IN  IF combined <= 995 THEN combined ELSE 995

Fresh(confidence, source, at) ==
    [confidence |-> confidence, support_count |-> 1,
     source_keys |-> {source}, last_evidence_at |-> at]

\* Faulty variant: late evidence makes a belief look older.
ReinforcedAtArrival(belief, confidence, source, at) ==
    [confidence |-> CombinedConfidence(belief.confidence, confidence),
     support_count |-> belief.support_count + 1,
     source_keys |-> belief.source_keys \cup {source},
     last_evidence_at |-> at]

Reinforced(belief, confidence, source, at) ==
    [confidence |-> CombinedConfidence(belief.confidence, confidence),
     support_count |-> belief.support_count + 1,
     source_keys |-> belief.source_keys \cup {source},
     last_evidence_at |-> Larger(belief.last_evidence_at, at)]

\* The revision a candidate produces: the same value as the active revision
\* adds its evidence to the belief, another value starts a belief anew.
NextRevision(s, i, k, value, confidence, source, at) ==
    LET supports == history[s][i] # <<>> /\ Latest(s, i).value = value
    IN  [value |-> value,
         belief |-> IF supports
                    THEN Reinforced(Latest(s, i).belief, confidence, source, at)
                    ELSE Fresh(confidence, source, at),
         evidence |-> IF supports THEN Append(Latest(s, i).evidence, k) ELSE <<k>>,
         valid_from |-> at,
         recorded_at |-> clock]

\* Faulty variant: the key names the revision that was active before.
AcceptStale(s, k, kind, i, value, confidence, source, at) ==
    /\ history' = [history EXCEPT ![s][i] =
           Append(@, NextRevision(s, i, k, value, confidence, source, at))]
    /\ ingested' = [ingested EXCEPT ![s][k] =
           [kind |-> kind, ident |-> i, value |-> value, source |-> source,
            confidence |-> confidence, occurred_at |-> at,
            revision |-> Len(history[s][i])]]

AcceptCandidate(s, k, kind, i, value, confidence, source, at) ==
    /\ history' = [history EXCEPT ![s][i] =
           Append(@, NextRevision(s, i, k, value, confidence, source, at))]
    /\ ingested' = [ingested EXCEPT ![s][k] =
           [kind |-> kind, ident |-> i, value |-> value, source |-> source,
            confidence |-> confidence, occurred_at |-> at,
            revision |-> Len(history[s][i]) + 1]]
-----------------------------------------------------------------------------
(* Operations.                                                             *)

\* Faulty variant: a retry is ingested again.
RememberAgain(s, k, i, value, confidence, source, at) ==
    /\ AcceptCandidate(s, k, "message", i, value, confidence, source, at)
    /\ UNCHANGED clock

\* A key already used is answered from what it was accepted for.
RememberPreference(s, k, i, value, confidence, source, at) ==
    /\ ingested[s][k] = None
    /\ AcceptCandidate(s, k, "message", i, value, confidence, source, at)
    /\ UNCHANGED clock

\* A correction needs an existing record and is certain.
CorrectPreference(s, k, i, value, source, at) ==
    /\ history[s][i] # <<>>
    /\ ingested[s][k] = None
    /\ AcceptCandidate(s, k, "user_feedback", i, value, 1000, source, at)
    /\ UNCHANGED clock

EraseLedger(s) ==
    /\ ingested' = [ingested EXCEPT ![s] = NoIngestion]
    /\ history' = [history EXCEPT ![s] = NoHistory]

EraseScope(s) == EraseLedger(s) /\ UNCHANGED clock

\* Time passes; several operations may read the same instant.
Tick ==
    /\ clock < MaxClock
    /\ clock' = clock + 1
    /\ UNCHANGED <<ingested, history>>

Ingest ==
    \E s \in Scopes, k \in Keys, i \in Idents, value \in Values,
       source \in Sources, at \in Time :
        \/ \E confidence \in Confidences :
               RememberPreference(s, k, i, value, confidence, source, at)
        \/ CorrectPreference(s, k, i, value, source, at)

LedgerNext ==
    \/ Ingest
    \/ \E s \in Scopes : EraseScope(s)
    \/ Tick

LedgerSpec == LedgerInit /\ [][LedgerNext]_ledgerVars
-----------------------------------------------------------------------------
(* Bitemporal reads.                                                       *)

\* Faulty variant: the transaction axis is ignored.
ValidBy(revisions, valid_at, known_at) ==
    {n \in DOMAIN revisions : revisions[n].valid_from <= valid_at}

\* Revisions recorded by known_at and valid by valid_at.
Eligible(revisions, valid_at, known_at) ==
    {n \in DOMAIN revisions : /\ revisions[n].recorded_at <= known_at
                              /\ revisions[n].valid_from <= valid_at}

\* Faulty variant: no tie-break between revisions of one instant.
NoOlderByTime(revisions, m, n) == revisions[m].recorded_at >= revisions[n].recorded_at

\* Order of the transaction axis: recording instant, then sequence.
NoOlder(revisions, m, n) ==
    \/ revisions[m].recorded_at > revisions[n].recorded_at
    \/ revisions[m].recorded_at = revisions[n].recorded_at /\ m >= n

\* The eligible revisions no other eligible one is newer than: at most one.
Newest(revisions, eligible) ==
    {n \in eligible : \A m \in eligible : NoOlder(revisions, n, m)}

TheOne(S) == CHOOSE n \in S : TRUE

\* The revision of identity i in effect at (valid_at, known_at), 0 for none.
AsOf(s, i, valid_at, known_at) ==
    LET eligible == Eligible(history[s][i], valid_at, known_at)
    IN  IF eligible = {} THEN 0 ELSE TheOne(Newest(history[s][i], eligible))
-----------------------------------------------------------------------------
(* Properties.                                                             *)

\* Type correctness of the ledger: every table holds well-formed rows.
LedgerTypeOK ==
    /\ clock \in Time
    /\ ingested \in [Scopes -> [Keys -> Ingestion \cup {None}]]
    /\ history \in [Scopes -> [Idents -> Seq(Revision)]]

\* What pieces of evidence amount to when they are combined in the order given.
Amount(confidences) ==
    LET upTo[n \in DOMAIN confidences] ==
            IF n = 1 THEN confidences[1]
            ELSE CombinedConfidence(upTo[n - 1], confidences[n])
    IN  upTo[Len(confidences)]

\* The evidence a belief cites explains it: every cited ingestion was accepted
\* for the same identity and value, its own revision lies on the way to this one,
\* no evidence counts twice, and support count, sources, freshness and confidence
\* are exactly what that evidence amounts to, the confidence combined in the order
\* of arrival, so that a correction alone is certain and a correction repeated is
\* at the cap (_accept_candidate, BeliefState.reinforced).
BeliefExplained ==
    \A s \in Scopes, i \in Idents : \A n \in DOMAIN history[s][i] :
        LET rev == history[s][i][n]
            cited == {rev.evidence[e] : e \in DOMAIN rev.evidence}
        IN  /\ \A k \in cited :
                   /\ ingested[s][k] # None
                   /\ ingested[s][k].ident = i
                   /\ ingested[s][k].value = rev.value
                   /\ ingested[s][k].occurred_at <= rev.belief.last_evidence_at
            /\ \A e \in DOMAIN rev.evidence :
                   ingested[s][rev.evidence[e]].revision = n - Len(rev.evidence) + e
            /\ rev.belief.confidence =
                   Amount([e \in DOMAIN rev.evidence |->
                               ingested[s][rev.evidence[e]].confidence])
            /\ rev.belief.support_count = Cardinality(cited)
            /\ rev.belief.source_keys = {ingested[s][k].source : k \in cited}
            /\ \E k \in cited : ingested[s][k].occurred_at = rev.belief.last_evidence_at

\* The revision a used key was accepted as.
Accepted(s, k) == history[s][ingested[s][k].ident][ingested[s][k].revision]

\* A retried request can always be answered with its original result: the
\* revision an idempotency key was accepted as is still there, carries the
\* key's value and validity, and lists the key as its newest evidence, and no
\* revision exists without such a key (_existing_preference_result).
RetryResolvable ==
    \A s \in Scopes :
        /\ \A k \in Keys : ingested[s][k] # None =>
               /\ ingested[s][k].revision \in DOMAIN history[s][ingested[s][k].ident]
               /\ Accepted(s, k).value = ingested[s][k].value
               /\ Accepted(s, k).valid_from = ingested[s][k].occurred_at
               /\ Accepted(s, k).evidence[Len(Accepted(s, k).evidence)] = k
        /\ \A i \in Idents : \A n \in DOMAIN history[s][i] :
               \E k \in Keys : /\ ingested[s][k] # None
                               /\ ingested[s][k].ident = i
                               /\ ingested[s][k].revision = n

\* What a reader of the present sees is the active revision: once the last
\* revision is valid, an as-of read at the present instant returns it and not a
\* revision it superseded, even when both were recorded at the same instant
\* (list_preferences and recall read as-of, corrections read the active head).
PresentIsActive ==
    \A s \in Scopes, i \in Idents :
        history[s][i] # <<>> =>
            \A v \in Time : Latest(s, i).valid_from <= v =>
                AsOf(s, i, v, clock) = Len(history[s][i])

\* The recorded past is immutable: whatever is ingested later, with whatever
\* business time, an as-of read at an instant that has gone by keeps its answer
\* until the scope is erased (memories_as_of).
PastIsImmutable ==
    [][\A s \in Scopes, i \in Idents, v, known \in Time :
           known < clock /\ history'[s] # NoHistory
               => AsOf(s, i, v, known)' = AsOf(s, i, v, known)]_ledgerVars

\* The chain of each identity as RevisionChain sees it: the value and the newest
\* evidence of every revision.
ChainOf(revisions) ==
    [n \in DOMAIN revisions |->
        [key |-> revisions[n].evidence[Len(revisions[n].evidence)],
         value |-> revisions[n].value]]

Abstract == INSTANCE RevisionChain WITH
    chain <- [s \in Scopes |-> [i \in Idents |-> ChainOf(history[s][i])]]

\* The in-memory store keeps the promise of RevisionChain: one revision per
\* accepted key, appended to one chain, none lost or rewritten.
ImplementsRevisionChain == Abstract!Spec
=============================================================================
