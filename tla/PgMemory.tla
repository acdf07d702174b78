------------------------------ MODULE PgMemory ------------------------------
(***************************************************************************)
(* MemoryApplication's preference operations over PostgresMemoryStore:     *)
(* concurrent requests, each one READ COMMITTED transaction.               *)
(*                                                                         *)
(* A request's statements are separate actions.  A read sees what other    *)
(* requests committed before it; a request's own rows appear to others at  *)
(* Commit.  Two locks make it wait: the unique index entry of an           *)
(* idempotency key it inserts, and the row of the memory record it creates *)
(* (unique identity) or selects FOR UPDATE.  Any exception rolls back.     *)
(*                                                                         *)
(* One scope: keys, identities and locks of different scopes never meet.   *)
(* Erasure takes the scope's exclusive governance lock, which every        *)
(* request holds in shared mode, so no request runs beside it; it is left  *)
(* out here.  A belief is reduced to its value and support count.          *)
(***************************************************************************)
EXTENDS Naturals, FiniteSets

CONSTANTS
    Requests,  \* requests, including retries of the same command
    Idents,    \* (key, context fingerprint) pairs
    Values,    \* preference values
    Keys,      \* idempotency keys
    MaxClock,  \* bound on the clock
    None

ASSUME ClockAssumption == MaxClock \in Nat
ASSUME NoneAssumption ==
    /\ None \notin Requests
    /\ None \notin [op : {"remember", "correct"}, ident : Idents, value : Values,
                   revision : Nat \ {0}]

VARIABLES
    clock,
    ingested,   \* ingested[k]: committed observation and accepted candidate
    revisions,  \* committed memory_revisions rows
    active,     \* active[i]: sequence of the committed active revision, 0 for no record
    keyLock,    \* keyLock[k]: request whose uncommitted observation holds k
    rowLock,    \* rowLock[i]: request holding the record row of i
    command,    \* command[r]: what request r asks for
    pc,         \* pc[r]: the next statement of r
    expected,   \* expected[r]: revision a correction was based on, 0 if not said
    now,        \* now[r]: clock reading of _accept_candidate
    current,    \* current[r]: active revision r read last, 0 for none
    answer      \* answer[r]: reply of r

store == <<ingested, revisions, active>>
locks == <<keyLock, rowLock>>
local == <<pc, expected, now, current, answer>>
vars == <<clock, store, locks, command, local>>

Time == 0..MaxClock

Command == [op : {"remember", "correct"}, key : Keys, ident : Idents, value : Values]

Ingestion == [op : {"remember", "correct"}, ident : Idents, value : Values,
              revision : Nat \ {0}]

Row == [ident : Idents, sequence : Nat \ {0}, supersedes : Nat, value : Values,
        support : Nat \ {0}, key : Keys, recorded_at : Time, expected : Nat]

Statements == {"begin", "snapshot", "lookup", "insert", "clock", "read", "write", "commit"}

Answer == [kind : {"none", "accepted", "replayed", "conflict", "not_found", "failed"},
           revision : Nat]

Reply(kind, revision) == [kind |-> kind, revision |-> revision]

RowsOf(i) == {row \in revisions : row.ident = i}

RowAt(i, n) == CHOOSE row \in revisions : row.ident = i /\ row.sequence = n

Init ==
    /\ clock = 0
    /\ ingested = [k \in Keys |-> None]
    /\ revisions = {}
    /\ active = [i \in Idents |-> 0]
    /\ keyLock = [k \in Keys |-> None]
    /\ rowLock = [i \in Idents |-> None]
    /\ command \in [Requests -> Command]
    /\ pc = [r \in Requests |-> "begin"]
    /\ expected = [r \in Requests |-> 0]
    /\ now = [r \in Requests |-> 0]
    /\ current = [r \in Requests |-> 0]
    /\ answer = [r \in Requests |-> Reply("none", 0)]
-----------------------------------------------------------------------------
Key(r) == command[r].key
Ident(r) == command[r].ident

\* No statement of a request touches the clock or a command.
Goto(r, statement) ==
    /\ pc' = [pc EXCEPT ![r] = statement]
    /\ UNCHANGED <<clock, command>>

\* Faulty variant: the record row stays locked.
FinishHoldingRow(r, reply) ==
    /\ pc' = [pc EXCEPT ![r] = "done"]
    /\ answer' = [answer EXCEPT ![r] = reply]
    /\ keyLock' = [k \in Keys |-> IF keyLock[k] = r THEN None ELSE keyLock[k]]
    /\ UNCHANGED <<clock, command, rowLock>>

\* The transaction ends, its locks are released and the caller gets an answer.
Finish(r, reply) ==
    /\ pc' = [pc EXCEPT ![r] = "done"]
    /\ answer' = [answer EXCEPT ![r] = reply]
    /\ keyLock' = [k \in Keys |-> IF keyLock[k] = r THEN None ELSE keyLock[k]]
    /\ rowLock' = [i \in Idents |-> IF rowLock[i] = r THEN None ELSE rowLock[i]]
    /\ UNCHANGED <<clock, command>>

Rollback(r, kind) ==
    Finish(r, Reply(kind, 0)) /\ UNCHANGED <<store, expected, now, current>>

\* A used key is answered with its original result, for the same request only.
Replay(r) ==
    LET ing == ingested[Key(r)]
        same == /\ ing.op = command[r].op
                /\ ing.ident = Ident(r)
                /\ ing.value = command[r].value
    IN  /\ Finish(r, IF same THEN Reply("replayed", ing.revision) ELSE Reply("conflict", 0))
        /\ UNCHANGED <<store, expected, now, current>>

\* A client that corrects may name a revision it has read.
Begin(r) ==
    /\ pc[r] = "begin"
    /\ Goto(r, IF command[r].op = "correct" THEN "snapshot" ELSE "lookup")
    /\ IF command[r].op = "correct"
       THEN \E seen \in 0..active[Ident(r)] : expected' = [expected EXCEPT ![r] = seen]
       ELSE UNCHANGED expected
    /\ UNCHANGED <<store, locks, now, current, answer>>

\* correct_preference reads the record it corrects.
ReadSnapshot(r) ==
    /\ pc[r] = "snapshot"
    /\ IF active[Ident(r)] = 0
       THEN Rollback(r, "not_found")
       ELSE /\ current' = [current EXCEPT ![r] = active[Ident(r)]]
            /\ Goto(r, "lookup")
            /\ UNCHANGED <<store, locks, expected, now, answer>>

\* observation_by_idempotency, then the optimistic condition of a correction.
Lookup(r) ==
    /\ pc[r] = "lookup"
    /\ \/ ingested[Key(r)] # None /\ Replay(r)
       \/ /\ ingested[Key(r)] = None
          /\ IF expected[r] # 0 /\ expected[r] # current[r]
             THEN Rollback(r, "conflict")
             ELSE Goto(r, "insert") /\ UNCHANGED <<store, locks, expected, now, current, answer>>

\* Faulty variant: a key committed since the lookup goes unnoticed.
SaveUnchecked(r) ==
    /\ pc[r] = "insert"
    /\ keyLock[Key(r)] = None
    /\ keyLock' = [keyLock EXCEPT ![Key(r)] = r]
    /\ Goto(r, "clock")
    /\ UNCHANGED <<store, rowLock, expected, now, current, answer>>

\* save_ingestion waits for an uncommitted insert of the same key; if that one
\* commits, the savepoint is undone and the committed result is replayed.
SaveIngestion(r) ==
    /\ pc[r] = "insert"
    /\ keyLock[Key(r)] = None
    /\ IF ingested[Key(r)] # None
       THEN Replay(r)
       ELSE /\ keyLock' = [keyLock EXCEPT ![Key(r)] = r]
            /\ Goto(r, "clock")
            /\ UNCHANGED <<store, rowLock, expected, now, current, answer>>

\* _accept_candidate reads the clock before it reads the active revision.
ReadClock(r) ==
    /\ pc[r] = "clock"
    /\ now' = [now EXCEPT ![r] = clock]
    /\ Goto(r, "read")
    /\ UNCHANGED <<store, locks, expected, current, answer>>

\* current_by_identity.
ReadCurrent(r) ==
    /\ pc[r] = "read"
    /\ current' = [current EXCEPT ![r] = active[Ident(r)]]
    /\ Goto(r, "write")
    /\ UNCHANGED <<store, locks, expected, now, answer>>

LockRow(r) ==
    /\ rowLock[Ident(r)] = None
    /\ rowLock' = [rowLock EXCEPT ![Ident(r)] = r]
    /\ Goto(r, "commit")
    /\ UNCHANGED <<store, keyLock, expected, now, current, answer>>

\* add_memory waits for an uncommitted record of the same identity and fails
\* once one is committed.
AddMemory(r) ==
    /\ pc[r] = "write" /\ current[r] = 0
    /\ IF active[Ident(r)] # 0 THEN Rollback(r, "conflict") ELSE LockRow(r)

\* Faulty variant: the active revision is not compared again.
AppendUnchecked(r) ==
    /\ pc[r] = "write" /\ current[r] # 0
    /\ LockRow(r)

\* append_revision waits for the row and fails unless the active revision is
\* still the one that was read.
AppendRevision(r) ==
    /\ pc[r] = "write" /\ current[r] # 0
    /\ rowLock[Ident(r)] = None
    /\ IF active[Ident(r)] # current[r] THEN Rollback(r, "conflict") ELSE LockRow(r)

NextSequence(r) == current[r] + 1

\* Faulty variant: a new value inherits the support of the old one.
InheritedSupport(r) ==
    IF current[r] # 0 THEN RowAt(Ident(r), current[r]).support + 1 ELSE 1

\* The same value adds to the evidence of the revision read, another starts anew.
Support(r) ==
    IF current[r] # 0 /\ RowAt(Ident(r), current[r]).value = command[r].value
    THEN RowAt(Ident(r), current[r]).support + 1
    ELSE 1

\* The revision built from what _accept_candidate read.
NewRow(r) ==
    [ident |-> Ident(r), sequence |-> NextSequence(r), supersedes |-> current[r],
     value |-> command[r].value, support |-> Support(r), key |-> Key(r),
     recorded_at |-> now[r], expected |-> expected[r]]

\* The answer may be lost on the way to the caller.
Commit(r) ==
    /\ pc[r] = "commit"
    /\ revisions' = revisions \cup {NewRow(r)}
    /\ active' = [active EXCEPT ![Ident(r)] = NextSequence(r)]
    /\ ingested' = [ingested EXCEPT ![Key(r)] =
           [op |-> command[r].op, ident |-> Ident(r), value |-> command[r].value,
            revision |-> NextSequence(r)]]
    /\ \/ Finish(r, Reply("accepted", NextSequence(r)))
       \/ Finish(r, Reply("failed", 0))
    /\ UNCHANGED <<expected, now, current>>

\* The connection or the process is lost before the commit; PostgreSQL rolls back.
Crash(r) == pc[r] \notin {"begin", "done"} /\ Rollback(r, "failed")

Statement(r) ==
    \/ ReadSnapshot(r) \/ Lookup(r) \/ SaveIngestion(r) \/ ReadClock(r)
    \/ ReadCurrent(r) \/ AddMemory(r) \/ AppendRevision(r) \/ Commit(r)

Tick ==
    /\ clock < MaxClock
    /\ clock' = clock + 1
    /\ UNCHANGED <<store, locks, command, local>>

Next ==
    \/ \E r \in Requests : Begin(r) \/ Statement(r) \/ Crash(r)
    \/ Tick

\* Every request that began runs in its own worker thread, and PostgreSQL wakes a waiter
\* when the lock it waits for is released.
Fairness == \A r \in Requests : WF_vars(Statement(r))

Spec == Init /\ [][Next]_vars
FairSpec == Spec /\ Fairness
-----------------------------------------------------------------------------
(* Reads by other clients.                                                 *)

\* memories_as_of on the transaction axis: the record must exist by then, and
\* the latest recording instant wins, then the higher sequence.
AsOf(i, known_at) ==
    LET known == {row \in RowsOf(i) : row.recorded_at <= known_at}
        created == active[i] # 0 /\ RowAt(i, 1).recorded_at <= known_at
    IN  IF ~created THEN 0
        ELSE (CHOOSE row \in known : \A other \in known :
                 \/ row.recorded_at > other.recorded_at
                 \/ /\ row.recorded_at = other.recorded_at
                    /\ row.sequence >= other.sequence).sequence
-----------------------------------------------------------------------------
(* Properties.                                                             *)

\* Type correctness of the tables, the locks and the request states.
TypeOK ==
    /\ clock \in Time
    /\ ingested \in [Keys -> Ingestion \cup {None}]
    /\ revisions \subseteq Row
    /\ active \in [Idents -> Nat]
    /\ keyLock \in [Keys -> Requests \cup {None}]
    /\ rowLock \in [Idents -> Requests \cup {None}]
    /\ command \in [Requests -> Command]
    /\ pc \in [Requests -> Statements \cup {"done"}]
    /\ expected \in [Requests -> Nat]
    /\ now \in [Requests -> Time]
    /\ current \in [Requests -> Nat]
    /\ answer \in [Requests -> Answer]

\* However requests interleave, the rows of an identity form one chain from 1 to
\* the active revision: no sequence is taken twice, and every revision
\* supersedes its predecessor (append_revision, uq_revision_sequence).
ChainIsLinear ==
    \A i \in Idents :
        /\ {row.sequence : row \in RowsOf(i)} = 1..active[i]
        /\ \A row1, row2 \in RowsOf(i) : row1.sequence = row2.sequence => row1 = row2
        /\ \A row \in RowsOf(i) : row.supersedes = row.sequence - 1

\* No evidence is lost to a race: the support a revision claims is that of the
\* very revision it supersedes plus its own, or its own alone when the value
\* changes, although the belief was computed before the row was locked.
SupportFollowsChain ==
    \A row \in revisions :
        row.support =
            IF row.sequence > 1 /\ RowAt(row.ident, row.sequence - 1).value = row.value
            THEN RowAt(row.ident, row.sequence - 1).support + 1
            ELSE 1

\* A command is applied at most once however it is retried: at most one request
\* with a given key is accepted, its revision is the only one with that key, and
\* every replay names that revision, for a request that asked for the same.
AppliedOnce ==
    /\ \A row1, row2 \in revisions : row1.key = row2.key => row1 = row2
    /\ \A r \in Requests : answer[r].kind \in {"accepted", "replayed"} =>
           LET row == RowAt(Ident(r), answer[r].revision)
           IN  /\ answer[r].revision \in 1..active[Ident(r)]
               /\ row.key = Key(r)
               /\ row.value = command[r].value
    /\ \A r, q \in Requests :
           answer[r].kind = "accepted" /\ answer[q].kind = "accepted" /\ r # q
               => Key(r) # Key(q)

\* Nobody waits for ever: requests neither deadlock on each other's keys and
\* rows nor starve, so each one is answered.
EveryRequestIsAnswered == 
    \A r \in Requests : pc[r] # "begin" ~> pc[r] = "done"

\* PostgresMemoryStore keeps the promise of RevisionChain.
Abstract == INSTANCE RevisionChain WITH
    Scopes <- {"scope"},
    chain <- [s \in {"scope"} |-> [i \in Idents |->
        [n \in 1..active[i] |-> [key |-> RowAt(i, n).key, value |-> RowAt(i, n).value]]]]

ImplementsRevisionChain == Abstract!Spec

\* list_preferences ("Return current preference heads"): an as-of read at the
\* present instant returns the active revision of every record.
PresentIsActive == \A i \in Idents : AsOf(i, clock) = active[i]

\* docs/api-guide.md: if the revision named by expected_revision_id was replaced
\* by another write, the correction is refused, so an accepted conditional
\* correction supersedes exactly the revision its author saw.
CorrectsWhatWasSeen ==
    \A row \in revisions : row.expected # 0 => row.supersedes = row.expected
=============================================================================
