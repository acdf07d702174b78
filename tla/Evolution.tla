------------------------------ MODULE Evolution ------------------------------
(***************************************************************************)
(* EvolutionApplication and the strategy registry of both stores: callers  *)
(* propose a bounded variation of the active strategy and advance the      *)
(* experiment stage by stage with signed gate receipts, until it is        *)
(* promoted, rejected or rolled back.                                      *)
(*                                                                         *)
(* The registry decides under one lock (a process lock, or the advisory    *)
(* transaction lock of PostgreSQL); everything the application reads       *)
(* before that may be stale.  Each read and the registry call are separate *)
(* actions.  A caller that finished may issue another request, a retry of  *)
(* an earlier one included.                                                *)
(*                                                                         *)
(* An experiment has the id of its candidate.  A receipt's signature and   *)
(* validity window are the outcome of Verify; weights are left out.        *)
(***************************************************************************)
EXTENDS Integers, Sequences, FiniteSets

CONSTANTS
    Root,        \* the bootstrap strategy
    Candidates,  \* ids for candidate strategies and their experiments
    Callers,     \* concurrent callers
    Keys,        \* idempotency keys
    Requests,    \* what a caller may ask for
    None

\* The legal stage edges; the stages without one are final.
Edges == {<<"proposed", "offline_passed">>, <<"proposed", "rejected">>,
          <<"offline_passed", "shadow">>, <<"offline_passed", "rejected">>,
          <<"shadow", "canary">>, <<"shadow", "rolled_back">>,
          <<"canary", "promoted">>, <<"canary", "rolled_back">>,
          <<"promoted", "rolled_back">>}

Stages == {"proposed", "offline_passed", "shadow", "canary", "promoted", "rejected",
           "rolled_back"}

Receipt == [experiment : Candidates, edge : Edges,
            decision : {"pass", "reject", "rollback"}, hard_gates_passed : BOOLEAN]

Proposal == [op : {"propose"}, key : Keys]
Advance == [op : {"advance"}, key : Keys, receipt : Receipt]

Experiment == [baseline : Candidates \cup {Root}, version : Nat \ {0}, stage : Stages]

Transition == [experiment : Candidates, from : Stages \cup {None}, to : Stages,
               request : Requests]

Activation == [strategy : Candidates \cup {Root}, previous : Candidates \cup {Root, None},
               kind : {"bootstrap", "promotion", "rollback"}]

ASSUME RootAssumption == Root \notin Candidates /\ None \notin Candidates /\ None # Root
ASSUME RequestsAssumption == Requests \subseteq Proposal \cup Advance
ASSUME NoneAssumption ==
    /\ None \notin Requests /\ None \notin Experiment /\ None \notin Activation
    /\ None \notin Transition /\ None \notin Stages

VARIABLES
    experiments,  \* experiments[x]: baseline, version and stage of candidate x
    transitions,  \* transition evidence by idempotency key
    activations,  \* strategy activations, oldest first
    pc,           \* pc[c]: next step of caller c
    request,      \* request[c]: what c asks for
    read,         \* read[c]: baseline or stage c has read
    fresh,        \* fresh[c]: id generated for a proposed candidate
    answer        \* answer[c]: last reply to c

registry == <<experiments, transitions, activations>>
local == <<pc, request, read, fresh, answer>>
vars == <<registry, local>>

Active == activations[Len(activations)].strategy

Version(x) == IF x = Root THEN 1 ELSE experiments[x].version

\* The service activates its default strategy when none is active yet.
Init ==
    /\ experiments = [x \in Candidates |-> None]
    /\ transitions = [k \in Keys |-> None]
    /\ activations = <<[strategy |-> Root, previous |-> None, kind |-> "bootstrap"]>>
    /\ pc = [c \in Callers |-> "idle"]
    /\ request = [c \in Callers |-> None]
    /\ read = [c \in Callers |-> None]
    /\ fresh = [c \in Callers |-> None]
    /\ answer = [c \in Callers |-> "none"]
-----------------------------------------------------------------------------
Key(c) == request[c].key

Goto(c, step) == pc' = [pc EXCEPT ![c] = step]

Finish(c, reply) ==
    /\ pc' = [pc EXCEPT ![c] = "idle"]
    /\ answer' = [answer EXCEPT ![c] = reply]
    /\ request' = [request EXCEPT ![c] = None]
    /\ read' = [read EXCEPT ![c] = None]
    /\ fresh' = [fresh EXCEPT ![c] = None]

\* A used key answers with the recorded transition if the request is the same.
Replay(c) ==
    Finish(c, IF transitions[Key(c)].request = request[c] THEN "replayed" ELSE "conflict")

\* A caller that is done may ask for anything, also for the same again.
Begin(c, req) ==
    /\ pc[c] = "idle"
    /\ request' = [request EXCEPT ![c] = req]
    /\ answer' = [answer EXCEPT ![c] = "none"]
    /\ Goto(c, "lookup")
    /\ UNCHANGED <<registry, read, fresh>>

\* experiment_transition_by_idempotency, the first read of both operations.
Lookup(c) ==
    /\ pc[c] = "lookup"
    /\ \/ transitions[Key(c)] # None /\ Replay(c)
       \/ /\ transitions[Key(c)] = None
          /\ Goto(c, "read")
          /\ UNCHANGED <<request, read, fresh, answer>>
    /\ UNCHANGED registry

\* propose derives a candidate with a new id from the strategy active now.
ReadBaseline(c) ==
    /\ pc[c] = "read" /\ request[c].op = "propose"
    /\ \E x \in Candidates :
           /\ experiments[x] = None /\ \A d \in Callers : fresh[d] # x
           /\ fresh' = [fresh EXCEPT ![c] = x]
    /\ read' = [read EXCEPT ![c] = Active]
    /\ Goto(c, "store")
    /\ UNCHANGED <<registry, request, answer>>

\* A diagnosis without a dominant fault, or weights at their bounds, propose nothing.
ProposeNothing(c) ==
    /\ pc[c] = "read" /\ request[c].op = "propose"
    /\ Finish(c, "nothing")
    /\ UNCHANGED registry

\* The decision each target stage needs; passing also needs the hard gates.
Authorizes(receipt) ==
    LET to == receipt.edge[2]
    IN  CASE to = "rejected" -> receipt.decision = "reject"
          [] to = "rolled_back" -> receipt.decision = "rollback"
          [] OTHER -> receipt.decision = "pass" /\ receipt.hard_gates_passed

\* advance reads the experiment, verifies the receipt and matches the two.
ReadExperiment(c) ==
    /\ pc[c] = "read" /\ request[c].op = "advance"
    /\ LET receipt == request[c].receipt
           current == experiments[receipt.experiment]
       IN  IF current # None /\ receipt.edge[1] = current.stage /\ Authorizes(receipt)
           THEN /\ read' = [read EXCEPT ![c] = current.stage]
                /\ Goto(c, "store")
                /\ UNCHANGED <<request, fresh, answer>>
           ELSE Finish(c, "refused")
    /\ UNCHANGED registry

\* The verifier rejects a bad signature or a receipt out of its window.
RejectReceipt(c) ==
    /\ pc[c] = "read" /\ request[c].op = "advance"
    /\ Finish(c, "invalid_receipt")
    /\ UNCHANGED registry

\* register_evolution_experiment, under the registry lock.
CanRegister(c) == Active = read[c] /\ transitions[Key(c)] = None

Register(c) ==
    /\ pc[c] = "store" /\ request[c].op = "propose"
    /\ CanRegister(c)
    /\ experiments' = [experiments EXCEPT ![fresh[c]] =
           [baseline |-> read[c], version |-> Version(read[c]) + 1, stage |-> "proposed"]]
    /\ transitions' = [transitions EXCEPT ![Key(c)] =
           [experiment |-> fresh[c], from |-> None, to |-> "proposed", request |-> request[c]]]
    /\ UNCHANGED activations
    /\ Finish(c, "applied")

\* Faulty variant: a rollback restores what was active before the last activation.
ExpectedPrevious(x, edge) ==
    CASE edge = <<"canary", "promoted">> ->
             [strategy |-> x, previous |-> experiments[x].baseline, kind |-> "promotion"]
      [] edge = <<"promoted", "rolled_back">> ->
             [strategy |-> activations[Len(activations)].previous, previous |-> x,
              kind |-> "rollback"]
      [] OTHER -> None

\* Faulty variant: a rollback does not touch the active strategy.
ExpectedOnPromotion(x, edge) ==
    IF edge = <<"canary", "promoted">>
    THEN [strategy |-> x, previous |-> experiments[x].baseline, kind |-> "promotion"]
    ELSE None

\* _validate_activation: a promotion replaces the baseline, a rollback of a
\* promotion the candidate, and only if that one is active.
Expected(x, edge) ==
    CASE edge = <<"canary", "promoted">> ->
             [strategy |-> x, previous |-> experiments[x].baseline, kind |-> "promotion"]
      [] edge = <<"promoted", "rolled_back">> ->
             [strategy |-> experiments[x].baseline, previous |-> x, kind |-> "rollback"]
      [] OTHER -> None

\* Faulty variant: whatever is active now is replaced.
AnyActivation(x, edge) == TRUE

ValidActivation(x, edge) == Expected(x, edge) # None => Active = Expected(x, edge).previous

\* Faulty variant: the stage read before the lock is trusted.
CanAdvanceStale(c) ==
    /\ transitions[Key(c)] = None
    /\ ValidActivation(request[c].receipt.experiment, request[c].receipt.edge)

CanAdvance(c) ==
    LET receipt == request[c].receipt
        x == receipt.experiment
    IN  /\ transitions[Key(c)] = None
        /\ experiments[x].stage = read[c]
        /\ ValidActivation(x, receipt.edge)

\* advance_evolution_experiment, under the registry lock.
AdvanceExperiment(c) ==
    /\ pc[c] = "store" /\ request[c].op = "advance"
    /\ CanAdvance(c)
    /\ LET receipt == request[c].receipt
           x == receipt.experiment
           activation == Expected(x, receipt.edge)
       IN  /\ experiments' = [experiments EXCEPT ![x].stage = receipt.edge[2]]
           /\ transitions' = [transitions EXCEPT ![Key(c)] =
                  [experiment |-> x, from |-> read[c], to |-> receipt.edge[2],
                   request |-> request[c]]]
           /\ activations' = IF activation = None THEN activations
                             ELSE Append(activations, activation)
    /\ Finish(c, "applied")

\* The registry refuses; the application looks the key up once more.
Conflict(c) ==
    /\ pc[c] = "store"
    /\ IF request[c].op = "propose" THEN ~CanRegister(c) ELSE ~CanAdvance(c)
    /\ Goto(c, "reread")
    /\ UNCHANGED <<registry, request, read, fresh, answer>>

Reread(c) ==
    /\ pc[c] = "reread"
    /\ IF transitions[Key(c)] # None THEN Replay(c) ELSE Finish(c, "conflict")
    /\ UNCHANGED registry

Next ==
    \E c \in Callers :
        \/ \E req \in Requests : Begin(c, req)
        \/ Lookup(c) \/ ReadBaseline(c) \/ ProposeNothing(c)
        \/ ReadExperiment(c) \/ RejectReceipt(c)
        \/ Register(c) \/ AdvanceExperiment(c) \/ Conflict(c) \/ Reread(c)

Spec == Init /\ [][Next]_vars
-----------------------------------------------------------------------------
(* Properties.                                                             *)

Registered == {x \in Candidates : experiments[x] # None}

Promoted == {x \in Registered : experiments[x].stage = "promoted"}

InForce == Promoted \cup {Root}

\* Type correctness of the registry and of the callers' local state.
TypeOK ==
    /\ experiments \in [Candidates -> Experiment \cup {None}]
    /\ transitions \in [Keys -> Transition \cup {None}]
    /\ activations \in Seq(Activation) /\ activations # <<>>
    /\ pc \in [Callers -> {"idle", "lookup", "read", "store", "reread"}]
    /\ request \in [Callers -> Requests \cup {None}]
    /\ read \in [Callers -> Candidates \cup {Root, None} \cup Stages]
    /\ fresh \in [Callers -> Candidates \cup {None}]
    /\ answer \in [Callers -> {"none", "applied", "replayed", "conflict", "refused",
                               "invalid_receipt", "nothing"}]

\* However callers race, the strategies in force form one chain: the active one
\* is in force, each promoted candidate stands on another strategy in force, no
\* two on the same one and none on the active one.  A promotion against a stale
\* baseline or a rollback from below another promotion would break it
\* (_validate_activation).
PromotedFormChain ==
    /\ Active \in InForce
    /\ \A x \in Promoted :
           /\ experiments[x].baseline \in InForce
           /\ experiments[x].baseline # Active
    /\ \A x, y \in Promoted : experiments[x].baseline = experiments[y].baseline => x = y

TrailOf(x) == {k \in Keys : transitions[k] # None /\ transitions[k].experiment = x}

\* The evidence of an experiment is complete and unforked: one creation, every
\* other transition leaves a stage some transition reached, no stage is reached
\* or left twice, the trail ends at the current stage, and each step was asked
\* for by a receipt for that very edge with the decision the edge needs
\* (advance_evolution_experiment, _require_matching_gate_receipt).
EvidenceTrail ==
    \A x \in Candidates :
        LET trail == TrailOf(x)
            reached == {transitions[k].to : k \in trail}
            left == {transitions[k].from : k \in trail}
        IN  IF experiments[x] = None THEN trail = {}
            ELSE /\ None \in left /\ left \ {None} = reached \ {experiments[x].stage}
                 /\ experiments[x].stage \in reached
                 /\ Cardinality(reached) = Cardinality(trail)
                 /\ Cardinality(left) = Cardinality(trail)
                 /\ \A k \in trail : transitions[k].from # None =>
                        LET receipt == transitions[k].request.receipt
                        IN  /\ receipt.experiment = x
                            /\ receipt.edge = <<transitions[k].from, transitions[k].to>>
                            /\ Authorizes(receipt)

\* The activation log and the experiments agree: each activation takes over from
\* the one before it, there is exactly one per transition that changes the
\* active strategy, no strategy is promoted twice, and a strategy that was taken
\* out by a rollback never becomes active again, neither by a promotion nor as
\* what another rollback restores (_validate_activation).
ActivationsMatchEvidence ==
    /\ \A n \in 2..Len(activations) : activations[n].previous = activations[n-1].strategy
    /\ Len(activations) = 1 + Cardinality({k \in Keys :
           transitions[k] # None /\ "promoted" \in {transitions[k].from, transitions[k].to}})
    /\ \A m, n \in DOMAIN activations :
           activations[m].kind = "promotion" /\ activations[n].kind = "promotion"
           /\ activations[m].strategy = activations[n].strategy => m = n
    /\ \A m, n \in DOMAIN activations :
           activations[m].kind = "rollback" /\ m < n
           => activations[n].strategy # activations[m].previous

AtVersion(n) ==
    LET found == {x \in InForce : Version(x) = n}
    IN  IF found = {} THEN None ELSE CHOOSE x \in found : TRUE

\* The registry implements StrategyStack: the strategies in force, in order of
\* their versions, with the candidates rolled back after a promotion retired.
Abstract == INSTANCE StrategyStack WITH
    stack <- [n \in 1..Cardinality(InForce) |-> AtVersion(n)],
    retired <- {x \in Registered : /\ experiments[x].stage = "rolled_back"
                                   /\ \E n \in DOMAIN activations : activations[n].previous = x
                                                     /\ activations[n].kind = "rollback"}

ImplementsStrategyStack == Abstract!Spec

=============================================================================
