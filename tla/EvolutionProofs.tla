-------------------------- MODULE EvolutionProofs --------------------------
(***************************************************************************)
(* Proofs about Evolution, for any number of callers, candidates and       *)
(* requests: type correctness, sound lineage, and that the strategies in   *)
(* force form one chain.                                                   *)
(***************************************************************************)
EXTENDS Evolution, DataFacts, TLAPS

\* What a caller may rely on between its reads and the registry call: it kept a
\* request, the id it generated is unused and nobody else's, the experiment it
\* advances exists and its receipt authorizes an edge from the stage it read.
CallersOK ==
    /\ \A c \in Callers : pc[c] # "idle" => request[c] \in Requests
    /\ \A c, d \in Callers : fresh[c] = fresh[d] /\ fresh[c] # None => c = d
    /\ \A c \in Callers : pc[c] = "store" =>
           \/ /\ request[c].op = "propose"
              /\ fresh[c] \in Candidates /\ experiments[fresh[c]] = None
           \/ /\ request[c].op = "advance"
              /\ request[c].receipt.experiment \in Registered
              /\ request[c].receipt.edge[1] = read[c]

\* Every experiment builds on a strategy that exists, one version above it
\* (register_evolution_experiment).
LineageIsSound ==
    \A x \in Registered :
        /\ experiments[x].baseline \in Registered \cup {Root}
        /\ experiments[x].version = Version(experiments[x].baseline) + 1

\* The strengthening that is inductive.
Inv == TypeOK /\ CallersOK /\ LineageIsSound /\ PromotedFormChain

\* A request has one of two shapes.
LEMMA RequestShape ==
    ASSUME NEW req \in Requests
    PROVE  /\ req.key \in Keys
           /\ \/ req.op = "propose"
              \/ /\ req.op = "advance"
                 /\ req.receipt.experiment \in Candidates
                 /\ req.receipt.edge \in Edges
  BY RequestsAssumption DEF Proposal, Advance, Receipt

\* What an experiment is made of.
LEMMA ExperimentShape ==
    ASSUME TypeOK, NEW x \in Registered
    PROVE  /\ experiments[x] \in Experiment
           /\ experiments[x].baseline \in Candidates \cup {Root}
           /\ experiments[x].version \in Nat \ {0}
           /\ experiments[x].stage \in Stages
  BY DEF TypeOK, Registered, Experiment

\* Only two actions touch the registry.
LEMMA RegistryStep ==
    ASSUME Next
    PROVE  \/ UNCHANGED registry
           \/ \E c \in Callers : Register(c)
           \/ \E c \in Callers : AdvanceExperiment(c)
  BY DEF Next, Begin, Lookup, ReadBaseline, ProposeNothing, ReadExperiment, RejectReceipt,
         Conflict, Reread, registry

LEMMA InitInv == Init => Inv
<1> SUFFICES ASSUME Init PROVE Inv OBVIOUS
<1>1. activations = <<[strategy |-> Root, previous |-> None, kind |-> "bootstrap"]>>
  BY DEF Init
<1>2. /\ activations \in Seq(Activation) /\ activations # <<>> /\ Active = Root
  BY <1>1 DEF Activation, Active
<1>3. Registered = {} BY DEF Init, Registered
<1>4. TypeOK BY <1>2 DEF Init, TypeOK
<1>5. CallersOK BY DEF Init, CallersOK
<1>6. LineageIsSound BY <1>3 DEF LineageIsSound
<1>7. PromotedFormChain BY <1>2, <1>3 DEF PromotedFormChain, Promoted, InForce
<1> QED BY <1>4, <1>5, <1>6, <1>7 DEF Inv

\* What a registration writes: one unused candidate becomes a proposed
\* experiment on the active strategy.
LEMMA RegisterEffect ==
    ASSUME Inv, NEW c \in Callers, Register(c)
    PROVE  \E x \in Candidates :
               /\ experiments[x] = None
               /\ x = fresh[c]
               /\ experiments' = [experiments EXCEPT ![x] =
                      [baseline |-> Active, version |-> Version(Active) + 1,
                       stage |-> "proposed"]]
               /\ activations' = activations
  BY DEF Inv, CallersOK, Register, CanRegister

\* What an advance writes: one registered experiment moves along an edge, and
\* the active strategy changes on promotion and on rollback of a promotion.
LEMMA AdvanceEffect ==
    ASSUME Inv, NEW c \in Callers, AdvanceExperiment(c)
    PROVE  \E x \in Registered, edge \in Edges :
               /\ request[c].receipt.experiment = x /\ request[c].receipt.edge = edge
               /\ experiments[x].stage = edge[1]
               /\ experiments' = [experiments EXCEPT ![x].stage = edge[2]]
               /\ \/ /\ edge = <<"canary", "promoted">>
                     /\ Active = experiments[x].baseline
                     /\ activations' = Append(activations, [strategy |-> x,
                            previous |-> experiments[x].baseline, kind |-> "promotion"])
                  \/ /\ edge = <<"promoted", "rolled_back">>
                     /\ Active = x
                     /\ activations' = Append(activations, [strategy |-> experiments[x].baseline,
                            previous |-> x, kind |-> "rollback"])
                  \/ /\ edge[1] # "promoted" /\ edge[2] # "promoted"
                     /\ activations' = activations
<1> DEFINE receipt == request[c].receipt
           x == receipt.experiment
           edge == receipt.edge
<1>1. /\ pc[c] = "store" /\ request[c].op = "advance"
      /\ experiments[x].stage = read[c] /\ ValidActivation(x, edge)
      /\ experiments' = [experiments EXCEPT ![x].stage = edge[2]]
      /\ activations' = IF Expected(x, edge) = None THEN activations
                        ELSE Append(activations, Expected(x, edge))
  BY DEF AdvanceExperiment, CanAdvance
<1>2. request[c] \in Requests /\ x \in Registered /\ edge[1] = read[c]
  BY <1>1 DEF Inv, CallersOK
<1>3. edge \in Edges
  BY <1>1, <1>2, RequestShape
<1>4. experiments[x].baseline \in Candidates \cup {Root} /\ x \in Candidates
  BY <1>2, ExperimentShape DEF Inv, Registered
<1>5. CASE edge = <<"canary", "promoted">>
  <2>1. Expected(x, edge) = [strategy |-> x, previous |-> experiments[x].baseline,
                             kind |-> "promotion"]
    BY <1>5 DEF Expected
  <2>2. Expected(x, edge) \in Activation
    BY <2>1, <1>4 DEF Activation
  <2>3. Active = experiments[x].baseline
    BY <2>1, <2>2, <1>1, NoneAssumption DEF ValidActivation
  <2> QED BY <1>1, <1>2, <1>3, <1>5, <2>1, <2>2, <2>3, NoneAssumption
<1>6. CASE edge = <<"promoted", "rolled_back">>
  <2>1. Expected(x, edge) = [strategy |-> experiments[x].baseline, previous |-> x,
                             kind |-> "rollback"]
    BY <1>6 DEF Expected
  <2>2. Expected(x, edge) \in Activation
    BY <2>1, <1>4 DEF Activation
  <2>3. Active = x
    BY <2>1, <2>2, <1>1, NoneAssumption DEF ValidActivation
  <2> QED BY <1>1, <1>2, <1>3, <1>6, <2>1, <2>2, <2>3, NoneAssumption
<1>7. CASE edge # <<"canary", "promoted">> /\ edge # <<"promoted", "rolled_back">>
  <2>1. Expected(x, edge) = None
    BY <1>7 DEF Expected
  <2>2. edge[1] # "promoted" /\ edge[2] # "promoted"
    BY <1>3, <1>7 DEF Edges
  <2> QED BY <1>1, <1>2, <1>3, <2>1, <2>2
<1> QED BY <1>5, <1>6, <1>7

\* The strategy active after an append is the one appended.
LEMMA ActiveAfterAppend ==
    ASSUME activations \in Seq(Activation), NEW a \in Activation,
           activations' = Append(activations, a)
    PROVE  Active' = a.strategy
  BY DEF Active

\* The active strategy is one the registry knows.
LEMMA ActiveKnown ==
    ASSUME Inv
    PROVE  /\ Active \in InForce
           /\ Active \in Registered \cup {Root}
           /\ Version(Active) \in Nat \ {0}
<1>1. Active \in InForce BY DEF Inv, PromotedFormChain
<1>2. Active \in Registered \cup {Root} BY <1>1 DEF InForce, Promoted
<1>3. CASE Active = Root BY <1>3, <1>1, <1>2 DEF Version
<1>4. CASE Active \in Registered /\ Active # Root
  BY <1>4, <1>1, <1>2, ExperimentShape DEF Version, Inv
<1> QED BY <1>2, <1>3, <1>4, <1>1

\* A registration yields an experiment, an advance keeps everything but a stage.
LEMMA RegisterExperiments ==
    ASSUME Inv, NEW c \in Callers, Register(c)
    PROVE  \E x \in Candidates :
               /\ x \notin Registered /\ x = fresh[c]
               /\ Registered' = Registered \cup {x}
               /\ Promoted' = Promoted
               /\ experiments'[x].baseline = Active
               /\ experiments'[x].version = Version(Active) + 1
               /\ experiments'[x] \in Experiment
               /\ \A y \in Candidates \ {x} : experiments'[y] = experiments[y]
               /\ Active' = Active
<1>1. PICK x \in Candidates :
          /\ experiments[x] = None
          /\ x = fresh[c]
          /\ experiments' = [experiments EXCEPT ![x] =
                 [baseline |-> Active, version |-> Version(Active) + 1, stage |-> "proposed"]]
          /\ activations' = activations
  BY RegisterEffect
<1>2. DOMAIN experiments = Candidates BY DEF Inv, TypeOK
<1>3. /\ experiments'[x] = [baseline |-> Active, version |-> Version(Active) + 1,
                            stage |-> "proposed"]
      /\ \A y \in Candidates \ {x} : experiments'[y] = experiments[y]
  BY <1>1, <1>2
<1>4. experiments'[x] \in Experiment
  BY <1>3, ActiveKnown DEF Experiment, Stages, Registered
<1>5. Registered' = Registered \cup {x}
  BY <1>3, <1>4, NoneAssumption DEF Registered
<1>6. Promoted' = Promoted
  <2>1. x \notin Promoted /\ x \notin Promoted'
    BY <1>1, <1>3 DEF Promoted, Registered
  <2>2. \A y \in Candidates \ {x} : y \in Promoted' <=> y \in Promoted
    BY <1>3, <1>5 DEF Promoted
  <2> QED BY <2>1, <2>2 DEF Promoted, Registered
<1>7. Active' = Active BY <1>1 DEF Active
<1> QED BY <1>1, <1>3, <1>4, <1>5, <1>6, <1>7 DEF Registered

LEMMA AdvanceExperiments ==
    ASSUME Inv, NEW c \in Callers, AdvanceExperiment(c)
    PROVE  \E x \in Registered, edge \in Edges :
               /\ Registered' = Registered
               /\ experiments[x].stage = edge[1] /\ experiments'[x].stage = edge[2]
               /\ \A y \in Candidates \ {x} : experiments'[y] = experiments[y]
               /\ \A y \in Registered : /\ experiments'[y] \in Experiment
                                       /\ experiments'[y].baseline = experiments[y].baseline
                                       /\ experiments'[y].version = experiments[y].version
               /\ activations' \in Seq(Activation) /\ activations' # <<>>
               /\ \/ /\ edge = <<"canary", "promoted">>
                     /\ Active = experiments[x].baseline /\ Active' = x
                  \/ /\ edge = <<"promoted", "rolled_back">>
                     /\ Active = x /\ Active' = experiments[x].baseline
                  \/ /\ edge[1] # "promoted" /\ edge[2] # "promoted"
                     /\ Active' = Active
<1>1. PICK x \in Registered, edge \in Edges :
          /\ experiments[x].stage = edge[1]
          /\ experiments' = [experiments EXCEPT ![x].stage = edge[2]]
          /\ \/ /\ edge = <<"canary", "promoted">>
                /\ Active = experiments[x].baseline
                /\ activations' = Append(activations, [strategy |-> x,
                       previous |-> experiments[x].baseline, kind |-> "promotion"])
             \/ /\ edge = <<"promoted", "rolled_back">>
                /\ Active = x
                /\ activations' = Append(activations, [strategy |-> experiments[x].baseline,
                       previous |-> x, kind |-> "rollback"])
             \/ /\ edge[1] # "promoted" /\ edge[2] # "promoted"
                /\ activations' = activations
  BY AdvanceEffect
<1>2. /\ experiments \in [Candidates -> Experiment \cup {None}]
      /\ activations \in Seq(Activation) /\ activations # <<>>
      /\ experiments[x] \in Experiment
      /\ experiments[x].baseline \in Candidates \cup {Root} /\ x \in Candidates
  BY ExperimentShape DEF Inv, TypeOK, Registered
<1>3. edge[2] \in Stages BY DEF Edges, Stages
<1>4. experiments'[x] = [experiments[x] EXCEPT !.stage = edge[2]]
  BY <1>1, <1>2
<1>5. /\ experiments'[x] \in Experiment /\ experiments'[x].stage = edge[2]
      /\ experiments'[x].baseline = experiments[x].baseline
      /\ experiments'[x].version = experiments[x].version
  BY <1>2, <1>3, <1>4 DEF Experiment
<1>6. \A y \in Candidates \ {x} : experiments'[y] = experiments[y]
  BY <1>1, <1>2
<1>7. Registered' = Registered
  BY <1>2, <1>5, <1>6, NoneAssumption DEF Registered
<1>8. \A y \in Registered : /\ experiments'[y] \in Experiment
                           /\ experiments'[y].baseline = experiments[y].baseline
                           /\ experiments'[y].version = experiments[y].version
  BY <1>5, <1>6, ExperimentShape DEF Inv, Registered
<1>9. /\ activations' \in Seq(Activation) /\ activations' # <<>>
      /\ \/ /\ edge = <<"canary", "promoted">>
            /\ Active = experiments[x].baseline /\ Active' = x
         \/ /\ edge = <<"promoted", "rolled_back">>
            /\ Active = x /\ Active' = experiments[x].baseline
         \/ /\ edge[1] # "promoted" /\ edge[2] # "promoted"
            /\ Active' = Active
  <2>1. CASE edge = <<"canary", "promoted">>
    <3> DEFINE a == [strategy |-> x, previous |-> experiments[x].baseline,
                     kind |-> "promotion"]
    <3>1. /\ activations' = Append(activations, a)
          /\ Active = experiments[x].baseline
      BY <1>1, <2>1
    <3>2. a \in Activation BY <1>2 DEF Activation
    <3>3. Active' = x BY <1>2, <3>1, <3>2, ActiveAfterAppend
    <3> QED BY <1>2, <2>1, <3>1, <3>2, <3>3
  <2>2. CASE edge = <<"promoted", "rolled_back">>
    <3> DEFINE a == [strategy |-> experiments[x].baseline, previous |-> x,
                     kind |-> "rollback"]
    <3>1. activations' = Append(activations, a) /\ Active = x
      BY <1>1, <2>2
    <3>2. a \in Activation BY <1>2 DEF Activation
    <3>3. Active' = experiments[x].baseline BY <1>2, <3>1, <3>2, ActiveAfterAppend
    <3> QED BY <1>2, <2>2, <3>1, <3>2, <3>3
  <2>3. CASE edge[1] # "promoted" /\ edge[2] # "promoted"
    <3>1. activations' = activations BY <1>1, <2>3
    <3>2. Active' = Active BY <3>1 DEF Active
    <3> QED BY <1>2, <2>3, <3>1, <3>2
  <2> QED BY <1>1, <2>1, <2>2, <2>3
<1> QED BY <1>1, <1>5, <1>6, <1>7, <1>8, <1>9

\* Lineage: a new experiment stands on a known strategy, an advance moves no lineage.
LEMMA LineageStep ==
    ASSUME Inv, [Next]_vars
    PROVE  LineageIsSound'
<1>1. LineageIsSound BY DEF Inv
<1>2. CASE UNCHANGED registry
  BY <1>1, <1>2 DEF registry, LineageIsSound, Registered, Version
<1>3. ASSUME NEW c \in Callers, Register(c) PROVE LineageIsSound'
  <2>1. PICK x \in Candidates :
            /\ x \notin Registered
            /\ Registered' = Registered \cup {x}
            /\ experiments'[x].baseline = Active
            /\ experiments'[x].version = Version(Active) + 1
            /\ \A y \in Candidates \ {x} : experiments'[y] = experiments[y]
    BY <1>3, RegisterExperiments
  <2>2. \A z \in Registered : experiments'[z] = experiments[z]
    BY <2>1 DEF Registered
  <2>3. Active \in Registered \cup {Root} BY ActiveKnown
  <2>4. ASSUME NEW y \in Registered'
        PROVE  (/\ experiments[y].baseline \in Registered \cup {Root}
                /\ experiments[y].version = Version(experiments[y].baseline) + 1)'
    <3>1. CASE y = x
      BY <3>1, <2>1, <2>2, <2>3, RootAssumption DEF Version
    <3>2. CASE y # x
      <4>1. y \in Registered BY <2>1, <2>4, <3>2
      <4>2. /\ experiments[y].baseline \in Registered \cup {Root}
            /\ experiments[y].version = Version(experiments[y].baseline) + 1
        BY <4>1, <1>1 DEF LineageIsSound
      <4> QED BY <4>1, <4>2, <2>1, <2>2, RootAssumption DEF Version
    <3> QED BY <3>1, <3>2
  <2> QED BY <2>4 DEF LineageIsSound
<1>4. ASSUME NEW c \in Callers, AdvanceExperiment(c) PROVE LineageIsSound'
  <2>1. /\ Registered' = Registered
        /\ \A y \in Registered : /\ experiments'[y].baseline = experiments[y].baseline
                                /\ experiments'[y].version = experiments[y].version
    BY <1>4, AdvanceExperiments
  <2>2. ASSUME NEW y \in Registered
        PROVE  (/\ experiments[y].baseline \in Registered \cup {Root}
                /\ experiments[y].version = Version(experiments[y].baseline) + 1)'
    <3>1. /\ experiments[y].baseline \in Registered \cup {Root}
          /\ experiments[y].version = Version(experiments[y].baseline) + 1
      BY <1>1 DEF LineageIsSound
    <3> QED BY <3>1, <2>1 DEF Version
  <2> QED BY <2>1, <2>2 DEF LineageIsSound
<1>5. CASE UNCHANGED vars BY <1>2, <1>5 DEF vars
<1> QED BY <1>2, <1>3, <1>4, <1>5, RegistryStep

\* The chain of strategies in force grows and shrinks at the active end only.
LEMMA ChainStep ==
    ASSUME Inv, [Next]_vars
    PROVE  PromotedFormChain'
<1>1. PromotedFormChain /\ LineageIsSound BY DEF Inv
<1>2. CASE UNCHANGED registry
  BY <1>1, <1>2 DEF registry, PromotedFormChain, Promoted, InForce, Registered, Active
<1>3. ASSUME NEW c \in Callers, Register(c) PROVE PromotedFormChain'
  <2>1. PICK x \in Candidates :
            /\ x \notin Registered
            /\ Promoted' = Promoted
            /\ \A y \in Candidates \ {x} : experiments'[y] = experiments[y]
            /\ Active' = Active
    BY <1>3, RegisterExperiments
  <2>2. \A y \in Promoted : experiments'[y] = experiments[y]
    BY <2>1 DEF Promoted, Registered
  <2> QED BY <1>1, <2>1, <2>2 DEF PromotedFormChain, InForce
<1>4. ASSUME NEW c \in Callers, AdvanceExperiment(c) PROVE PromotedFormChain'
  <2>1. PICK x \in Registered, edge \in Edges :
            /\ Registered' = Registered
            /\ experiments[x].stage = edge[1] /\ experiments'[x].stage = edge[2]
            /\ \A y \in Candidates \ {x} : experiments'[y] = experiments[y]
            /\ \A y \in Registered : experiments'[y].baseline = experiments[y].baseline
            /\ \/ /\ edge = <<"canary", "promoted">>
                  /\ Active = experiments[x].baseline /\ Active' = x
               \/ /\ edge = <<"promoted", "rolled_back">>
                  /\ Active = x /\ Active' = experiments[x].baseline
               \/ /\ edge[1] # "promoted" /\ edge[2] # "promoted"
                  /\ Active' = Active
    BY <1>4, AdvanceExperiments
  <2>2. x # Root BY RootAssumption DEF Registered
  <2>3. CASE edge = <<"canary", "promoted">>
    <3>1. x \notin InForce BY <2>1, <2>2, <2>3 DEF InForce, Promoted
    <3>2. Promoted' = Promoted \cup {x}
      BY <2>1, <2>3 DEF Promoted, Registered
    <3>3. Active = experiments[x].baseline /\ Active' = x BY <2>1, <2>3
    <3> QED BY <1>1, <2>1, <3>1, <3>2, <3>3 DEF PromotedFormChain, InForce, Promoted
  <2>4. CASE edge = <<"promoted", "rolled_back">>
    <3>1. x \in Promoted BY <2>1, <2>4 DEF Promoted
    <3>2. Promoted' = Promoted \ {x}
      BY <2>1, <2>4 DEF Promoted, Registered
    <3>3. Active = x /\ Active' = experiments[x].baseline BY <2>1, <2>4
    <3> QED BY <1>1, <2>1, <2>2, <3>1, <3>2, <3>3 DEF PromotedFormChain, InForce, Promoted
  <2>5. CASE edge[1] # "promoted" /\ edge[2] # "promoted"
    <3>1. Promoted' = Promoted
      BY <2>1, <2>5 DEF Promoted, Registered
    <3>2. Active' = Active BY <2>1, <2>5
    <3> QED BY <1>1, <2>1, <3>1, <3>2 DEF PromotedFormChain, InForce, Promoted
  <2> QED BY <2>1, <2>3, <2>4, <2>5
<1>5. CASE UNCHANGED vars BY <1>2, <1>5 DEF vars
<1> QED BY <1>2, <1>3, <1>4, <1>5, RegistryStep

\* A caller that finishes goes idle and holds no generated id.
LEMMA FinishFrame ==
    ASSUME TypeOK, NEW c \in Callers, NEW reply, Finish(c, reply)
    PROVE  /\ pc'[c] = "idle" /\ fresh'[c] = None /\ request'[c] = None
           /\ \A d \in Callers \ {c} : /\ pc'[d] = pc[d] /\ request'[d] = request[d]
                                     /\ read'[d] = read[d] /\ fresh'[d] = fresh[d]
  BY DEF TypeOK, Finish

\* If a step finishes one caller, un-registers nothing and takes no other
\* caller's id, what the callers rely on still holds.
LEMMA FinishKeepsCallers ==
    ASSUME TypeOK, CallersOK, NEW c \in Callers, NEW reply, Finish(c, reply),
           Registered \subseteq Registered',
           \A d \in Callers \ {c} : fresh[d] \in Candidates /\ experiments[fresh[d]] = None
                                       => experiments'[fresh[d]] = None
    PROVE  CallersOK'
<1>1. /\ pc'[c] = "idle" /\ fresh'[c] = None
      /\ \A d \in Callers \ {c} : /\ pc'[d] = pc[d] /\ request'[d] = request[d]
                                /\ read'[d] = read[d] /\ fresh'[d] = fresh[d]
  BY FinishFrame
<1>2. \A d \in Callers : pc'[d] # "idle" => request'[d] \in Requests
  BY <1>1 DEF CallersOK
<1>3. \A d, e \in Callers : fresh'[d] = fresh'[e] /\ fresh'[d] # None => d = e
  BY <1>1 DEF CallersOK
<1>4. ASSUME NEW d \in Callers, pc'[d] = "store"
      PROVE  \/ /\ request'[d].op = "propose"
                /\ fresh'[d] \in Candidates /\ experiments'[fresh'[d]] = None
             \/ /\ request'[d].op = "advance"
                /\ request'[d].receipt.experiment \in Registered'
                /\ request'[d].receipt.edge[1] = read'[d]
  <2>1. d # c /\ pc[d] = "store" BY <1>1, <1>4
  <2> QED BY <1>1, <2>1 DEF CallersOK
<1> QED BY <1>2, <1>3, <1>4 DEF CallersOK

\* The same for a step that leaves the registry alone.
LEMMA ReplyKeepsCallers ==
    ASSUME TypeOK, CallersOK, NEW c \in Callers, NEW reply, Finish(c, reply),
           UNCHANGED registry
    PROVE  CallersOK'
<1>1. Registered' = Registered /\ experiments' = experiments
  BY DEF registry, Registered
<1> QED BY <1>1, FinishKeepsCallers

LEMMA CallersStep ==
    ASSUME Inv, [Next]_vars
    PROVE  CallersOK'
<1>1. TypeOK /\ CallersOK BY DEF Inv
<1>2. ASSUME NEW c \in Callers, NEW req \in Requests, Begin(c, req) PROVE CallersOK'
  BY <1>1, <1>2 DEF Begin, Goto, CallersOK, TypeOK, registry, Registered
<1>3. ASSUME NEW c \in Callers, Lookup(c) PROVE CallersOK'
  <2>1. CASE Replay(c)
    BY <1>1, <1>3, <2>1, ReplyKeepsCallers DEF Lookup, Replay
  <2>2. CASE Goto(c, "read") /\ UNCHANGED <<registry, request, read, fresh>>
    BY <1>1, <1>3, <2>2 DEF Lookup, Goto, CallersOK, TypeOK, registry, Registered
  <2> QED BY <1>3, <2>1, <2>2 DEF Lookup
<1>4. ASSUME NEW c \in Callers, ReadBaseline(c) PROVE CallersOK'
  <2>1. PICK x \in Candidates : /\ experiments[x] = None /\ \A d \in Callers : fresh[d] # x
                                /\ fresh' = [fresh EXCEPT ![c] = x]
    BY <1>4 DEF ReadBaseline
  <2>2. /\ pc[c] = "read" /\ request[c].op = "propose" /\ pc' = [pc EXCEPT ![c] = "store"]
        /\ read' = [read EXCEPT ![c] = Active]
        /\ UNCHANGED <<experiments, request>>
    BY <1>4 DEF ReadBaseline, Goto, registry
  <2>3. /\ pc'[c] = "store" /\ fresh'[c] = x
        /\ \A d \in Callers \ {c} : /\ pc'[d] = pc[d] /\ read'[d] = read[d]
                                  /\ fresh'[d] = fresh[d]
    BY <1>1, <2>1, <2>2 DEF TypeOK
  <2> QED BY <1>1, <2>1, <2>2, <2>3 DEF CallersOK, Registered
<1>5. ASSUME NEW c \in Callers, ProposeNothing(c) PROVE CallersOK'
  BY <1>1, <1>5, ReplyKeepsCallers DEF ProposeNothing
<1>6. ASSUME NEW c \in Callers, ReadExperiment(c) PROVE CallersOK'
  <2> DEFINE receipt == request[c].receipt
  <2>1. CASE Finish(c, "refused")
    BY <1>1, <1>6, <2>1, ReplyKeepsCallers DEF ReadExperiment
  <2>2. CASE ~Finish(c, "refused")
    <3>1. /\ pc[c] = "read" /\ request[c].op = "advance"
          /\ experiments[receipt.experiment] # None
          /\ receipt.edge[1] = experiments[receipt.experiment].stage
          /\ read' = [read EXCEPT ![c] = experiments[receipt.experiment].stage]
          /\ pc' = [pc EXCEPT ![c] = "store"]
          /\ UNCHANGED <<experiments, request, fresh>>
      BY <1>6, <2>2 DEF ReadExperiment, Goto, registry
    <3>2. receipt.experiment \in Registered
      <4>1. request[c] \in Requests BY <1>1, <3>1 DEF CallersOK
      <4> QED BY <3>1, <4>1, RequestShape DEF Registered
    <3>3. /\ pc'[c] = "store" /\ read'[c] = receipt.edge[1]
          /\ \A d \in Callers \ {c} : pc'[d] = pc[d] /\ read'[d] = read[d]
      BY <1>1, <3>1 DEF TypeOK
    <3> QED BY <1>1, <3>1, <3>2, <3>3 DEF CallersOK, Registered
  <2> QED BY <2>1, <2>2
<1>7. ASSUME NEW c \in Callers, RejectReceipt(c) PROVE CallersOK'
  BY <1>1, <1>7, ReplyKeepsCallers DEF RejectReceipt
<1>8. ASSUME NEW c \in Callers, Register(c) PROVE CallersOK'
  <2>1. Finish(c, "applied") /\ pc[c] = "store" BY <1>8 DEF Register
  <2>2. PICK x \in Candidates :
            /\ x = fresh[c]
            /\ Registered' = Registered \cup {x}
            /\ \A y \in Candidates \ {x} : experiments'[y] = experiments[y]
    BY <1>8, RegisterExperiments
  <2>3. \A d \in Callers \ {c} : fresh[d] # x
    BY <1>1, <2>2, RootAssumption DEF CallersOK
  <2> QED BY <1>1, <2>1, <2>2, <2>3, FinishKeepsCallers
<1>9. ASSUME NEW c \in Callers, AdvanceExperiment(c) PROVE CallersOK'
  <2>1. Finish(c, "applied") BY <1>9 DEF AdvanceExperiment
  <2>2. Registered' = Registered BY <1>9, AdvanceExperiments
  <2> QED BY <1>1, <2>1, <2>2, FinishKeepsCallers DEF Registered
<1>10. ASSUME NEW c \in Callers, Conflict(c) PROVE CallersOK'
  BY <1>1, <1>10 DEF Conflict, Goto, CallersOK, TypeOK, registry, Registered
<1>11. ASSUME NEW c \in Callers, Reread(c) PROVE CallersOK'
  BY <1>1, <1>11, ReplyKeepsCallers DEF Reread, Replay
<1>12. CASE UNCHANGED vars
  BY <1>1, <1>12 DEF vars, local, registry, CallersOK, Registered
<1> QED
  BY <1>2, <1>3, <1>4, <1>5, <1>6, <1>7, <1>8, <1>9, <1>10, <1>11, <1>12 DEF Next

\* The part of TypeOK each kind of step can disturb.
RegistryTypeOK ==
    /\ experiments \in [Candidates -> Experiment \cup {None}]
    /\ transitions \in [Keys -> Transition \cup {None}]
    /\ activations \in Seq(Activation) /\ activations # <<>>

LocalTypeOK ==
    /\ pc \in [Callers -> {"idle", "lookup", "read", "store", "reread"}]
    /\ request \in [Callers -> Requests \cup {None}]
    /\ read \in [Callers -> Candidates \cup {Root, None} \cup Stages]
    /\ fresh \in [Callers -> Candidates \cup {None}]
    /\ answer \in [Callers -> {"none", "applied", "replayed", "conflict", "refused",
                               "invalid_receipt", "nothing"}]

LEMMA TypeParts == TypeOK <=> RegistryTypeOK /\ LocalTypeOK
  BY DEF TypeOK, RegistryTypeOK, LocalTypeOK

LEMMA FinishType ==
    ASSUME LocalTypeOK, NEW c \in Callers,
           NEW reply \in {"none", "applied", "replayed", "conflict", "refused",
                          "invalid_receipt", "nothing"},
           Finish(c, reply)
    PROVE  LocalTypeOK'
  BY DEF LocalTypeOK, Finish

LEMMA ReplayType ==
    ASSUME LocalTypeOK, NEW c \in Callers, Replay(c)
    PROVE  LocalTypeOK'
<1> DEFINE reply == IF transitions[Key(c)].request = request[c] THEN "replayed" ELSE "conflict"
<1>1. reply \in {"replayed", "conflict"} /\ Finish(c, reply) BY DEF Replay
<1> QED BY <1>1, FinishType

\* Registry calls write well-formed rows.
LEMMA RegistryTypeStep ==
    ASSUME Inv, Next
    PROVE  RegistryTypeOK'
<1>1. TypeOK /\ RegistryTypeOK BY TypeParts DEF Inv
<1>2. CASE UNCHANGED registry BY <1>1, <1>2 DEF registry, RegistryTypeOK
<1>3. ASSUME NEW c \in Callers, Register(c) PROVE RegistryTypeOK'
  <2>1. PICK x \in Candidates :
            /\ x = fresh[c] /\ experiments'[x] \in Experiment
            /\ experiments' = [experiments EXCEPT ![x] =
                   [baseline |-> Active, version |-> Version(Active) + 1, stage |-> "proposed"]]
            /\ activations' = activations
    <3>1. PICK x \in Candidates : /\ x = fresh[c] /\ experiments'[x] \in Experiment
      BY <1>3, RegisterExperiments
    <3> QED BY <1>3, <3>1, RegisterEffect
  <2>2. request[c] \in Requests /\ Key(c) \in Keys
    <3>1. request[c] \in Requests BY <1>3 DEF Inv, CallersOK, Register
    <3> QED BY <3>1, RequestShape DEF Key
  <2>3. [experiment |-> x, from |-> None, to |-> "proposed", request |-> request[c]]
            \in Transition
    BY <2>2 DEF Transition, Stages
  <2>4. transitions' \in [Keys -> Transition \cup {None}]
    BY <1>1, <1>3, <2>1, <2>3 DEF Register, RegistryTypeOK
  <2>5. experiments' \in [Candidates -> Experiment \cup {None}]
    BY <1>1, <2>1 DEF RegistryTypeOK
  <2> QED BY <1>1, <2>1, <2>4, <2>5 DEF RegistryTypeOK
<1>4. ASSUME NEW c \in Callers, AdvanceExperiment(c) PROVE RegistryTypeOK'
  <2> DEFINE receipt == request[c].receipt
             row == [experiment |-> receipt.experiment, from |-> read[c],
                     to |-> receipt.edge[2], request |-> request[c]]
  <2>1. /\ pc[c] = "store" /\ request[c].op = "advance"
        /\ experiments[receipt.experiment].stage = read[c]
        /\ experiments' = [experiments EXCEPT ![receipt.experiment].stage = receipt.edge[2]]
        /\ transitions' = [transitions EXCEPT ![Key(c)] = row]
    BY <1>4 DEF AdvanceExperiment, CanAdvance
  <2>2. request[c] \in Requests /\ receipt.experiment \in Registered
    BY <2>1 DEF Inv, CallersOK
  <2>3. Key(c) \in Keys /\ receipt.experiment \in Candidates /\ receipt.edge \in Edges
    BY <2>1, <2>2, RequestShape DEF Key
  <2>4. read[c] \in Stages /\ receipt.edge[2] \in Stages
    BY <1>1, <2>1, <2>2, <2>3, ExperimentShape DEF Edges, Stages
  <2>5. row \in Transition BY <2>2, <2>3, <2>4 DEF Transition
  <2>6. transitions' \in [Keys -> Transition \cup {None}]
    BY <1>1, <2>1, <2>5 DEF RegistryTypeOK
  <2>7. /\ Registered' = Registered
        /\ \A y \in Registered : experiments'[y] \in Experiment
        /\ activations' \in Seq(Activation) /\ activations' # <<>>
    BY <1>4, AdvanceExperiments
  <2>8. experiments' \in [Candidates -> Experiment \cup {None}]
    <3>1. \A y \in Candidates : experiments'[y] \in Experiment \cup {None}
      BY <2>7 DEF Registered
    <3>2. /\ DOMAIN experiments' = Candidates
          /\ experiments' = [y \in DOMAIN experiments' |-> experiments'[y]]
      BY <1>1, <2>1 DEF RegistryTypeOK
    <3> QED BY <3>1, <3>2
  <2> QED BY <2>6, <2>7, <2>8 DEF RegistryTypeOK
<1> QED BY <1>2, <1>3, <1>4, RegistryStep

\* Callers' variables keep their types.
LEMMA LocalTypeStep ==
    ASSUME Inv, Next
    PROVE  LocalTypeOK'
<1>1. TypeOK /\ LocalTypeOK BY TypeParts DEF Inv
<1>2. ASSUME NEW c \in Callers, NEW req \in Requests, Begin(c, req) PROVE LocalTypeOK'
  BY <1>1, <1>2 DEF Begin, Goto, LocalTypeOK
<1>3. ASSUME NEW c \in Callers, Lookup(c) PROVE LocalTypeOK'
  <2>1. CASE Replay(c) BY <1>1, <2>1, ReplayType
  <2>2. CASE Goto(c, "read") /\ UNCHANGED <<request, read, fresh, answer>>
    BY <1>1, <2>2 DEF Goto, LocalTypeOK
  <2> QED BY <1>3, <2>1, <2>2 DEF Lookup
<1>4. ASSUME NEW c \in Callers, ReadBaseline(c) PROVE LocalTypeOK'
  <2>1. Active \in Candidates \cup {Root} BY ActiveKnown DEF Registered
  <2> QED BY <1>1, <1>4, <2>1 DEF ReadBaseline, Goto, LocalTypeOK
<1>5. ASSUME NEW c \in Callers, ProposeNothing(c) PROVE LocalTypeOK'
  BY <1>1, <1>5, FinishType DEF ProposeNothing
<1>6. ASSUME NEW c \in Callers, ReadExperiment(c) PROVE LocalTypeOK'
  <2> DEFINE receipt == request[c].receipt
  <2>1. CASE Finish(c, "refused") BY <1>1, <2>1, FinishType
  <2>2. CASE ~Finish(c, "refused")
    <3>1. /\ request[c].op = "advance" /\ pc[c] = "read"
          /\ experiments[receipt.experiment] # None
          /\ read' = [read EXCEPT ![c] = experiments[receipt.experiment].stage]
          /\ Goto(c, "store") /\ UNCHANGED <<request, fresh, answer>>
      BY <1>6, <2>2 DEF ReadExperiment
    <3>2. receipt.experiment \in Registered
      <4>1. request[c] \in Requests BY <3>1 DEF Inv, CallersOK
      <4> QED BY <3>1, <4>1, RequestShape DEF Registered
    <3>3. experiments[receipt.experiment].stage \in Stages
      BY <1>1, <3>2, ExperimentShape
    <3> QED BY <1>1, <3>1, <3>3 DEF Goto, LocalTypeOK
  <2> QED BY <2>1, <2>2
<1>7. ASSUME NEW c \in Callers, RejectReceipt(c) PROVE LocalTypeOK'
  BY <1>1, <1>7, FinishType DEF RejectReceipt
<1>8. ASSUME NEW c \in Callers, Register(c) \/ AdvanceExperiment(c) PROVE LocalTypeOK'
  BY <1>1, <1>8, FinishType DEF Register, AdvanceExperiment
<1>9. ASSUME NEW c \in Callers, Conflict(c) PROVE LocalTypeOK'
  BY <1>1, <1>9 DEF Conflict, Goto, LocalTypeOK
<1>10. ASSUME NEW c \in Callers, Reread(c) PROVE LocalTypeOK'
  BY <1>1, <1>10, FinishType, ReplayType DEF Reread
<1> QED BY <1>2, <1>3, <1>4, <1>5, <1>6, <1>7, <1>8, <1>9, <1>10 DEF Next

LEMMA TypeStep ==
    ASSUME Inv, [Next]_vars
    PROVE  TypeOK'
<1>1. CASE Next
  BY <1>1, RegistryTypeStep, LocalTypeStep DEF TypeOK, RegistryTypeOK, LocalTypeOK
<1>2. CASE UNCHANGED vars
  BY <1>2 DEF Inv, vars, registry, local, TypeOK
<1> QED BY <1>1, <1>2

THEOREM Invariance == Spec => []Inv
<1>1. Inv /\ [Next]_vars => Inv'
  BY TypeStep, CallersStep, LineageStep, ChainStep DEF Inv
<1> QED BY InitInv, <1>1, PTL DEF Spec

\* The registry and the callers stay well typed, whatever the callers do.
THEOREM TypeCorrect == Spec => []TypeOK
<1>1. Inv => TypeOK BY DEF Inv
<1> QED BY Invariance, <1>1, PTL

\* The strategies in force form one chain that ends in the active one.
THEOREM ChainCorrect == Spec => []PromotedFormChain
<1>1. Inv => PromotedFormChain BY DEF Inv
<1> QED BY Invariance, <1>1, PTL
-----------------------------------------------------------------------------
(* The registry implements StrategyStack.                                  *)

TakenBack(x) ==
    \E n \in DOMAIN activations : activations[n].previous = x
                                  /\ activations[n].kind = "rollback"

Retired == {x \in Registered : experiments[x].stage = "rolled_back" /\ TakenBack(x)}

\* Only an experiment that ended may have been taken back.
TakenBackEnded ==
    \A x : TakenBack(x) => x \in Registered /\ experiments[x].stage = "rolled_back"

\* The strategies in force number the versions up to the active one, one each.
VersionsCount ==
    /\ IsFiniteSet(InForce) /\ Cardinality(InForce) = Version(Active)
    /\ \A x \in InForce : Version(x) \in 1..Version(Active)
    /\ \A n \in 1..Version(Active) : \E x \in InForce : Version(x) = n
    /\ \A x, y \in InForce : Version(x) = Version(y) => x = y

StackInv == Inv /\ TakenBackEnded /\ VersionsCount

\* What a step does to the strategies in force: nothing, push or pop.
Kept == InForce' = InForce /\ Active' = Active /\ Retired' = Retired

Pushed(x) ==
    /\ x \in Registered /\ x \notin InForce /\ x \notin Retired
    /\ Version(x) = Version(Active) + 1
    /\ InForce' = InForce \cup {x} /\ Active' = x /\ Retired' = Retired

Popped(x, below) ==
    /\ x = Active /\ x \in InForce /\ below \in InForce \ {x}
    /\ Version(x) = Version(below) + 1
    /\ InForce' = InForce \ {x} /\ Active' = below /\ Retired' = Retired \cup {x}

\* No version ever changes.
LEMMA VersionKept ==
    ASSUME Inv, Next, NEW x \in Registered \cup {Root}
    PROVE  Version(x)' = Version(x)
<1>1. CASE x = Root BY <1>1 DEF Version
<1>2. CASE x # Root /\ UNCHANGED registry BY <1>2 DEF registry, Version
<1>3. ASSUME NEW c \in Callers, Register(c), x # Root PROVE Version(x)' = Version(x)
  <2>1. \E y \in Candidates : /\ y \notin Registered
                              /\ \A z \in Candidates \ {y} : experiments'[z] = experiments[z]
    BY <1>3, RegisterExperiments
  <2>2. experiments'[x] = experiments[x] BY <1>3, <2>1 DEF Registered
  <2> QED BY <1>3, <2>2 DEF Version
<1>4. ASSUME NEW c \in Callers, AdvanceExperiment(c), x # Root PROVE Version(x)' = Version(x)
  <2>1. experiments'[x].version = experiments[x].version
    BY <1>4, AdvanceExperiments
  <2> QED BY <1>4, <2>1 DEF Version
<1> QED BY <1>1, <1>2, <1>3, <1>4, RegistryStep

LEMMA RegisterKeeps ==
    ASSUME Inv, TakenBackEnded, NEW c \in Callers, Register(c)
    PROVE  TakenBackEnded' /\ Kept
<1>1. PICK x \in Candidates :
          /\ x \notin Registered /\ Registered' = Registered \cup {x}
          /\ Promoted' = Promoted /\ Active' = Active
          /\ \A y \in Candidates \ {x} : experiments'[y] = experiments[y]
  BY RegisterExperiments
<1>2. activations' = activations BY RegisterEffect
<1>3. \A y : TakenBack(y)' <=> TakenBack(y) BY <1>2 DEF TakenBack
<1>4. \A y \in Registered : y \in Registered' /\ experiments'[y] = experiments[y]
  BY <1>1 DEF Registered
<1>5. ~TakenBack(x) BY <1>1 DEF TakenBackEnded
<1>6. Retired' = Retired BY <1>1, <1>3, <1>4, <1>5 DEF Retired
<1>7. TakenBackEnded' BY <1>3, <1>4 DEF TakenBackEnded
<1>8. InForce' = InForce BY <1>1 DEF InForce
<1> QED BY <1>1, <1>6, <1>7, <1>8 DEF Kept

LEMMA AdvanceKinds ==
    ASSUME Inv, TakenBackEnded, NEW c \in Callers, AdvanceExperiment(c)
    PROVE  /\ TakenBackEnded'
           /\ Kept \/ (\E x : Pushed(x)) \/ (\E x, below : Popped(x, below))
<1>1. PICK x \in Registered, edge \in Edges :
          /\ experiments[x].stage = edge[1]
          /\ experiments' = [experiments EXCEPT ![x].stage = edge[2]]
          /\ \/ /\ edge = <<"canary", "promoted">>
                /\ Active = experiments[x].baseline
                /\ activations' = Append(activations, [strategy |-> x,
                       previous |-> experiments[x].baseline, kind |-> "promotion"])
             \/ /\ edge = <<"promoted", "rolled_back">>
                /\ Active = x
                /\ activations' = Append(activations, [strategy |-> experiments[x].baseline,
                       previous |-> x, kind |-> "rollback"])
             \/ /\ edge[1] # "promoted" /\ edge[2] # "promoted"
                /\ activations' = activations
  BY AdvanceEffect
<1>2. /\ Registered' = Registered
      /\ activations \in Seq(Activation) /\ PromotedFormChain /\ LineageIsSound
      /\ experiments \in [Candidates -> Experiment \cup {None}]
  BY AdvanceExperiments DEF Inv, TypeOK
<1>3. /\ x \in Candidates /\ x # Root /\ experiments[x] \in Experiment
      /\ experiments[x].baseline \in Candidates \cup {Root}
  BY RootAssumption, ExperimentShape DEF Inv, Registered
<1>4. /\ experiments'[x].stage = edge[2]
      /\ \A y \in Registered \ {x} : experiments'[y] = experiments[y]
  BY <1>1, <1>2, <1>3 DEF Registered, Experiment
<1>5. CASE edge = <<"canary", "promoted">>
  <2> DEFINE a == [strategy |-> x, previous |-> experiments[x].baseline, kind |-> "promotion"]
  <2>1. activations' = Append(activations, a) /\ Active = experiments[x].baseline
    BY <1>1, <1>5
  <2>2. a \in Activation BY <1>3 DEF Activation
  <2>3. Active' = x BY <1>2, <2>1, <2>2, ActiveAfterAppend
  <2>4. \A y : TakenBack(y)' <=> TakenBack(y)
    <3>1. a.kind # "rollback" OBVIOUS
    <3> HIDE DEF a
    <3> QED BY <1>2, <2>1, <2>2, <3>1 DEF TakenBack
  <2>5. ~TakenBack(x) BY <1>1, <1>5 DEF TakenBackEnded
  <2>6. TakenBackEnded' BY <1>2, <1>4, <2>4, <2>5 DEF TakenBackEnded
  <2>7. Retired' = Retired /\ x \notin Retired
    BY <1>2, <1>4, <2>4, <2>5 DEF Retired
  <2>8. x \notin InForce BY <1>1, <1>3, <1>5 DEF InForce, Promoted
  <2>9. InForce' = InForce \cup {x}
    BY <1>2, <1>4, <1>5, <2>8 DEF InForce, Promoted
  <2>10. Version(x) = Version(Active) + 1
    BY <1>2, <1>3, <2>1 DEF LineageIsSound, Version
  <2> QED BY <1>3, <2>3, <2>6, <2>7, <2>8, <2>9, <2>10 DEF Pushed
<1>6. CASE edge = <<"promoted", "rolled_back">>
  <2> DEFINE below == experiments[x].baseline
             a == [strategy |-> below, previous |-> x, kind |-> "rollback"]
  <2>1. activations' = Append(activations, a) /\ Active = x BY <1>1, <1>6
  <2>2. a \in Activation BY <1>3 DEF Activation
  <2>3. Active' = below BY <1>2, <2>1, <2>2, ActiveAfterAppend
  <2>4. \A y : TakenBack(y)' <=> TakenBack(y) \/ y = x
    <3>1. a.kind = "rollback" /\ a.previous = x OBVIOUS
    <3> HIDE DEF a
    <3> QED BY <1>2, <2>1, <2>2, <3>1 DEF TakenBack
  <2>5. TakenBackEnded' BY <1>2, <1>4, <1>6, <2>4 DEF TakenBackEnded
  <2>6. Retired' = Retired \cup {x} BY <1>2, <1>4, <1>6, <2>4 DEF Retired
  <2>7. x \in InForce /\ below \in InForce \ {x}
    BY <1>1, <1>2, <1>6, <2>1 DEF PromotedFormChain, InForce, Promoted
  <2>8. InForce' = InForce \ {x}
    BY <1>2, <1>3, <1>4, <1>6 DEF InForce, Promoted
  <2>9. Version(x) = Version(below) + 1
    BY <1>2, <1>3 DEF LineageIsSound, Version
  <2> HIDE DEF below
  <2> QED BY <2>1, <2>3, <2>5, <2>6, <2>7, <2>8, <2>9 DEF Popped
<1>7. CASE edge[1] # "promoted" /\ edge[2] # "promoted"
  <2>1. activations' = activations BY <1>1, <1>7
  <2>2. \A y : TakenBack(y)' <=> TakenBack(y) BY <2>1 DEF TakenBack
  <2>3. edge[1] # "rolled_back" BY DEF Edges
  <2>4. ~TakenBack(x) BY <1>1, <2>3 DEF TakenBackEnded
  <2>5. TakenBackEnded' BY <1>2, <1>4, <2>2, <2>4 DEF TakenBackEnded
  <2>6. Retired' = Retired BY <1>2, <1>4, <2>2, <2>4 DEF Retired
  <2>7. InForce' = InForce BY <1>1, <1>2, <1>4, <1>7 DEF InForce, Promoted
  <2>8. Active' = Active BY <2>1 DEF Active
  <2> QED BY <2>5, <2>6, <2>7, <2>8 DEF Kept
<1> QED BY <1>1, <1>5, <1>6, <1>7

LEMMA StepKinds ==
    ASSUME Inv, TakenBackEnded, [Next]_vars
    PROVE  /\ TakenBackEnded'
           /\ Kept \/ (\E x : Pushed(x)) \/ (\E x, below : Popped(x, below))
           /\ \A x \in Registered \cup {Root} : Version(x)' = Version(x)
<1>1. ASSUME UNCHANGED registry PROVE TakenBackEnded' /\ Kept
  BY <1>1 DEF registry, TakenBackEnded, TakenBack, Kept, InForce, Promoted, Registered,
              Active, Retired
<1>2. CASE UNCHANGED vars
  <2>1. UNCHANGED registry BY <1>2 DEF vars
  <2>2. \A x \in Registered \cup {Root} : Version(x)' = Version(x)
    BY <2>1 DEF registry, Version
  <2> QED BY <1>1, <2>1, <2>2
<1>3. CASE Next
  <2>1. \A x \in Registered \cup {Root} : Version(x)' = Version(x)
    BY <1>3, VersionKept
  <2> QED BY <1>1, <1>3, <2>1, RegistryStep, RegisterKeeps, AdvanceKinds
<1> QED BY <1>2, <1>3

LEMMA StackInit == Init => StackInv
<1> SUFFICES ASSUME Init PROVE StackInv OBVIOUS
<1>1. Inv BY InitInv
<1>2. activations = <<[strategy |-> Root, previous |-> None, kind |-> "bootstrap"]>>
  BY DEF Init
<1>3. Active = Root /\ \A x : ~TakenBack(x) BY <1>2 DEF Active, TakenBack
<1>4. InForce = {Root} /\ Version(Root) = 1
  BY DEF Init, InForce, Promoted, Registered, Version
<1>5. IsFiniteSet({Root}) /\ Cardinality({Root}) = 1 BY FS_Singleton
<1>6. VersionsCount BY <1>3, <1>4, <1>5 DEF VersionsCount
<1>7. TakenBackEnded BY <1>3 DEF TakenBackEnded
<1> QED BY <1>1, <1>6, <1>7 DEF StackInv

\* Pushing numbers the new strategy next, popping frees the highest number.
LEMMA StackStep ==
    ASSUME StackInv, [Next]_vars
    PROVE  StackInv'
<1>1. Inv /\ TakenBackEnded /\ VersionsCount BY DEF StackInv
<1>2. Inv' BY <1>1, TypeStep, CallersStep, LineageStep, ChainStep DEF Inv
<1>3. /\ TakenBackEnded'
      /\ Kept \/ (\E x : Pushed(x)) \/ (\E x, below : Popped(x, below))
      /\ \A x \in Registered \cup {Root} : Version(x)' = Version(x)
  BY <1>1, StepKinds
<1>4. PICK top, height : top = Active /\ height = Version(top) /\ height \in Nat \ {0}
  BY <1>1, ActiveKnown
<1>5. /\ top \in InForce /\ IsFiniteSet(InForce) /\ Cardinality(InForce) = height
      /\ \A x \in InForce : Version(x) \in 1..height
      /\ \A n \in 1..height : \E x \in InForce : Version(x) = n
      /\ \A x, y \in InForce : Version(x) = Version(y) => x = y
  BY <1>1, <1>4, ActiveKnown DEF VersionsCount
<1>6. \A x \in InForce : x \in Registered \cup {Root} /\ Version(x)' = Version(x)
  BY <1>3 DEF InForce, Promoted
<1>7. VersionsCount'
  <2>1. CASE Kept
    <3>1. Version(Active)' = height BY <1>4, <1>5, <1>6, <2>1 DEF Kept, Version
    <3> QED BY <1>5, <1>6, <2>1, <3>1 DEF Kept, VersionsCount
  <2>2. ASSUME NEW x, Pushed(x) PROVE VersionsCount'
    <3>1. /\ x \notin InForce /\ Active' = x /\ InForce' = InForce \cup {x}
          /\ Version(x)' = height + 1
      BY <1>3, <1>4, <2>2 DEF Pushed
    <3>2. Version(Active)' = height + 1 BY <3>1 DEF Version
    <3>3. IsFiniteSet(InForce)' /\ Cardinality(InForce)' = height + 1
      BY <1>5, <3>1, FS_AddElement
    <3>4. \A y \in InForce' : Version(y)' \in 1..(height + 1)
      BY <1>4, <1>5, <1>6, <3>1
    <3>5. ASSUME NEW n \in 1..(height + 1) PROVE \E y \in InForce' : Version(y)' = n
      <4>1. CASE n = height + 1 BY <3>1, <4>1
      <4>2. CASE n # height + 1
        <5>1. n \in 1..height BY <1>4, <4>2
        <5> QED BY <1>5, <1>6, <3>1, <5>1
      <4> QED BY <4>1, <4>2
    <3>6. ASSUME NEW y \in InForce', NEW z \in InForce', Version(y)' = Version(z)'
          PROVE  y = z
      <4>1. \A u \in InForce : Version(u)' # height + 1 BY <1>4, <1>5, <1>6
      <4>2. CASE y = x \/ z = x BY <3>1, <3>6, <4>1, <4>2
      <4>3. CASE y # x /\ z # x BY <1>5, <1>6, <3>1, <3>6, <4>3
      <4> QED BY <4>2, <4>3
    <3> QED BY <3>2, <3>3, <3>4, <3>5, <3>6 DEF VersionsCount
  <2>3. ASSUME NEW x, NEW below, Popped(x, below) PROVE VersionsCount'
    <3>1. /\ x = top /\ x \in InForce /\ below \in InForce /\ below # x
          /\ Active' = below /\ InForce' = InForce \ {x}
          /\ height = Version(below) + 1
      BY <1>4, <2>3 DEF Popped
    <3>2. PICK n \in Nat \ {0} : n = Version(below) BY <1>5, <3>1
    <3>3. height = n + 1 BY <3>1, <3>2
    <3>4. Version(Active)' = n BY <1>6, <3>1, <3>2 DEF Version
    <3>5. IsFiniteSet(InForce)' /\ Cardinality(InForce)' = n
      <4>1. IsFiniteSet(InForce \ {x}) /\ Cardinality(InForce \ {x}) = height - 1
        BY <1>5, <3>1, FS_RemoveElement
      <4> QED BY <3>1, <3>3, <4>1
    <3>6. ASSUME NEW y \in InForce' PROVE Version(y)' \in 1..n
      <4>1. y \in InForce /\ y # top BY <3>1
      <4>2. Version(y) \in 1..height /\ Version(y) # height BY <1>4, <1>5, <4>1
      <4> QED BY <1>6, <3>3, <4>1, <4>2
    <3>7. ASSUME NEW m \in 1..n PROVE \E y \in InForce' : Version(y)' = m
      <4>1. m \in 1..height /\ m # height BY <3>3
      <4>2. PICK y \in InForce : Version(y) = m BY <1>5, <4>1
      <4>3. y # x BY <1>4, <3>1, <4>1, <4>2
      <4> QED BY <1>6, <3>1, <4>2, <4>3
    <3>8. \A y, z \in InForce' : Version(y)' = Version(z)' => y = z
      BY <1>5, <1>6, <3>1
    <3> QED BY <3>4, <3>5, <3>6, <3>7, <3>8 DEF VersionsCount
  <2> QED BY <1>3, <2>1, <2>2, <2>3
<1> QED BY <1>2, <1>3, <1>7 DEF StackInv

THEOREM StackInvariance == Spec => []StackInv
<1>1. StackInv /\ [Next]_vars => StackInv' BY StackStep
<1> QED BY StackInit, <1>1, PTL DEF Spec

\* The strategies in force, by version.
Stack == [n \in 1..Cardinality(InForce) |-> AtVersion(n)]

\* Stack lists the strategies in force, each at its version.
StackIsSound ==
    /\ Cardinality(InForce) = Version(Active) /\ Version(Active) \in Nat \ {0}
    /\ Active \in InForce
    /\ Stack \in [1..Version(Active) -> InForce]
    /\ \A x \in InForce : Version(x) \in 1..Version(Active) /\ Stack[Version(x)] = x
    /\ \A n \in 1..Version(Active) : Version(Stack[n]) = n

LEMMA StackShape == StackInv => StackIsSound
<1> SUFFICES ASSUME StackInv PROVE StackIsSound OBVIOUS
<1>1. VersionsCount /\ Active \in InForce /\ Version(Active) \in Nat \ {0}
  BY ActiveKnown DEF StackInv
<1> DEFINE height == Version(Active)
<1>2. \A x \in InForce : Version(x) \in 1..height /\ AtVersion(Version(x)) = x
  <2> SUFFICES ASSUME NEW x \in InForce
               PROVE  Version(x) \in 1..height /\ AtVersion(Version(x)) = x
    OBVIOUS
  <2>1. {y \in InForce : Version(y) = Version(x)} = {x} BY <1>1 DEF VersionsCount
  <2>2. Version(x) \in 1..height BY <1>1 DEF VersionsCount
  <2> QED BY <2>1, <2>2 DEF AtVersion
<1>3. \A n \in 1..height : AtVersion(n) \in InForce /\ Version(AtVersion(n)) = n
  BY <1>1, <1>2 DEF VersionsCount
<1>4. Cardinality(InForce) = height BY <1>1 DEF VersionsCount
<1>5. Stack = [n \in 1..height |-> AtVersion(n)] BY <1>4 DEF Stack
<1> HIDE DEF height
<1>6. /\ Stack \in [1..height -> InForce]
      /\ \A n \in 1..height : Stack[n] = AtVersion(n)
  BY <1>3, <1>5
<1> QED BY <1>1, <1>2, <1>3, <1>4, <1>6 DEF height, StackIsSound

LEMMA KeepRefines ==
    ASSUME StackIsSound, StackIsSound', Kept,
           \A y \in Registered \cup {Root} : Version(y)' = Version(y)
    PROVE  Stack' = Stack /\ Retired' = Retired
<1>1. InForce' = InForce /\ Active' = Active /\ Retired' = Retired BY DEF Kept
<1>2. \A y \in InForce : Version(y)' = Version(y) BY DEF InForce, Promoted
<1>3. PICK n \in Nat : n = Version(Active) BY DEF StackIsSound
<1>4. Version(Active)' = n
  <2>1. Active \in InForce BY DEF StackIsSound
  <2>2. Version(Active)' = Version(Active) BY <1>1, <1>2, <2>1 DEF Version
  <2> QED BY <1>3, <2>2
<1>5. /\ Stack \in [1..n -> InForce] /\ \A m \in 1..n : Version(Stack[m]) = m
      /\ Stack' \in [1..n -> InForce] /\ \A y \in InForce : Stack'[Version(y)'] = y
  BY <1>1, <1>3, <1>4 DEF StackIsSound
<1>6. \A m \in 1..n : Stack'[m] = Stack[m] BY <1>2, <1>5
<1>7. Stack \in [1..n -> InForce] /\ Stack' \in [1..n -> InForce] BY <1>5
<1> HIDE DEF Stack
<1>8. Stack' = Stack
  <2>1. Stack' = [m \in 1..n |-> Stack'[m]] BY <1>7
  <2>2. Stack = [m \in 1..n |-> Stack[m]] BY <1>7
  <2> QED BY <1>6, <2>1, <2>2
<1> QED BY <1>1, <1>8

LEMMA PushRefines ==
    ASSUME StackIsSound, StackIsSound', NEW x, Pushed(x),
           \A y \in Registered \cup {Root} : Version(y)' = Version(y)
    PROVE  /\ x \in Candidates /\ x \notin Retired /\ Retired' = Retired
           /\ \A n \in DOMAIN Stack : Stack[n] # x
           /\ Stack' = Append(Stack, x)
<1>1. /\ x \in Candidates /\ x \notin InForce /\ x \notin Retired
      /\ Active' = x /\ InForce' = InForce \cup {x} /\ Retired' = Retired
      /\ Version(x)' = Version(Active) + 1
  BY DEF Pushed, Registered
<1>2. PICK n \in Nat : n = Version(Active) BY DEF StackIsSound
<1>3. Version(Active)' = n + 1 BY <1>1, <1>2 DEF Version
<1>4. /\ Stack \in [1..n -> InForce] /\ \A m \in 1..n : Version(Stack[m]) = m
      /\ Stack' \in [1..(n + 1) -> InForce \cup {x}]
      /\ \A y \in InForce \cup {x} : Stack'[Version(y)'] = y
  BY <1>1, <1>2, <1>3 DEF StackIsSound
<1>5. \A y \in InForce : Version(y)' = Version(y) BY DEF InForce, Promoted
<1>6. \A m \in 1..n : Stack'[m] = Stack[m] BY <1>4, <1>5
<1>7. Stack'[n + 1] = x BY <1>1, <1>2, <1>4
<1>8. Stack \in [1..n -> InForce \cup {x}] BY <1>4
<1> HIDE DEF Stack
<1>9. Stack' = Append(Stack, x) BY <1>4, <1>6, <1>7, <1>8, LongerIsAppend
<1> QED BY <1>1, <1>4, <1>9

LEMMA PopRefines ==
    ASSUME StackIsSound, StackIsSound', NEW x, NEW below, Popped(x, below),
           \A y \in Registered \cup {Root} : Version(y)' = Version(y)
    PROVE  /\ Len(Stack) > 1 /\ Stack[Len(Stack)] = x /\ Retired' = Retired \cup {x}
           /\ Stack' = SubSeq(Stack, 1, Len(Stack) - 1)
<1>1. /\ x = Active /\ x \in InForce /\ below \in InForce \ {x}
      /\ Active' = below /\ InForce' = InForce \ {x} /\ Retired' = Retired \cup {x}
      /\ Version(x) = Version(below) + 1
  BY DEF Popped
<1>2. PICK n \in Nat \ {0} : n = Version(below) BY <1>1 DEF StackIsSound
<1>3. \A y \in InForce : Version(y)' = Version(y) BY DEF InForce, Promoted
<1>4. Version(Active)' = n /\ Version(Active) = n + 1
  BY <1>1, <1>2, <1>3 DEF Version
<1>5. /\ Stack \in [1..(n + 1) -> InForce]
      /\ \A y \in InForce : Stack[Version(y)] = y
      /\ Stack' \in [1..n -> InForce \ {x}] /\ \A m \in 1..n : Version(Stack[m])' = m
  BY <1>1, <1>4 DEF StackIsSound
<1>6. \A m \in 1..n : Stack'[m] = Stack[m]
  <2> SUFFICES ASSUME NEW m \in 1..n PROVE Stack'[m] = Stack[m]
    OBVIOUS
  <2>1. PICK y \in InForce : y = Stack'[m] BY <1>5
  <2>2. Version(y)' = m BY <1>5, <2>1 DEF Version
  <2> QED BY <1>3, <1>5, <2>1, <2>2
<1>7. Stack[n + 1] = x BY <1>1, <1>4, <1>5
<1>8. Stack' \in [1..n -> InForce] BY <1>5
<1> HIDE DEF Stack
<1>9. Len(Stack) = n + 1 /\ Stack' = SubSeq(Stack, 1, Len(Stack) - 1)
  BY <1>5, <1>6, <1>8, ShorterIsSubSeq
<1> QED BY <1>1, <1>7, <1>9

\* Every step of the registry is a promotion or a rollback of StrategyStack, or
\* does not show: no race lets a rollback restore anything but what the
\* promotion replaced, or a strategy that was taken back return.
THEOREM Refinement == Spec => ImplementsStrategyStack
<1>1. Init => Abstract!Init
  <2> SUFFICES ASSUME Init PROVE Abstract!Init OBVIOUS
  <2>1. Registered = {} BY DEF Init, Registered
  <2>2. StackIsSound BY StackInit, StackShape
  <2>3. InForce = {Root} /\ Active = Root /\ Version(Root) = 1
    BY <2>1 DEF Init, InForce, Promoted, Active, Version
  <2>4. Stack = <<Root>>
    <3>1. /\ Stack \in [1..1 -> {Root}]
      BY <2>2, <2>3 DEF StackIsSound
    <3>2. Stack \in Seq({Root}) /\ Len(Stack) = 1 BY <3>1, FunctionIsSequence
    <3>3. Stack[1] = Root BY <3>1
    <3> QED BY <3>2, <3>3
  <2> QED BY <2>1, <2>4 DEF Abstract!Init, Stack
<1>2. StackInv /\ StackIsSound /\ StackIsSound' /\ [Next]_vars
          => [Abstract!Next]_(Abstract!vars)
  <2> SUFFICES ASSUME StackInv, StackIsSound, StackIsSound', [Next]_vars
               PROVE  [Abstract!Next]_(Abstract!vars)
    OBVIOUS
  <2>1. /\ Kept \/ (\E x : Pushed(x)) \/ (\E x, below : Popped(x, below))
        /\ \A x \in Registered \cup {Root} : Version(x)' = Version(x)
    BY StepKinds DEF StackInv
  <2>2. CASE Kept
    <3>1. Stack' = Stack /\ Retired' = Retired BY <2>1, <2>2, KeepRefines
    <3> QED BY <3>1 DEF Abstract!vars, Stack, Retired, TakenBack
  <2>3. ASSUME NEW x, Pushed(x) PROVE Abstract!Next
    <3>1. /\ x \in Candidates /\ x \notin Retired /\ Retired' = Retired
          /\ \A n \in DOMAIN Stack : Stack[n] # x
          /\ Stack' = Append(Stack, x)
      BY <2>1, <2>3, PushRefines
    <3>2. Abstract!Promote(x)
      BY <3>1 DEF Abstract!Promote, Stack, Retired, TakenBack
    <3> QED BY <3>1, <3>2 DEF Abstract!Next
  <2>4. ASSUME NEW x, NEW below, Popped(x, below) PROVE Abstract!Next
    <3>1. /\ Len(Stack) > 1 /\ Stack[Len(Stack)] = x /\ Retired' = Retired \cup {x}
          /\ Stack' = SubSeq(Stack, 1, Len(Stack) - 1)
      BY <2>1, <2>4, PopRefines
    <3>2. Abstract!Rollback
      BY <3>1 DEF Abstract!Rollback, Abstract!Active, Stack, Retired, TakenBack
    <3> QED BY <3>2 DEF Abstract!Next
  <2> QED BY <2>1, <2>2, <2>3, <2>4
<1>3. StackInv => StackIsSound BY StackShape
<1> QED BY <1>1, <1>2, <1>3, StackInvariance, PTL
        DEF Spec, ImplementsStrategyStack, Abstract!Spec

-----------------------------------------------------------------------------
(* Evidence. *)

\* A caller that reached the registry holds a receipt that decides its edge.
ReceiptsDecide ==
    \A c \in Callers : pc[c] = "store" /\ request[c].op = "advance" =>
        Authorizes(request[c].receipt)

\* Evidence is finite: each transition was recorded by a step.
Recorded == {k \in Keys : transitions[k] # None}

Reached(x) == {transitions[k].to : k \in TrailOf(x)}
Left(x) == {transitions[k].from : k \in TrailOf(x)}

\* Every edge leads to a stage of a higher rank, so no stage is reached twice.
Rank(stage) ==
    CASE stage = "proposed" -> 0
      [] stage = "offline_passed" -> 1
      [] stage = "shadow" -> 2
      [] stage = "canary" -> 3
      [] stage = "promoted" -> 4
      [] OTHER -> 5

Ascending(x) ==
    experiments[x] # None =>
        \A stage \in Reached(x) : Rank(stage) <= Rank(experiments[x].stage)

\* EvidenceTrail, for one experiment.
Unforked(x) ==
    /\ None \in Left(x) /\ Left(x) \ {None} = Reached(x) \ {experiments[x].stage}
    /\ experiments[x].stage \in Reached(x)
    /\ Cardinality(Reached(x)) = Cardinality(TrailOf(x))
    /\ Cardinality(Left(x)) = Cardinality(TrailOf(x))

Decided(x) ==
    \A k \in TrailOf(x) : transitions[k].from # None =>
        LET receipt == transitions[k].request.receipt
        IN  /\ receipt.experiment = x
            /\ receipt.edge = <<transitions[k].from, transitions[k].to>>
            /\ Authorizes(receipt)

TrailIsComplete(x) ==
    IF experiments[x] = None THEN TrailOf(x) = {} ELSE Unforked(x) /\ Decided(x)

LEMMA TrailPerExperiment == EvidenceTrail <=> \A x \in Candidates : TrailIsComplete(x)
  BY DEF EvidenceTrail, TrailIsComplete, Unforked, Decided, Reached, Left

\* The transitions that change the active strategy.
Changing == {k \in Keys :
    transitions[k] # None /\ "promoted" \in {transitions[k].from, transitions[k].to}}

\* A candidate that was promoted is promoted still or was rolled back.
PromotionsLast ==
    \A n \in DOMAIN activations : activations[n].kind = "promotion" =>
        LET x == activations[n].strategy
        IN  x \in Registered /\ experiments[x].stage \in {"promoted", "rolled_back"}

LogIsSound ==
    /\ \A n \in 2..Len(activations) : activations[n].previous = activations[n-1].strategy
    /\ Len(activations) = 1 + Cardinality(Changing)
    /\ \A m, n \in DOMAIN activations :
           activations[m].kind = "promotion" /\ activations[n].kind = "promotion"
           /\ activations[m].strategy = activations[n].strategy => m = n

\* A strategy that was taken back is not active again after it.
NeverReturns ==
    \A m, n \in DOMAIN activations :
        activations[m].kind = "rollback" /\ m < n
        => activations[n].strategy # activations[m].previous

EvidenceInv ==
    /\ Inv
    /\ TakenBackEnded
    /\ NeverReturns
    /\ ReceiptsDecide
    /\ IsFiniteSet(Recorded)
    /\ \A x \in Candidates : TrailIsComplete(x) /\ Ascending(x)
    /\ LogIsSound
    /\ PromotionsLast

\* A step that adds one transition.
Records(key, row) ==
    /\ key \in Keys /\ row \in Transition
    /\ transitions[key] = None
    /\ transitions' = [transitions EXCEPT ![key] = row]

LEMMA EdgesAscend ==
    ASSUME NEW edge \in Edges
    PROVE  /\ Rank(edge[1]) \in Nat /\ Rank(edge[2]) \in Nat
           /\ Rank(edge[1]) < Rank(edge[2])
           /\ edge[1] \in Stages /\ edge[2] \in Stages
           /\ edge = <<edge[1], edge[2]>>
  BY DEF Edges, Rank, Stages

LEMMA RankIsNatural == \A stage : Rank(stage) \in Nat
  BY DEF Rank

\* A new record extends the trail of its experiment and leaves the others.
LEMMA TrailGrows ==
    ASSUME TypeOK, NEW key, NEW row, Records(key, row), NEW x
    PROVE  /\ row.experiment = x =>
                  /\ TrailOf(x)' = TrailOf(x) \cup {key}
                  /\ Reached(x)' = Reached(x) \cup {row.to}
                  /\ Left(x)' = Left(x) \cup {row.from}
           /\ row.experiment # x =>
                  TrailOf(x)' = TrailOf(x) /\ Reached(x)' = Reached(x) /\ Left(x)' = Left(x)
           /\ key \notin TrailOf(x)
           /\ \A k \in TrailOf(x) : transitions'[k] = transitions[k]
           /\ transitions'[key] = row
<1>1. key \in Keys /\ row # None BY NoneAssumption DEF Records
<1>2. transitions'[key] = row /\ \A k \in Keys \ {key} : transitions'[k] = transitions[k]
  BY DEF TypeOK, Records
<1>3. key \notin TrailOf(x) BY DEF TrailOf, Records
<1>4. \A k \in TrailOf(x) : transitions'[k] = transitions[k] BY <1>2, <1>3 DEF TrailOf
<1>5. row.experiment = x => TrailOf(x)' = TrailOf(x) \cup {key}
  BY <1>1, <1>2, <1>3 DEF TrailOf
<1>6. row.experiment # x => TrailOf(x)' = TrailOf(x)
  BY <1>1, <1>2, <1>3 DEF TrailOf
<1>7. row.experiment = x => /\ Reached(x)' = Reached(x) \cup {row.to}
                            /\ Left(x)' = Left(x) \cup {row.from}
  BY <1>2, <1>4, <1>5 DEF Reached, Left
<1>8. row.experiment # x => Reached(x)' = Reached(x) /\ Left(x)' = Left(x)
  BY <1>4, <1>6 DEF Reached, Left
<1> QED BY <1>2, <1>3, <1>4, <1>5, <1>6, <1>7, <1>8

\* The trails of the experiments a record is not about.
LEMMA OtherTrails ==
    ASSUME TypeOK, NEW key, NEW row, Records(key, row), NEW x \in Candidates,
           row.experiment # x, experiments'[x] = experiments[x],
           TrailIsComplete(x), Ascending(x)
    PROVE  TrailIsComplete(x)' /\ Ascending(x)'
<1>1. /\ TrailOf(x)' = TrailOf(x) /\ Reached(x)' = Reached(x) /\ Left(x)' = Left(x)
      /\ \A k \in TrailOf(x) : transitions'[k] = transitions[k]
  BY TrailGrows
<1>2. Ascending(x)' BY <1>1 DEF Ascending
<1>3. Unforked(x)' <=> Unforked(x) BY <1>1 DEF Unforked
<1>4. Decided(x)' <=> Decided(x) BY <1>1 DEF Decided, Authorizes
<1> QED BY <1>1, <1>2, <1>3, <1>4 DEF TrailIsComplete

\* Sizes of trails.
LEMMA TrailsAreFinite ==
    ASSUME IsFiniteSet(Recorded), NEW x
    PROVE  /\ IsFiniteSet(TrailOf(x)) /\ IsFiniteSet(Reached(x)) /\ IsFiniteSet(Left(x))
           /\ Cardinality(TrailOf(x)) \in Nat
<1>1. IsFiniteSet(TrailOf(x))
  <2>1. TrailOf(x) \subseteq Recorded BY DEF TrailOf, Recorded
  <2> QED BY <2>1, FS_Subset
<1>2. PICK S : S = TrailOf(x) OBVIOUS
<1>3. IsFiniteSet(Reached(x))
  <2>1. PICK f : f = [k \in S |-> transitions[k].to] OBVIOUS
  <2>2. Reached(x) = {f[k] : k \in S} BY <1>2, <2>1 DEF Reached
  <2> QED BY <1>1, <1>2, <2>2, ImageIsFinite
<1>4. IsFiniteSet(Left(x))
  <2>1. PICK f : f = [k \in S |-> transitions[k].from] OBVIOUS
  <2>2. Left(x) = {f[k] : k \in S} BY <1>2, <2>1 DEF Left
  <2> QED BY <1>1, <1>2, <2>2, ImageIsFinite
<1> QED BY <1>1, <1>3, <1>4, FS_CardinalityType

LEMMA RecordedGrows ==
    ASSUME TypeOK, IsFiniteSet(Recorded), NEW key, NEW row, Records(key, row)
    PROVE  IsFiniteSet(Recorded')
<1>1. \A k \in Keys \ {key} : transitions'[k] = transitions[k] BY DEF TypeOK, Records
<1>2. Recorded' \subseteq Recorded \cup {key} BY <1>1 DEF Recorded
<1> QED BY <1>2, FS_AddElement, FS_Subset

\* What Register and AdvanceExperiment record.
LEMMA RegisterRecord ==
    ASSUME Inv, NEW c \in Callers, Register(c)
    PROVE  \E key, row :
               /\ Records(key, row)
               /\ row.experiment = fresh[c] /\ row.from = None /\ row.to = "proposed"
<1>1. /\ pc[c] = "store" /\ request[c].op = "propose" /\ transitions[Key(c)] = None
      /\ transitions' = [transitions EXCEPT ![Key(c)] =
            [experiment |-> fresh[c], from |-> None, to |-> "proposed",
             request |-> request[c]]]
  BY DEF Register, CanRegister
<1>2. request[c] \in Requests /\ fresh[c] \in Candidates BY <1>1 DEF Inv, CallersOK
<1>3. Key(c) \in Keys BY <1>2, RequestShape DEF Key
<1>4. [experiment |-> fresh[c], from |-> None, to |-> "proposed", request |-> request[c]]
          \in Transition
  BY <1>2 DEF Transition, Stages
<1>5. PICK key, row : key = Key(c) /\ row = [experiment |-> fresh[c], from |-> None,
                                              to |-> "proposed", request |-> request[c]]
  OBVIOUS
<1>6. Records(key, row) BY <1>1, <1>3, <1>4, <1>5 DEF Records
<1> QED BY <1>5, <1>6

LEMMA AdvanceRecord ==
    ASSUME Inv, ReceiptsDecide, NEW c \in Callers, AdvanceExperiment(c)
    PROVE  \E key, row :
               /\ Records(key, row)
               /\ row.experiment = request[c].receipt.experiment
               /\ row.from = request[c].receipt.edge[1]
               /\ row.to = request[c].receipt.edge[2]
               /\ row.request.receipt = request[c].receipt
               /\ Authorizes(row.request.receipt)
<1> DEFINE receipt == request[c].receipt
           row == [experiment |-> receipt.experiment, from |-> read[c],
                   to |-> receipt.edge[2], request |-> request[c]]
<1>1. /\ pc[c] = "store" /\ request[c].op = "advance" /\ transitions[Key(c)] = None
      /\ transitions' = [transitions EXCEPT ![Key(c)] = row]
  BY DEF AdvanceExperiment, CanAdvance
<1>2. request[c] \in Requests /\ receipt.edge[1] = read[c] BY <1>1 DEF Inv, CallersOK
<1>3. Key(c) \in Keys /\ receipt.experiment \in Candidates /\ receipt.edge \in Edges
  BY <1>1, <1>2, RequestShape DEF Key
<1>4. row \in Transition BY <1>2, <1>3, EdgesAscend DEF Transition
<1>5. Authorizes(receipt) BY <1>1 DEF ReceiptsDecide
<1>6. PICK key, new : key = Key(c) /\ new = row OBVIOUS
<1>7. Records(key, new) BY <1>1, <1>3, <1>4, <1>6 DEF Records
<1>8. /\ new.experiment = receipt.experiment /\ new.from = receipt.edge[1]
      /\ new.to = receipt.edge[2] /\ new.request.receipt = receipt
  BY <1>2, <1>6
<1> QED BY <1>5, <1>7, <1>8

\* A new experiment starts its trail.
LEMMA RegisterTrails ==
    ASSUME EvidenceInv, NEW c \in Callers, Register(c)
    PROVE  /\ \A x \in Candidates : TrailIsComplete(x)' /\ Ascending(x)'
           /\ IsFiniteSet(Recorded')
<1>1. Inv /\ TypeOK /\ IsFiniteSet(Recorded) BY DEF EvidenceInv, Inv
<1>2. PICK x \in Candidates :
          /\ experiments[x] = None /\ x = fresh[c]
          /\ experiments' = [experiments EXCEPT ![x] =
                 [baseline |-> Active, version |-> Version(Active) + 1, stage |-> "proposed"]]
  BY <1>1, RegisterEffect
<1>3. PICK key, row :
          /\ Records(key, row)
          /\ row.experiment = x /\ row.from = None /\ row.to = "proposed"
  BY <1>1, <1>2, RegisterRecord
<1>4. /\ experiments'[x].stage = "proposed"
      /\ \A y \in Candidates \ {x} : experiments'[y] = experiments[y]
  BY <1>1, <1>2 DEF TypeOK
<1>5. \A y \in Candidates \ {x} : TrailIsComplete(y)' /\ Ascending(y)'
  BY <1>1, <1>3, <1>4, OtherTrails DEF EvidenceInv
<1>6. /\ TrailOf(x)' = {key} /\ Reached(x)' = {"proposed"} /\ Left(x)' = {None}
      /\ transitions'[key] = row
  <2>1. TrailOf(x) = {} BY <1>2 DEF EvidenceInv, TrailIsComplete
  <2>2. Reached(x) = {} /\ Left(x) = {} BY <2>1 DEF Reached, Left
  <2> QED BY <1>1, <1>3, <2>1, <2>2, TrailGrows
<1>7. Unforked(x)' /\ Decided(x)'
  <2>1. \A e : Cardinality({e}) = 1 BY FS_Singleton
  <2>2. Unforked(x)' BY <1>4, <1>6, <2>1 DEF Unforked
  <2> QED BY <1>3, <1>6, <2>2 DEF Decided
<1>8. Ascending(x)' BY <1>4, <1>6, RankIsNatural DEF Ascending
<1>9. experiments'[x] # None
  <2>1. x \in Registered' BY <1>1, <1>2, RegisterExperiments
  <2> QED BY <2>1 DEF Registered
<1>10. TrailIsComplete(x)' BY <1>7, <1>9 DEF TrailIsComplete
<1>11. IsFiniteSet(Recorded') BY <1>1, <1>3, RecordedGrows
<1> QED BY <1>5, <1>8, <1>10, <1>11

\* An edge extends the trail of its experiment at the end.
LEMMA AdvanceTrails ==
    ASSUME EvidenceInv, NEW c \in Callers, AdvanceExperiment(c)
    PROVE  /\ \A x \in Candidates : TrailIsComplete(x)' /\ Ascending(x)'
           /\ IsFiniteSet(Recorded')
<1>1. Inv /\ TypeOK /\ IsFiniteSet(Recorded) /\ ReceiptsDecide BY DEF EvidenceInv, Inv
<1>2. PICK x \in Registered, edge \in Edges :
          /\ request[c].receipt.experiment = x /\ request[c].receipt.edge = edge
          /\ experiments[x].stage = edge[1]
          /\ experiments' = [experiments EXCEPT ![x].stage = edge[2]]
  BY <1>1, AdvanceEffect
<1>3. PICK key, row :
          /\ Records(key, row)
          /\ row.experiment = x /\ row.from = edge[1] /\ row.to = edge[2]
          /\ row.request.receipt = request[c].receipt
          /\ Authorizes(row.request.receipt)
  BY <1>1, <1>2, AdvanceRecord
<1>4. x \in Candidates /\ experiments[x] \in Experiment /\ experiments[x] # None
  BY <1>1, ExperimentShape DEF Registered
<1>5. /\ experiments'[x].stage = edge[2]
      /\ \A y \in Candidates \ {x} : experiments'[y] = experiments[y]
  BY <1>1, <1>2, <1>4 DEF TypeOK, Experiment
<1>6. \A y \in Candidates \ {x} : TrailIsComplete(y)' /\ Ascending(y)'
  BY <1>1, <1>3, <1>5, OtherTrails DEF EvidenceInv
<1>7. PICK trail, reached, left :
          trail = TrailOf(x) /\ reached = Reached(x) /\ left = Left(x)
  OBVIOUS
<1>8. /\ TrailOf(x)' = trail \cup {key} /\ key \notin trail
      /\ Reached(x)' = reached \cup {edge[2]} /\ Left(x)' = left \cup {edge[1]}
      /\ \A k \in trail : transitions'[k] = transitions[k]
      /\ transitions'[key] = row
  BY <1>1, <1>3, <1>7, TrailGrows
<1>9. /\ None \in left /\ left \ {None} = reached \ {edge[1]} /\ edge[1] \in reached
      /\ Cardinality(reached) = Cardinality(trail)
      /\ Cardinality(left) = Cardinality(trail)
  BY <1>2, <1>4, <1>7 DEF EvidenceInv, TrailIsComplete, Unforked
<1>10. /\ Rank(edge[1]) \in Nat /\ Rank(edge[2]) \in Nat /\ Rank(edge[1]) < Rank(edge[2])
       /\ edge[1] \in Stages /\ edge[2] \in Stages /\ edge = <<edge[1], edge[2]>>
  BY EdgesAscend
<1>11. \A stage \in reached : Rank(stage) <= Rank(edge[1])
  BY <1>2, <1>4, <1>7 DEF EvidenceInv, Ascending
<1>12. edge[2] \notin reached BY <1>10, <1>11
<1>13. edge[1] \notin left BY <1>9, <1>10, NoneAssumption
<1>14. /\ IsFiniteSet(trail) /\ IsFiniteSet(reached) /\ IsFiniteSet(left)
       /\ Cardinality(trail) \in Nat
  BY <1>1, <1>7, TrailsAreFinite
<1>15. /\ Cardinality(trail \cup {key}) = Cardinality(trail) + 1
       /\ Cardinality(reached \cup {edge[2]}) = Cardinality(reached) + 1
       /\ Cardinality(left \cup {edge[1]}) = Cardinality(left) + 1
  BY <1>8, <1>12, <1>13, <1>14, FS_AddElement
<1>16. Unforked(x)'
  <2>1. edge[1] # None /\ edge[1] # edge[2] BY <1>10, NoneAssumption
  <2>2. (left \cup {edge[1]}) \ {None} = (reached \cup {edge[2]}) \ {edge[2]}
    BY <1>9, <1>12, <2>1
  <2> QED BY <1>5, <1>8, <1>9, <1>15, <2>2 DEF Unforked
<1>17. Decided(x)'
  <2>1. Decided(x) BY <1>4 DEF EvidenceInv, TrailIsComplete
  <2>2. ASSUME NEW k \in trail \cup {key}, transitions'[k].from # None
        PROVE  LET receipt == transitions'[k].request.receipt
               IN  /\ receipt.experiment = x
                   /\ receipt.edge = <<transitions'[k].from, transitions'[k].to>>
                   /\ Authorizes(receipt)
    <3>1. CASE k = key BY <1>2, <1>3, <1>8, <1>10, <3>1
    <3>2. CASE k \in trail BY <1>7, <1>8, <2>1, <2>2, <3>2 DEF Decided
    <3> QED BY <3>1, <3>2
  <2> QED BY <1>8, <2>2 DEF Decided, Authorizes
<1>18. Ascending(x)'
  <2>1. \A stage \in reached \cup {edge[2]} : Rank(stage) <= Rank(edge[2])
    BY <1>10, <1>11, RankIsNatural
  <2> QED BY <1>5, <1>8, <2>1 DEF Ascending, Rank
<1>19. experiments'[x] # None
  <2>1. x \in Registered' BY <1>1, AdvanceExperiments
  <2> QED BY <2>1 DEF Registered
<1>20. TrailIsComplete(x)' BY <1>16, <1>17, <1>19 DEF TrailIsComplete
<1>21. IsFiniteSet(Recorded') BY <1>1, <1>3, RecordedGrows
<1> QED BY <1>6, <1>18, <1>20, <1>21

\* The activation log.

LEMMA ChangingGrows ==
    ASSUME TypeOK, IsFiniteSet(Recorded), NEW key, NEW row, Records(key, row)
    PROVE  /\ Cardinality(Changing) \in Nat
           /\ "promoted" \in {row.from, row.to} =>
                  Cardinality(Changing') = Cardinality(Changing) + 1
           /\ "promoted" \notin {row.from, row.to} => Changing' = Changing
<1>1. key \in Keys /\ row # None /\ transitions[key] = None
  BY NoneAssumption DEF Records
<1>2. transitions'[key] = row /\ \A k \in Keys \ {key} : transitions'[k] = transitions[k]
  BY DEF TypeOK, Records
<1>3. key \notin Changing BY <1>1 DEF Changing
<1>4. IsFiniteSet(Changing)
  <2>1. Changing \subseteq Recorded BY DEF Changing, Recorded
  <2> QED BY <2>1, FS_Subset
<1>5. "promoted" \in {row.from, row.to} => Changing' = Changing \cup {key}
  BY <1>1, <1>2 DEF Changing
<1>6. "promoted" \notin {row.from, row.to} => Changing' = Changing
  BY <1>1, <1>2 DEF Changing
<1> QED BY <1>3, <1>4, <1>5, <1>6, FS_AddElement, FS_CardinalityType

\* The log grows at its end, by the activation that takes over from the active
\* strategy, and only with a transition that changes it.
LEMMA LogGrows ==
    ASSUME TypeOK, LogIsSound, NEW a \in Activation,
           activations' = Append(activations, a), a.previous = Active,
           Cardinality(Changing) \in Nat,
           Cardinality(Changing') = Cardinality(Changing) + 1,
           a.kind = "promotion" =>
               \A n \in DOMAIN activations :
                   activations[n].kind = "promotion" => activations[n].strategy # a.strategy
    PROVE  LogIsSound'
<1>1. PICK len : len = Len(activations) OBVIOUS
<1>2. /\ len \in Nat /\ len >= 1 /\ DOMAIN activations = 1..len
      /\ Len(activations') = len + 1 /\ DOMAIN activations' = 1..(len + 1)
      /\ activations'[len + 1] = a
      /\ \A n \in 1..len : activations'[n] = activations[n]
  BY <1>1 DEF TypeOK
<1>3. \A n \in 2..(len + 1) : activations'[n].previous = activations'[n-1].strategy
  <2> SUFFICES ASSUME NEW n \in 2..(len + 1)
               PROVE  activations'[n].previous = activations'[n-1].strategy
    OBVIOUS
  <2>1. CASE n = len + 1
    <3>1. n - 1 = len /\ len \in 1..len BY <1>2, <2>1
    <3>2. activations'[len].strategy = Active BY <1>1, <1>2, <3>1 DEF Active
    <3> QED BY <1>2, <2>1, <3>1, <3>2
  <2>2. CASE n # len + 1
    <3>1. n \in 2..len /\ n \in 1..len /\ n - 1 \in 1..len BY <1>2, <2>2
    <3>2. activations[n].previous = activations[n-1].strategy
      BY <1>1, <3>1 DEF LogIsSound
    <3> QED BY <1>2, <3>1, <3>2
  <2> QED BY <2>1, <2>2
<1>4. len = 1 + Cardinality(Changing) BY <1>1 DEF LogIsSound
<1>5. \A m, n \in 1..(len + 1) :
          activations'[m].kind = "promotion" /\ activations'[n].kind = "promotion"
          /\ activations'[m].strategy = activations'[n].strategy => m = n
  <2>1. \A n \in 1..(len + 1) : n \in 1..len \/ n = len + 1 BY <1>2
  <2>2. \A n \in 1..len : activations'[n].kind = "promotion" /\ a.kind = "promotion" =>
            activations'[n].strategy # a.strategy
    BY <1>2
  <2>3. \A m, n \in 1..len :
            activations'[m].kind = "promotion" /\ activations'[n].kind = "promotion"
            /\ activations'[m].strategy = activations'[n].strategy => m = n
    BY <1>2 DEF LogIsSound
  <2> QED BY <1>2, <2>1, <2>2, <2>3
<1>6. len + 1 = 1 + Cardinality(Changing') BY <1>2, <1>4
<1> QED BY <1>2, <1>3, <1>5, <1>6 DEF LogIsSound

LEMMA RegisterLog ==
    ASSUME EvidenceInv, NEW c \in Callers, Register(c)
    PROVE  LogIsSound' /\ PromotionsLast'
<1>1. Inv /\ TypeOK /\ IsFiniteSet(Recorded) /\ LogIsSound BY DEF EvidenceInv, Inv
<1>2. PICK x \in Candidates :
          /\ experiments[x] = None /\ x = fresh[c] /\ activations' = activations
  BY <1>1, RegisterEffect
<1>3. PICK key, row : Records(key, row) /\ row.from = None /\ row.to = "proposed"
  BY <1>1, RegisterRecord
<1>4. None # "promoted" BY NoneAssumption DEF Stages
<1>5. Changing' = Changing BY <1>1, <1>3, <1>4, ChangingGrows
<1>6. LogIsSound' BY <1>1, <1>2, <1>5 DEF LogIsSound
<1>7. \A y \in Registered : y \in Registered' /\ experiments'[y] = experiments[y]
  BY <1>1, <1>2, RegisterExperiments DEF Registered
<1>8. PromotionsLast' BY <1>2, <1>7 DEF EvidenceInv, PromotionsLast
<1> QED BY <1>6, <1>8

LEMMA AdvanceLog ==
    ASSUME EvidenceInv, NEW c \in Callers, AdvanceExperiment(c)
    PROVE  LogIsSound' /\ PromotionsLast'
<1>1. /\ Inv /\ TypeOK /\ IsFiniteSet(Recorded) /\ LogIsSound /\ PromotionsLast
      /\ ReceiptsDecide
  BY DEF EvidenceInv, Inv
<1>2. PICK x \in Registered, edge \in Edges :
          /\ request[c].receipt.experiment = x /\ request[c].receipt.edge = edge
          /\ experiments[x].stage = edge[1]
          /\ experiments' = [experiments EXCEPT ![x].stage = edge[2]]
          /\ \/ /\ edge = <<"canary", "promoted">>
                /\ Active = experiments[x].baseline
                /\ activations' = Append(activations, [strategy |-> x,
                       previous |-> experiments[x].baseline, kind |-> "promotion"])
             \/ /\ edge = <<"promoted", "rolled_back">>
                /\ Active = x
                /\ activations' = Append(activations, [strategy |-> experiments[x].baseline,
                       previous |-> x, kind |-> "rollback"])
             \/ /\ edge[1] # "promoted" /\ edge[2] # "promoted"
                /\ activations' = activations
  BY <1>1, AdvanceEffect
<1>3. PICK key, row : Records(key, row) /\ row.from = edge[1] /\ row.to = edge[2]
  BY <1>1, <1>2, AdvanceRecord
<1>4. /\ Cardinality(Changing) \in Nat
      /\ "promoted" \in {edge[1], edge[2]} =>
             Cardinality(Changing') = Cardinality(Changing) + 1
      /\ "promoted" \notin {edge[1], edge[2]} => Changing' = Changing
  BY <1>1, <1>3, ChangingGrows
<1>5. /\ x \in Candidates /\ experiments[x] \in Experiment
      /\ experiments[x].baseline \in Candidates \cup {Root}
  BY <1>1, ExperimentShape DEF Registered
<1>6. /\ experiments'[x].stage = edge[2] /\ Registered' = Registered
      /\ \A y \in Registered \ {x} : experiments'[y] = experiments[y]
  BY <1>1, <1>2, <1>5, AdvanceExperiments DEF TypeOK, Experiment, Registered
<1>7. edge[1] \in {"promoted", "rolled_back"} => edge[2] \in {"promoted", "rolled_back"}
  BY DEF Edges
<1>8. \A n \in DOMAIN activations : activations[n].kind = "promotion" =>
          LET y == activations[n].strategy
          IN  y \in Registered' /\ experiments'[y].stage \in {"promoted", "rolled_back"}
  BY <1>1, <1>2, <1>6, <1>7 DEF PromotionsLast
<1>9. ASSUME NEW a \in Activation, activations' = Append(activations, a),
             a.kind = "promotion" =>
                 /\ a.strategy \in Registered'
                 /\ experiments'[a.strategy].stage \in {"promoted", "rolled_back"}
      PROVE  PromotionsLast'
  <2>1. PICK len : len = Len(activations) OBVIOUS
  <2>2. /\ DOMAIN activations = 1..len /\ len \in Nat
        /\ DOMAIN activations' = 1..(len + 1) /\ activations'[len + 1] = a
        /\ \A n \in 1..len : activations'[n] = activations[n]
    BY <1>1, <1>9, <2>1 DEF TypeOK
  <2>3. \A n \in 1..(len + 1) : n \in 1..len \/ n = len + 1 BY <2>2
  <2> QED BY <1>8, <1>9, <2>2, <2>3 DEF PromotionsLast
<1>10. CASE edge = <<"canary", "promoted">>
  <2>1. PICK a : a = [strategy |-> x, previous |-> experiments[x].baseline,
                      kind |-> "promotion"]
    OBVIOUS
  <2>2. /\ a \in Activation /\ a.previous = Active /\ a.strategy = x
        /\ activations' = Append(activations, a)
    BY <1>2, <1>5, <1>10, <2>1 DEF Activation
  <2>3. \A n \in DOMAIN activations :
            activations[n].kind = "promotion" => activations[n].strategy # x
    BY <1>1, <1>2, <1>10 DEF PromotionsLast
  <2>4. LogIsSound' BY <1>1, <1>4, <1>10, <2>2, <2>3, LogGrows
  <2>5. PromotionsLast' BY <1>6, <1>9, <1>10, <2>2
  <2> QED BY <2>4, <2>5
<1>11. CASE edge = <<"promoted", "rolled_back">>
  <2>1. PICK a : a = [strategy |-> experiments[x].baseline, previous |-> x,
                      kind |-> "rollback"]
    OBVIOUS
  <2>2. /\ a \in Activation /\ a.previous = Active /\ a.kind # "promotion"
        /\ activations' = Append(activations, a)
    BY <1>2, <1>5, <1>11, <2>1 DEF Activation
  <2>3. LogIsSound' BY <1>1, <1>4, <1>11, <2>2, LogGrows
  <2>4. PromotionsLast' BY <1>9, <2>2
  <2> QED BY <2>3, <2>4
<1>12. CASE edge[1] # "promoted" /\ edge[2] # "promoted" /\ activations' = activations
  <2>1. Changing' = Changing BY <1>4, <1>12
  <2>2. LogIsSound' BY <1>1, <1>12, <2>1 DEF LogIsSound
  <2>3. PromotionsLast' BY <1>8, <1>12 DEF PromotionsLast
  <2> QED BY <2>2, <2>3
<1> QED BY <1>2, <1>10, <1>11, <1>12

LEMMA DecisionsStep ==
    ASSUME Inv, ReceiptsDecide, [Next]_vars
    PROVE  ReceiptsDecide'
<1>1. TypeOK BY DEF Inv
<1>2. ASSUME NEW d \in Callers, pc'[d] = pc[d], request'[d] = request[d],
             pc'[d] = "store", request'[d].op = "advance"
      PROVE  Authorizes(request'[d].receipt)
  BY <1>2 DEF ReceiptsDecide
<1>3. ASSUME NEW c \in Callers, NEW reply, Finish(c, reply) PROVE ReceiptsDecide'
  <2>1. /\ pc'[c] = "idle"
        /\ \A d \in Callers \ {c} : pc'[d] = pc[d] /\ request'[d] = request[d]
    BY <1>1, <1>3, FinishFrame
  <2> QED BY <2>1 DEF ReceiptsDecide, Authorizes
<1>4. ASSUME NEW c \in Callers, NEW step, step # "store", Goto(c, step),
             \A d \in Callers \ {c} : request'[d] = request[d]
      PROVE  ReceiptsDecide'
  <2>1. pc'[c] # "store" /\ \A d \in Callers \ {c} : pc'[d] = pc[d]
    BY <1>1, <1>4 DEF Goto, TypeOK
  <2> QED BY <1>4, <2>1 DEF ReceiptsDecide, Authorizes
<1>5. ASSUME NEW c \in Callers, NEW req \in Requests, Begin(c, req) PROVE ReceiptsDecide'
  <2>1. \A d \in Callers \ {c} : request'[d] = request[d] BY <1>1, <1>5 DEF Begin, TypeOK
  <2> QED BY <1>4, <1>5, <2>1 DEF Begin
<1>6. ASSUME NEW c \in Callers,
             \/ Lookup(c) \/ ProposeNothing(c) \/ RejectReceipt(c) \/ Register(c)
             \/ AdvanceExperiment(c) \/ Conflict(c) \/ Reread(c)
      PROVE  ReceiptsDecide'
  <2>1. CASE Lookup(c) BY <1>3, <1>4, <2>1 DEF Lookup, Replay
  <2>2. CASE ProposeNothing(c) \/ RejectReceipt(c) BY <1>3, <2>2 DEF ProposeNothing, RejectReceipt
  <2>3. CASE Register(c) \/ AdvanceExperiment(c)
    BY <1>3, <2>3 DEF Register, AdvanceExperiment
  <2>4. CASE Conflict(c) BY <1>4, <2>4 DEF Conflict
  <2>5. CASE Reread(c) BY <1>3, <2>5 DEF Reread, Replay
  <2> QED BY <1>6, <2>1, <2>2, <2>3, <2>4, <2>5
<1>7. ASSUME NEW c \in Callers, ReadBaseline(c) PROVE ReceiptsDecide'
  <2>1. /\ request' = request /\ request[c].op = "propose"
        /\ \A d \in Callers \ {c} : pc'[d] = pc[d]
    BY <1>1, <1>7 DEF ReadBaseline, Goto, TypeOK
  <2> QED BY <2>1 DEF ReceiptsDecide, Authorizes
<1>8. ASSUME NEW c \in Callers, ReadExperiment(c) PROVE ReceiptsDecide'
  <2>1. CASE Finish(c, "refused") BY <1>3, <2>1
  <2>2. CASE ~Finish(c, "refused")
    <3>1. /\ Authorizes(request[c].receipt) /\ request' = request /\ Goto(c, "store")
      BY <1>8, <2>2 DEF ReadExperiment
    <3>2. \A d \in Callers \ {c} : pc'[d] = pc[d] BY <1>1, <3>1 DEF Goto, TypeOK
    <3> QED BY <3>1, <3>2 DEF ReceiptsDecide, Authorizes
  <2> QED BY <2>1, <2>2
<1>9. CASE UNCHANGED vars BY <1>9 DEF vars, local, ReceiptsDecide, Authorizes
<1> QED BY <1>5, <1>6, <1>7, <1>8, <1>9 DEF Next

\* What becomes active is in force, what was taken back has ended, and no strategy
\* is both.
LEMMA ReturnStep ==
    ASSUME Inv, TakenBackEnded, NeverReturns, [Next]_vars
    PROVE  TakenBackEnded' /\ NeverReturns'
<1>1. TakenBackEnded' BY StepKinds
<1>2. PromotedFormChain' BY ChainStep DEF Inv
<1>3. activations \in Seq(Activation) BY DEF Inv, TypeOK
<1>4. ASSUME activations' = activations PROVE NeverReturns'
  BY <1>4 DEF NeverReturns
<1>5. ASSUME NEW a \in Activation, activations' = Append(activations, a)
      PROVE  NeverReturns'
  <2>1. PICK len : len = Len(activations) OBVIOUS
  <2>2. /\ len \in Nat /\ DOMAIN activations = 1..len
        /\ DOMAIN activations' = 1..(len + 1) /\ activations'[len + 1] = a
        /\ \A n \in 1..len : activations'[n] = activations[n]
    BY <1>3, <1>5, <2>1
  <2>3. a.strategy \in InForce'
    BY <1>2, <1>3, <1>5, ActiveAfterAppend DEF PromotedFormChain
  <2>4. \A x : TakenBack(x)' => x \notin InForce'
    BY <1>1, RootAssumption DEF TakenBackEnded, InForce, Promoted, Registered
  <2>5. ASSUME NEW m \in 1..(len + 1), NEW n \in 1..(len + 1),
               activations'[m].kind = "rollback", m < n
        PROVE  activations'[n].strategy # activations'[m].previous
    <3>1. m \in 1..len BY <2>2, <2>5
    <3>2. CASE n = len + 1
      <4>1. PICK x : x = activations'[m].previous OBVIOUS
      <4>2. TakenBack(x)' BY <2>2, <2>5, <4>1 DEF TakenBack
      <4> QED BY <2>2, <2>3, <2>4, <3>2, <4>1, <4>2
    <3>3. CASE n # len + 1
      <4>1. n \in 1..len BY <2>2, <3>3
      <4> QED BY <2>2, <2>5, <3>1, <4>1 DEF NeverReturns
    <3> QED BY <3>2, <3>3
  <2>6. \A m, n \in 1..(len + 1) :
            activations'[m].kind = "rollback" /\ m < n
            => activations'[n].strategy # activations'[m].previous
    BY <2>5
  <2>7. DOMAIN activations' = 1..(len + 1) BY <2>2
  <2> QED BY ONLY <2>6, <2>7 DEF NeverReturns
<1>6. ASSUME UNCHANGED registry PROVE NeverReturns' BY <1>4, <1>6 DEF registry
<1>7. ASSUME NEW c \in Callers, Register(c) PROVE NeverReturns'
  BY <1>4, <1>7, RegisterEffect
<1>8. ASSUME NEW c \in Callers, AdvanceExperiment(c) PROVE NeverReturns'
  <2>1. \A x \in Registered : /\ x \in Candidates
                             /\ experiments[x].baseline \in Candidates \cup {Root}
    BY ExperimentShape DEF Inv, Registered
  <2>2. \A x \in Registered :
            /\ [strategy |-> x, previous |-> experiments[x].baseline,
                kind |-> "promotion"] \in Activation
            /\ [strategy |-> experiments[x].baseline, previous |-> x,
                kind |-> "rollback"] \in Activation
    BY <2>1 DEF Activation
  <2>3. activations' = activations
        \/ \E a \in Activation : activations' = Append(activations, a)
    BY <1>8, <2>2, AdvanceEffect
  <2> QED BY <1>4, <1>5, <2>3
<1>9. CASE UNCHANGED vars BY <1>1, <1>6, <1>9 DEF vars
<1> QED BY <1>1, <1>6, <1>7, <1>8, <1>9, RegistryStep

LEMMA EvidenceStep == EvidenceInv /\ [Next]_vars => EvidenceInv'
<1> SUFFICES ASSUME EvidenceInv, [Next]_vars PROVE EvidenceInv' OBVIOUS
<1>1. Inv' BY TypeStep, CallersStep, LineageStep, ChainStep DEF EvidenceInv, Inv
<1>2. ReceiptsDecide' /\ TakenBackEnded' /\ NeverReturns'
  BY DecisionsStep, ReturnStep DEF EvidenceInv
<1>3. ASSUME UNCHANGED registry PROVE EvidenceInv'
  <2>1. experiments' = experiments /\ transitions' = transitions /\ activations' = activations
    BY <1>3 DEF registry
  <2>2. Recorded' = Recorded /\ Changing' = Changing /\ Registered' = Registered
    BY <2>1 DEF Recorded, Changing, Registered
  <2>3. ASSUME NEW x \in Candidates PROVE TrailIsComplete(x)' /\ Ascending(x)'
    <3>1. /\ TrailOf(x)' = TrailOf(x) /\ Reached(x)' = Reached(x) /\ Left(x)' = Left(x)
      BY <2>1 DEF TrailOf, Reached, Left
    <3> QED BY <2>1, <3>1
      DEF EvidenceInv, TrailIsComplete, Unforked, Decided, Ascending, Authorizes
  <2>4. LogIsSound' /\ PromotionsLast'
    BY <2>1, <2>2 DEF EvidenceInv, LogIsSound, PromotionsLast
  <2> QED BY <1>1, <1>2, <2>2, <2>3, <2>4 DEF EvidenceInv
<1>4. ASSUME NEW c \in Callers, Register(c) PROVE EvidenceInv'
  BY <1>1, <1>2, <1>4, RegisterTrails, RegisterLog DEF EvidenceInv
<1>5. ASSUME NEW c \in Callers, AdvanceExperiment(c) PROVE EvidenceInv'
  BY <1>1, <1>2, <1>5, AdvanceTrails, AdvanceLog DEF EvidenceInv
<1>6. CASE UNCHANGED vars BY <1>3, <1>6 DEF vars
<1> QED BY <1>3, <1>4, <1>5, <1>6, RegistryStep

LEMMA EvidenceInit == Init => EvidenceInv
<1> SUFFICES ASSUME Init PROVE EvidenceInv OBVIOUS
<1>1. Inv BY InitInv
<1>2. Recorded = {} /\ Changing = {} /\ \A x : TrailOf(x) = {}
  BY DEF Init, Recorded, Changing, TrailOf
<1>3. \A x \in Candidates : TrailIsComplete(x) /\ Ascending(x)
  BY <1>2 DEF Init, TrailIsComplete, Ascending
<1>4. /\ Len(activations) = 1 /\ DOMAIN activations = 1..1
      /\ activations[1].kind = "bootstrap"
  BY DEF Init
<1>5. LogIsSound BY <1>2, <1>4, FS_EmptySet DEF LogIsSound
<1>6. PromotionsLast BY <1>4 DEF PromotionsLast
<1>7. ReceiptsDecide BY DEF Init, ReceiptsDecide
<1>8. TakenBackEnded /\ NeverReturns BY <1>4, StackInit DEF StackInv, NeverReturns
<1> QED BY <1>1, <1>2, <1>3, <1>5, <1>6, <1>7, <1>8, FS_EmptySet DEF EvidenceInv

LEMMA EvidenceInvariance == Spec => []EvidenceInv
  BY EvidenceInit, EvidenceStep, PTL DEF Spec

\* However callers race and retry, the transitions of an experiment are one
\* unbroken path from its creation to its current stage, each step backed by a
\* receipt for that edge (advance_evolution_experiment).
THEOREM EvidenceCorrect == Spec => []EvidenceTrail
<1>1. EvidenceInv => EvidenceTrail BY TrailPerExperiment DEF EvidenceInv
<1> QED BY EvidenceInvariance, <1>1, PTL

\* The activation log follows the evidence, step for step, and no strategy that
\* was taken out becomes active again, by promotion or by rollback
\* (_validate_activation).
THEOREM ActivationsCorrect == Spec => []ActivationsMatchEvidence
<1>1. EvidenceInv => ActivationsMatchEvidence
  BY DEF EvidenceInv, LogIsSound, NeverReturns, Changing, ActivationsMatchEvidence
<1> QED BY EvidenceInvariance, <1>1, PTL

=============================================================================
