---------------------------- MODULE MCEvolution ----------------------------
(***************************************************************************)
(* Instances of Evolution for TLC: the proposals and, for each candidate   *)
(* and stage edge, a receipt that authorizes it, each under a key of its   *)
(* own; and requests that must not get through.                            *)
(***************************************************************************)
EXTENDS Evolution, TLC

CONSTANTS Proposals  \* keys of proposals

Edge(x, edge) == <<x, edge[1], edge[2]>>

MCKeys == Proposals \cup {Edge(x, edge) : x \in Candidates, edge \in Edges}

Decision(to) ==
    CASE to = "rejected" -> "reject" [] to = "rolled_back" -> "rollback" [] OTHER -> "pass"

Gate(x, edge, decision, gates) ==
    [op |-> "advance", key |-> Edge(x, edge),
     receipt |-> [experiment |-> x, edge |-> edge, decision |-> decision,
                  hard_gates_passed |-> gates]]

MCProposals == {[op |-> "propose", key |-> k] : k \in Proposals}

Advances == {Gate(x, edge, Decision(edge[2]), TRUE) : x \in Candidates, edge \in Edges}

\* Receipts that do not authorize their edge.
Unauthorized ==
    {Gate(x, <<"canary", "promoted">>, "pass", FALSE) : x \in Candidates}
        \cup {Gate(x, <<"proposed", "rejected">>, "pass", TRUE) : x \in Candidates}

MCRequests == MCProposals \cup Advances \cup Unauthorized

MCSymmetry == Permutations(Candidates) \cup Permutations(Callers) \cup Permutations(Proposals)
=============================================================================
