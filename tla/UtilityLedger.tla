---------------------------- MODULE UtilityLedger ----------------------------
(***************************************************************************)
(* What learning from outcomes promises, whatever store keeps it: a report *)
(* is counted at most once per idempotency key, in one indivisible step,   *)
(* and nothing but a report or an erasure moves an estimate.               *)
(***************************************************************************)
EXTENDS Naturals

CONSTANTS
    Keys,      \* idempotency keys of outcome reports
    Entries,   \* what is estimated: a revision in a context
    Verdicts   \* [success, weight, at]: what a report says

VARIABLES
    counted,   \* keys of the reports that were counted
    estimates  \* estimates[e]: positive and negative weight, and the latest instant

vars == <<counted, estimates>>

Prior == [positive |-> 0, negative |-> 0, last |-> 0]

Init == counted = {} /\ estimates = [e \in Entries |-> Prior]

\* The estimate after one more report (UtilityEstimate.updated).
Updated(estimate, v) ==
    [positive |-> estimate.positive + (IF v.success THEN v.weight ELSE 0),
     negative |-> estimate.negative + (IF v.success THEN 0 ELSE v.weight),
     last |-> IF v.at > estimate.last THEN v.at ELSE estimate.last]

Learn(k, e, v) ==
    /\ k \notin counted
    /\ counted' = counted \cup {k}
    /\ estimates' = [estimates EXCEPT ![e] = Updated(estimates[e], v)]

\* Erasure of the scope forgets reports and estimates together.
Forget == counted' = {} /\ estimates' = [e \in Entries |-> Prior]

Next ==
    \/ \E k \in Keys, e \in Entries, v \in Verdicts : Learn(k, e, v)
    \/ Forget

Spec == Init /\ [][Next]_vars
=============================================================================
