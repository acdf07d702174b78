--------------------------- MODULE StrategyStack ---------------------------
(***************************************************************************)
(* What the evolution workflow promises about the active retrieval         *)
(* strategy: promotions and rollbacks nest like calls.  A candidate is     *)
(* pushed on the strategy it was derived from, only the latest promotion   *)
(* can be taken back, which restores its parent, and a strategy that was   *)
(* taken back is retired for good.  Evolution implements this.             *)
(***************************************************************************)
EXTENDS Naturals, Sequences

CONSTANTS Root, Candidates

VARIABLES
    stack,   \* the strategies in force, the active one last
    retired  \* candidates that were promoted and rolled back

vars == <<stack, retired>>

Active == stack[Len(stack)]

Init == stack = <<Root>> /\ retired = {}

Promote(x) ==
    /\ x \notin retired
    /\ \A n \in DOMAIN stack : stack[n] # x
    /\ stack' = Append(stack, x)
    /\ UNCHANGED retired

Rollback ==
    /\ Len(stack) > 1
    /\ retired' = retired \cup {Active}
    /\ stack' = SubSeq(stack, 1, Len(stack) - 1)

Next == (\E x \in Candidates : Promote(x)) \/ Rollback

Spec == Init /\ [][Next]_vars
=============================================================================
