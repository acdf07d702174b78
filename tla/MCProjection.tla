---------------------------- MODULE MCProjection ----------------------------
(***************************************************************************)
(* Instances of Projection for TLC: two events of one scope.               *)
(***************************************************************************)
EXTENDS Projection, TLC

CONSTANT s1

MCOneScope == 1 :> s1 @@ 2 :> s1
=============================================================================
