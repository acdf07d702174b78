---------------------------- MODULE MCGovernance ----------------------------
(***************************************************************************)
(* Instances of Governance for TLC.                                        *)
(***************************************************************************)
EXTENDS Governance, TLC

MCSymmetry == Permutations(Clients) \cup Permutations(Rows) \cup Permutations(Keys)
=============================================================================
