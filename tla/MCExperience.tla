---------------------------- MODULE MCExperience ----------------------------
(***************************************************************************)
(* Instances of Experience for TLC.                                        *)
(***************************************************************************)
EXTENDS Experience, TLC

\* Ids and keys are only compared for equality.
MCSymmetry == Permutations(TraceIds) \cup Permutations(UsageKeys)
                  \cup Permutations(OutcomeKeys) \cup Permutations(Keys)
                  \cup Permutations(Contexts) \cup Permutations(Values)
                  \cup Permutations(Scopes)
=============================================================================
