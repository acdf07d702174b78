------------------------- MODULE MCPreferenceLedger -------------------------
(***************************************************************************)
(* Instances of PreferenceLedger for TLC.                                  *)
(***************************************************************************)
EXTENDS PreferenceLedger, TLC

\* Keys, values and scopes are only compared for equality; times and
\* confidences are not permuted.
MCSymmetry == Permutations(Keys) \cup Permutations(Values)
                  \cup Permutations(Scopes) \cup Permutations(Sources)
                  \cup Permutations(Idents)
=============================================================================
