----------------------------- MODULE MCPgMemory -----------------------------
(***************************************************************************)
(* Instances of PgMemory for TLC.                                          *)
(***************************************************************************)
EXTENDS PgMemory, TLC

MCSymmetry == Permutations(Requests) \cup Permutations(Keys)
                  \cup Permutations(Values) \cup Permutations(Idents)
=============================================================================
