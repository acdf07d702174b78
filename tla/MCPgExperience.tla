--------------------------- MODULE MCPgExperience ---------------------------
(***************************************************************************)
(* Instances of PgExperience for TLC: a success and a later failure of     *)
(* another weight.                                                         *)
(***************************************************************************)
EXTENDS PgExperience

MCVerdicts == {[success |-> TRUE, weight |-> 1, at |-> 2],
               [success |-> FALSE, weight |-> 2, at |-> 1]}
=============================================================================
