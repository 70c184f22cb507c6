--------------------------- MODULE MCTeamSession ---------------------------
(* TLC instances of TeamSession. *)
EXTENDS TeamSession, TLC

\* Callers and runs are interchangeable: the model only compares them.
Symmetry == Permutations(Callers) \cup Permutations(Runs)
=============================================================================
