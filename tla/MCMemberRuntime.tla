-------------------------- MODULE MCMemberRuntime --------------------------
(* TLC instance of MemberRuntime. *)
EXTENDS MemberRuntime, TLC

\* Members are interchangeable: the model only compares them.
Symmetry == Permutations(Members)
=============================================================================
