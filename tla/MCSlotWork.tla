----------------------------- MODULE MCSlotWork -----------------------------
(* TLC instances of SlotWork. *)
EXTENDS SlotWork, TLC

\* Slots, messages and runs are interchangeable: the model only compares them.
Symmetry == Permutations(Slots) \cup Permutations(Messages) \cup Permutations(Runs)
=============================================================================
