--------------------------- MODULE MCToolServer ----------------------------
(* A small instance of ToolServer: the updates that are tried. *)
EXTENDS ToolServer, TLC

CONSTANT Mate   \* the slot of a teammate

MCUpdates ==
    {[status |-> "completed", owner |-> Keep, relink |-> FALSE, deps |-> {}],
     [status |-> "in_progress", owner |-> Mate, relink |-> TRUE, deps |-> {1}],
     [status |-> "deleted", owner |-> Keep, relink |-> FALSE, deps |-> {}]}

Symmetry == Permutations(Callers)
=============================================================================
