--------------------------- MODULE MCProvisioning ---------------------------
(* Profiles for model checking: a model that is routed to the MCP transport, *)
(* a backend without a transport, and one with the shell fallback.  The      *)
(* client keeps what the model leaves out, names another directory, or       *)
(* replaces the extra by one that has none of the keys.                      *)
EXTENDS Provisioning, TLC

CONSTANTS aLead, aMate, aNew, aSpare   \* the agents

AProfile(routed, cli) == [routed |-> routed, mcp |-> FALSE, cli |-> cli]

MCProfile ==
       aLead  :> AProfile(TRUE, FALSE)
    @@ aMate  :> AProfile(FALSE, FALSE)
    @@ aNew   :> AProfile(FALSE, TRUE)
    @@ aSpare :> AProfile(FALSE, TRUE)

MCClientChanges ==
    {<<>>, [ws |-> "shared"], [ws |-> None, mode |-> None, current |-> None, config |-> None]}

MCSymmetry == Permutations(Requests)
=============================================================================
