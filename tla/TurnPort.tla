------------------------------ MODULE TurnPort ------------------------------
(***************************************************************************)
(* What the event loop of an agent relies on when it runs a turn (the      *)
(* traits AgentTurnExecutionPort and AgentTurnCancellationPort of          *)
(* crates/team/src/ports.rs): a turn ends at most once, a turn that was    *)
(* told to stop never ends as completed, and only a completed turn leaves  *)
(* a message in the conversation.  AcpTurn implements it.                  *)
(***************************************************************************)
CONSTANT Turns

VARIABLES turn,    \* the life of every turn
          saved    \* turns whose answer is in the conversation

portVars == <<turn, saved>>

Init == turn = [t \in Turns |-> "off"] /\ saved = {}

Move(t, from, to) == turn[t] \in from /\ turn' = [turn EXCEPT ![t] = to]

Start(t)    == Move(t, {"off"}, "running") /\ UNCHANGED saved
Cancel(t)   == Move(t, {"running"}, "cancelling") /\ UNCHANGED saved
Complete(t) == Move(t, {"running"}, "completed") /\ saved' \in {saved, saved \cup {t}}
Fail(t)     == Move(t, {"running", "cancelling"}, "error") /\ UNCHANGED saved
Obey(t)     == Move(t, {"running", "cancelling"}, "cancelled") /\ UNCHANGED saved
Drop(t)     == Move(t, {"running", "cancelling"}, "dropped") /\ UNCHANGED saved

Next == \E t \in Turns :
            Start(t) \/ Cancel(t) \/ Complete(t) \/ Fail(t) \/ Obey(t) \/ Drop(t)

Spec == Init /\ [][Next]_portVars
=============================================================================
