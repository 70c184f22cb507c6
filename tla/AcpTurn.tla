------------------------------ MODULE AcpTurn -------------------------------
(***************************************************************************)
(* Exchanges with an agent process: the turns of AcpTurnPort               *)
(* (crates/team/src/acp_turn_adapter.rs on crates/acp/src/turn.rs) and the *)
(* handshakes of WorkerTaskManager (crates/acp/src/manager.rs on           *)
(* session.rs).  Each spawns a process, talks to it, kills it, and waits   *)
(* until nobody holds its standard error any more (process.rs).            *)
(*                                                                         *)
(* A process may have a descendant, as codex and claude do, which npx      *)
(* starts.  taskkill kills it too; on Unix "kill -KILL -pid" addresses a   *)
(* process group that nobody created.  Left out: the protocol's payloads,  *)
(* the choice of backend and directory, how long the timers run.           *)
(***************************************************************************)
EXTENDS Naturals, FiniteSets

CONSTANTS Turns,        \* turns of agents
          Handshakes,   \* calls of get_or_build_task of one conversation
          Ends          \* what a descendant does with standard error: "quiet", "holds"

ASSUME AcpAssumption ==
    /\ Turns \cap Handshakes = {}
    /\ Ends \subseteq {"quiet", "holds"}

Exchanges == Turns \cup Handshakes

VARIABLES windows,  \* the platform
          pc,       \* where every exchange is
          stage,    \* how far the conversation with its process is
          result,   \* what tokio::select! or the timer decided
          outcome,  \* what the caller is told
          cancel,   \* turns whose cancel channel says true
          active,   \* AcpTurnPort.active
          child,    \* exchanges whose process is alive
          helper,   \* the descendant of every process
          text,     \* turns that received text
          saved,    \* turns whose answer was stored
          task      \* the conversation has an entry in WorkerTaskManager.tasks

vars == <<windows, pc, stage, result, outcome, cancel, active, child, helper, text, saved, task>>
procVars == <<child, helper>>

Init ==
    /\ windows \in BOOLEAN
    /\ pc = [e \in Exchanges |-> "new"]
    /\ stage = [e \in Exchanges |-> "none"]
    /\ result = [e \in Exchanges |-> "none"]
    /\ outcome = [e \in Exchanges |-> "none"]
    /\ cancel = {}
    /\ active = {}
    /\ child = {}
    /\ helper = [e \in Exchanges |-> "none"]
    /\ text = {}
    /\ saved = {}
    /\ task \in BOOLEAN    \* an earlier handshake may have left one

\* The exchange is over for its caller.
Finish(e, how) ==
    /\ pc' = [pc EXCEPT ![e] = "done"]
    /\ outcome' = [outcome EXCEPT ![e] = how]
    /\ active' = active \ {e}

-----------------------------------------------------------------------------
\* The beginning of a turn.

\* run_agent_turn: the turn can be cancelled from now on.
RunAgentTurn(t) ==
    /\ pc[t] = "new"
    /\ pc' = [pc EXCEPT ![t] = "registered"]
    /\ active' = active \cup {t}
    /\ UNCHANGED <<windows, stage, result, outcome, cancel, procVars, text, saved, task>>

\* on_started returns; the caller may have cancelled the turn in it.
OnStarted(t) ==
    /\ pc[t] = "registered"
    /\ pc' = [pc EXCEPT ![t] = "started"]
    /\ UNCHANGED <<windows, stage, result, outcome, cancel, active, procVars, text, saved, task>>

\* A turn that was cancelled by then does not launch anything; run_acp_turn looks
\* once more, after the backend and the workspace were looked up.
LateStartCancel(t) ==
    /\ pc[t] \in {"started", "resolve"}
    /\ t \in cancel
    /\ Finish(t, "cancelled")
    /\ UNCHANGED <<windows, stage, result, cancel, procVars, text, saved, task>>

\* resolve_backend and resolve_workspace read the conversation.
ResolveBackend(t) ==
    /\ pc[t] = "started"
    /\ t \notin cancel
    /\ pc' = [pc EXCEPT ![t] = "resolve"]
    /\ UNCHANGED <<windows, stage, result, outcome, cancel, active, procVars, text, saved, task>>

\* The backend is unknown, or its process cannot be spawned.
CannotLaunch(t) ==
    /\ pc[t] = "resolve"
    /\ Finish(t, "error")
    /\ UNCHANGED <<windows, stage, result, cancel, procVars, text, saved, task>>

\* A process with its pipes, before anything was sent to it.
Spawned(e) ==
    /\ pc' = [pc EXCEPT ![e] = "talk"]
    /\ stage' = [stage EXCEPT ![e] = "initialize"]
    /\ child' = child \cup {e}

\* run_acp_turn up to the select.
Launch(t) ==
    /\ pc[t] = "resolve"
    /\ t \notin cancel
    /\ Spawned(t)
    /\ UNCHANGED <<windows, result, outcome, cancel, active, helper, text, saved, task>>

\* cancel_agent_turn: signals the turn if it is still there, and is fine with that.
CancelAgentTurn(t) ==
    /\ t \in active
    /\ cancel' = cancel \cup {t}
    /\ UNCHANGED <<windows, pc, stage, result, outcome, active, procVars, text, saved, task>>

-----------------------------------------------------------------------------
\* get_or_build_task: the map is looked at before the handshake, and written after it.

GetTask(h) ==
    /\ pc[h] = "new"
    /\ task
    /\ Finish(h, "completed")
    /\ UNCHANGED <<windows, stage, result, cancel, procVars, text, saved, task>>

OpenSessionHandshake(h) ==
    /\ pc[h] = "new"
    /\ ~task
    /\ \/ Spawned(h) /\ UNCHANGED <<outcome, active>>
       \/ Finish(h, "error") /\ UNCHANGED <<stage, child>>
    /\ UNCHANGED <<windows, result, cancel, helper, text, saved, task>>

\* kill and kill_and_wait only forget the entry.
KillTask ==
    /\ task
    /\ task' = FALSE
    /\ UNCHANGED <<windows, pc, stage, result, outcome, cancel, active, procVars, text, saved>>

-----------------------------------------------------------------------------
\* The agent process.

\* Mutant: a handshake sends a prompt as well.
AlwaysPrompt(e) ==
    CASE stage[e] = "initialize" -> "session"
      [] stage[e] = "session"    -> "prompt"
      [] stage[e] = "prompt"     -> "answered"

\* The answer to the last request; a handshake sends no prompt.
AfterStage(e) ==
    CASE stage[e] = "initialize" -> "session"
      [] stage[e] = "session"    -> IF e \in Handshakes THEN "answered" ELSE "prompt"
      [] stage[e] = "prompt"     -> "answered"

Talks(e) == pc[e] = "talk" /\ e \in child /\ stage[e] \in {"initialize", "session", "prompt"}

AgentAnswers(e) ==
    /\ Talks(e)
    /\ stage' = [stage EXCEPT ![e] = AfterStage(e)]
    /\ UNCHANGED <<windows, pc, result, outcome, cancel, active, procVars, text, saved, task>>

\* A notification with text of the message.
AgentSays(e) ==
    /\ Talks(e)
    /\ stage[e] = "prompt"
    /\ text' = text \cup {e}
    /\ UNCHANGED <<windows, pc, stage, result, outcome, cancel, active, procVars, saved, task>>

\* The agent refuses a request, or exits.
AgentFails(e) ==
    /\ Talks(e)
    /\ stage' = [stage EXCEPT ![e] = "broken"]
    /\ child' \in {child, child \ {e}}
    /\ UNCHANGED <<windows, pc, result, outcome, cancel, active, helper, text, saved, task>>

AgentForks(e) ==
    /\ e \in child
    /\ helper[e] = "none"
    /\ \E h \in Ends : helper' = [helper EXCEPT ![e] = h]
    /\ UNCHANGED <<windows, pc, stage, result, outcome, cancel, active, child, text, saved, task>>

HelperExits(e) ==
    /\ helper[e] # "none"
    /\ helper' = [helper EXCEPT ![e] = "none"]
    /\ UNCHANGED <<windows, pc, stage, result, outcome, cancel, active, child, text, saved, task>>

-----------------------------------------------------------------------------
\* The end of an exchange.

Decided(e, how) ==
    /\ pc[e] = "talk"
    /\ pc' = [pc EXCEPT ![e] = "kill"]
    /\ result' = [result EXCEPT ![e] = how]
    /\ UNCHANGED <<windows, stage, outcome, cancel, active, procVars, text, saved, task>>

\* Mutant: the answer is looked at first.
AnswerFirst(e) ==
    \/ stage[e] = "answered" /\ Decided(e, "ok")
    \/ stage[e] = "broken" /\ Decided(e, "error")
    \/ stage[e] \notin {"answered", "broken"} /\ e \in cancel /\ Decided(e, "cancelled")

\* The biased select: the cancel channel is looked at first.
Select(e) ==
    \/ e \in cancel /\ Decided(e, "cancelled")
    \/ e \notin cancel /\ stage[e] = "answered" /\ Decided(e, "ok")
    \/ e \notin cancel /\ stage[e] = "broken" /\ Decided(e, "error")

\* TURN_TIMEOUT or HANDSHAKE_TIMEOUT: only if the select has nothing yet.
TimeOut(e) ==
    /\ e \notin cancel
    /\ stage[e] \notin {"answered", "broken"}
    /\ Decided(e, "timeout")

\* Mutant: the process is left to end by itself when it has answered.
KillUnlessAnswered(e) ==
    /\ pc[e] = "kill"
    /\ pc' = [pc EXCEPT ![e] = "drain"]
    /\ child' = IF stage[e] = "answered" THEN child ELSE child \ {e}
    /\ helper' = [helper EXCEPT ![e] = IF windows /\ e \in child THEN "none" ELSE @]
    /\ UNCHANGED <<windows, stage, result, outcome, cancel, active, text, saved, task>>

\* kill_process_tree: the process is reaped; its descendant dies on Windows only,
\* and there only if the process was alive to be the root of the tree.
KillProcessTree(e) ==
    /\ pc[e] = "kill"
    /\ pc' = [pc EXCEPT ![e] = "drain"]
    /\ child' = child \ {e}
    /\ helper' = [helper EXCEPT ![e] = IF windows /\ e \in child THEN "none" ELSE @]
    /\ UNCHANGED <<windows, stage, result, outcome, cancel, active, text, saved, task>>

\* Mutant: the task that reads standard error is not waited for.
Undrained(e) == pc[e] = "drain"

\* The task that reads standard error has seen the end of it.
Drained(e) == pc[e] = "drain" /\ e \notin child /\ helper[e] # "holds"

\* What the caller may be told.  The cancel channel is read again: a failure
\* after a cancel counts as cancelled, and so does one whose text says so.
Told(t) ==
    CASE result[t] = "ok"        -> {"completed"}
      [] result[t] = "timeout"   -> {"error"}
      [] result[t] = "cancelled" -> {"cancelled"}
      [] result[t] = "error"     -> IF t \in cancel THEN {"cancelled"} ELSE {"error", "cancelled"}

\* persist_assistant_text of a completed turn, unless its answer is empty.
SaveAnswer(t) == saved' = IF result[t] = "ok" /\ t \in text THEN saved \cup {t} ELSE saved

\* run_acp_turn returns, the turn leaves the map, and its answer is stored.
EndTurn(t) ==
    /\ Drained(t)
    /\ \E how \in Told(t) : Finish(t, how)
    /\ SaveAnswer(t)
    /\ UNCHANGED <<windows, stage, result, cancel, procVars, text, task>>

\* get_or_build_task enters the task of a handshake into the map, over another one.
EnterTask(h) == task' = (task \/ result[h] = "ok")

\* open_session_handshake returns.
EndHandshake(h) ==
    /\ Drained(h)
    /\ Finish(h, IF result[h] = "ok" THEN "completed" ELSE "error")
    /\ EnterTask(h)
    /\ UNCHANGED <<windows, stage, result, cancel, procVars, text, saved>>

\* The future is dropped, as when its event loop is aborted: the guard and
\* kill_on_drop kill the process; the entry in active stays.
DropExchange(e) ==
    /\ pc[e] \in {"registered", "started", "resolve", "talk", "kill", "drain"}
    /\ pc' = [pc EXCEPT ![e] = "dropped"]
    /\ child' = child \ {e}
    /\ helper' = [helper EXCEPT ![e] = IF windows /\ e \in child THEN "none" ELSE @]
    /\ UNCHANGED <<windows, stage, result, outcome, cancel, active, text, saved, task>>

-----------------------------------------------------------------------------

\* What the code of an exchange does by itself: it is never blocked by the agent for ever.
Step(e) ==
    \/ e \in Turns /\ (OnStarted(e) \/ LateStartCancel(e) \/ ResolveBackend(e) \/ CannotLaunch(e) \/ Launch(e))
    \/ Select(e)
    \/ TimeOut(e)
    \/ KillProcessTree(e)
    \/ e \in Turns /\ EndTurn(e)
    \/ e \in Handshakes /\ EndHandshake(e)

Next ==
    \/ \E t \in Turns : RunAgentTurn(t) \/ CancelAgentTurn(t)
    \/ \E h \in Handshakes : GetTask(h) \/ OpenSessionHandshake(h)
    \/ KillTask
    \/ \E e \in Exchanges :
          \/ Step(e)
          \/ AgentAnswers(e) \/ AgentSays(e) \/ AgentFails(e) \/ AgentForks(e) \/ HelperExits(e)
          \/ DropExchange(e)

Spec     == Init /\ [][Next]_vars
FairSpec == Spec /\ \A e \in Exchanges : WF_vars(Step(e))

-----------------------------------------------------------------------------

AcpTypeOK ==
    /\ windows \in BOOLEAN /\ task \in BOOLEAN
    /\ pc \in [Exchanges -> {"new", "registered", "started", "resolve", "talk", "kill", "drain", "done", "dropped"}]
    /\ stage \in [Exchanges -> {"none", "initialize", "session", "prompt", "answered", "broken"}]
    /\ result \in [Exchanges -> {"none", "ok", "error", "cancelled", "timeout"}]
    /\ outcome \in [Exchanges -> {"none", "completed", "cancelled", "error"}]
    /\ helper \in [Exchanges -> {"none", "quiet", "holds"}]
    /\ cancel \subseteq Turns /\ active \subseteq Turns /\ text \subseteq Turns /\ saved \subseteq Turns
    /\ child \subseteq Exchanges

\* An exchange that has returned leaves no process of its own behind, and nobody
\* that could still write to its standard error; the map of active turns holds no
\* turn that has returned, so a late cancel finds nothing (a dropped one stays).
NothingLeftBehind ==
    \A e \in Exchanges :
        /\ pc[e] \in {"done", "dropped"} => e \notin child
        /\ pc[e] = "done" => helper[e] # "holds" /\ e \notin active

Ongoing(e) == pc[e] \in {"registered", "started", "resolve", "talk", "kill", "drain"}

\* Every exchange returns, whatever the agent does: the timers see to it.  The
\* one thing that can hold it up is a descendant that survived the kill and
\* keeps standard error open.
ExchangeEnds ==
    \A e \in Exchanges :
        Ongoing(e) ~> (~Ongoing(e) \/ (pc[e] = "drain" /\ helper[e] = "holds"))

\* The life of a turn as the event loop sees it.
PortState(t) ==
    CASE pc[t] = "new" -> "off"
      [] pc[t] = "done" -> outcome[t]
      [] pc[t] = "dropped" -> "dropped"
      [] OTHER -> IF t \in cancel /\ result[t] # "ok" THEN "cancelling" ELSE "running"

Port == INSTANCE TurnPort WITH turn <- [t \in Turns |-> PortState(t)]

\* AcpTurnPort is a turn port: a turn ends once, a turn that was told to stop
\* before it had an answer never ends as completed, whatever the order in which
\* cancel, answer, timeout and failure arrive, and only a completed one is stored.
ImplementsTurnPort == Port!Spec
=============================================================================
