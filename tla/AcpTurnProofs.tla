--------------------------- MODULE AcpTurnProofs ---------------------------
(***************************************************************************)
(* Proofs about AcpTurn, for any number of turns and handshakes: what an   *)
(* exchange leaves behind when it has returned, and that AcpTurnPort       *)
(* implements TurnPort.  AcpInv adds to the types how the process, the     *)
(* cancel channel and the decision of the select belong to the place where *)
(* an exchange is.                                                         *)
(***************************************************************************)
EXTENDS AcpTurn, TLAPS

\* Before anything is launched there is no process; and none is left at the end.
Launched ==
    \A e \in Exchanges :
        /\ pc[e] \in {"new", "registered", "started", "resolve"} => e \notin child /\ helper[e] = "none"
        /\ pc[e] \in {"done", "dropped"} => e \notin child
        /\ pc[e] = "done" => helper[e] # "holds" /\ e \notin active

\* A handshake sends no prompt, so no text arrives in it.
NoPrompt == \A h \in Handshakes : stage[h] # "prompt"

\* The select decides once, and a turn is known before it can be cancelled.
DecidedOnce ==
    \A e \in Exchanges :
        /\ pc[e] \in {"new", "registered", "started", "resolve", "talk"} => result[e] = "none"
        /\ pc[e] \in {"kill", "drain"} => result[e] # "none"
        /\ pc[e] = "new" => e \notin active /\ e \notin cancel
        /\ result[e] = "cancelled" => e \in cancel

AcpInv == AcpTypeOK /\ Launched /\ NoPrompt /\ DecidedOnce

-----------------------------------------------------------------------------

LEMMA AcpInitInv == Init => AcpInv
  <1> SUFFICES ASSUME Init PROVE AcpInv
    OBVIOUS
  <1>1. windows \in BOOLEAN /\ task \in BOOLEAN
    BY Zenon DEF Init
  <1>2. AcpTypeOK
    BY <1>1 DEF Init, AcpTypeOK
  <1>3. Launched /\ NoPrompt /\ DecidedOnce
    BY DEF Init, Launched, NoPrompt, DecidedOnce, Exchanges
  <1>. QED BY <1>2, <1>3 DEF AcpInv

\* The first steps of a turn.
LEMMA TurnBeginInv ==
    ASSUME AcpInv, NEW t \in Turns,
           \/ RunAgentTurn(t) \/ OnStarted(t) \/ LateStartCancel(t) \/ ResolveBackend(t)
           \/ CannotLaunch(t) \/ Launch(t) \/ CancelAgentTurn(t)
    PROVE  AcpInv'
  <1> USE AcpAssumption DEF AcpInv, AcpTypeOK, Launched, NoPrompt, DecidedOnce, Exchanges, procVars
  <1>1. CASE RunAgentTurn(t)
    BY <1>1 DEF RunAgentTurn
  <1>2. CASE OnStarted(t)
    BY <1>2 DEF OnStarted
  <1>3. CASE LateStartCancel(t)
    BY <1>3 DEF LateStartCancel, Finish
  <1>4. CASE CannotLaunch(t)
    BY <1>4 DEF CannotLaunch, Finish
  <1>5. CASE Launch(t)
    BY <1>5 DEF Launch, Spawned
  <1>6. CASE CancelAgentTurn(t)
    BY <1>6 DEF CancelAgentTurn
  <1>7. CASE ResolveBackend(t)
    BY <1>7 DEF ResolveBackend
  <1>. QED BY <1>1, <1>2, <1>3, <1>4, <1>5, <1>6, <1>7

\* The first steps of a handshake.
LEMMA HandshakeBeginInv ==
    ASSUME AcpInv, NEW h \in Handshakes, GetTask(h) \/ OpenSessionHandshake(h)
    PROVE  AcpInv'
  <1> USE AcpAssumption DEF AcpInv, AcpTypeOK, Launched, NoPrompt, DecidedOnce, Exchanges, procVars
  <1>1. CASE GetTask(h)
    BY <1>1 DEF GetTask, Finish
  <1>2. CASE OpenSessionHandshake(h)
    BY <1>2 DEF OpenSessionHandshake, Spawned, Finish
  <1>. QED BY <1>1, <1>2

\* The agent process.
LEMMA AgentInv ==
    ASSUME AcpInv, NEW e \in Exchanges,
           AgentAnswers(e) \/ AgentSays(e) \/ AgentFails(e) \/ AgentForks(e) \/ HelperExits(e)
    PROVE  AcpInv'
  <1> USE AcpAssumption DEF AcpInv, AcpTypeOK, Launched, NoPrompt, DecidedOnce, Exchanges, procVars
  <1>1. CASE AgentAnswers(e)
    <2>1. AfterStage(e) \in {"session", "prompt", "answered"}
          /\ (e \in Handshakes => AfterStage(e) # "prompt")
      BY <1>1 DEF AgentAnswers, Talks, AfterStage
    <2>. QED BY <1>1, <2>1 DEF AgentAnswers
  <1>2. CASE AgentSays(e)
    BY <1>2 DEF AgentSays, Talks
  <1>3. CASE AgentFails(e)
    BY <1>3 DEF AgentFails, Talks
  <1>4. CASE AgentForks(e)
    BY <1>4 DEF AgentForks
  <1>5. CASE HelperExits(e)
    BY <1>5 DEF HelperExits
  <1>. QED BY <1>1, <1>2, <1>3, <1>4, <1>5

\* The end of an exchange.
LEMMA EndInv ==
    ASSUME AcpInv, NEW e \in Exchanges,
           \/ Select(e) \/ TimeOut(e) \/ KillProcessTree(e) \/ DropExchange(e)
           \/ e \in Turns /\ EndTurn(e)
           \/ e \in Handshakes /\ EndHandshake(e)
    PROVE  AcpInv'
  <1> USE AcpAssumption DEF AcpInv, AcpTypeOK, Launched, NoPrompt, DecidedOnce, Exchanges, procVars
  <1>1. CASE Select(e)
    BY <1>1 DEF Select, Decided
  <1>2. CASE TimeOut(e)
    BY <1>2 DEF TimeOut, Decided
  <1>3. CASE KillProcessTree(e)
    BY <1>3 DEF KillProcessTree
  <1>4. CASE DropExchange(e)
    BY <1>4 DEF DropExchange
  <1>5. CASE e \in Turns /\ EndTurn(e)
    <2>1. PICK how \in Told(e) : Finish(e, how)
      BY <1>5 DEF EndTurn
    <2>2. how \in {"completed", "cancelled", "error"}
      BY <1>5, <2>1 DEF EndTurn, Drained, Told
    <2>. QED BY <1>5, <2>1, <2>2 DEF EndTurn, SaveAnswer, Drained, Finish
  <1>6. CASE e \in Handshakes /\ EndHandshake(e)
    BY <1>6 DEF EndHandshake, EnterTask, Drained, Finish
  <1>. QED BY <1>1, <1>2, <1>3, <1>4, <1>5, <1>6

LEMMA AcpNextInv == AcpInv /\ [Next]_vars => AcpInv'
  <1> SUFFICES ASSUME AcpInv, [Next]_vars PROVE AcpInv'
    OBVIOUS
  <1>1. CASE UNCHANGED vars
    BY <1>1 DEF vars, procVars, AcpInv, AcpTypeOK, Launched, NoPrompt, DecidedOnce
  <1>2. CASE KillTask
    BY <1>2 DEF KillTask, procVars, AcpInv, AcpTypeOK, Launched, NoPrompt, DecidedOnce
  <1>3. \A e \in Turns : e \in Exchanges
    BY DEF Exchanges
  <1>. QED BY <1>1, <1>2, <1>3, TurnBeginInv, HandshakeBeginInv, AgentInv, EndInv DEF Next, Step

LEMMA AcpInvariance == Spec => []AcpInv
  BY AcpInitInv, AcpNextInv, PTL DEF Spec

\* Turns are turns and handshakes are handshakes: no text arrives in a
\* handshake, and none is cancelled or stored.
THEOREM AcpTyped == Spec => []AcpTypeOK
  <1>1. AcpInv => AcpTypeOK
    BY DEF AcpInv
  <1>. QED BY <1>1, AcpInvariance, PTL

\* run_acp_turn and open_session_handshake return with their process reaped and
\* its standard error closed, and a turn that returned cannot be cancelled.
THEOREM NothingIsLeftBehind == Spec => []NothingLeftBehind
  <1>1. AcpInv => NothingLeftBehind
    BY DEF AcpInv, Launched, NothingLeftBehind
  <1>. QED BY <1>1, AcpInvariance, PTL

-----------------------------------------------------------------------------
(* AcpTurnPort implements TurnPort: PortState is the refinement mapping.    *)

\* A step that changes the state of turn t alone is a move of that turn.
LEMMA MovesOne ==
    ASSUME NEW t \in Turns, NEW from, NEW to,
           PortState(t) \in from, PortState(t)' = to,
           \A s \in Turns \ {t} : PortState(s)' = PortState(s)
    PROVE  Port!Move(t, from, to)
  BY DEF Port!Move

\* A step that changes the state of no turn, and stores nothing, is a stutter.
LEMMA MovesNone ==
    ASSUME saved' = saved, \A s \in Turns : PortState(s)' = PortState(s)
    PROVE  UNCHANGED Port!portVars
  BY DEF Port!portVars

\* The state of a turn depends on its own entries only.
LEMMA OwnEntries ==
    ASSUME NEW s \in Turns, pc'[s] = pc[s], outcome'[s] = outcome[s], result'[s] = result[s],
           s \in cancel' <=> s \in cancel
    PROVE  PortState(s)' = PortState(s)
  BY DEF PortState

\* The beginning of a turn.
LEMMA BeginMoves ==
    ASSUME AcpInv, NEW t \in Turns,
           \/ RunAgentTurn(t) \/ OnStarted(t) \/ LateStartCancel(t) \/ ResolveBackend(t)
           \/ CannotLaunch(t) \/ Launch(t) \/ CancelAgentTurn(t)
    PROVE  [Port!Next]_(Port!portVars)
  <1> USE DEF AcpInv, AcpTypeOK, Exchanges
  <1>0. /\ saved' = saved /\ result' = result
        /\ \A s \in Turns \ {t} : PortState(s)' = PortState(s)
    <2>1. \A s \in Turns \ {t} : /\ pc'[s] = pc[s] /\ outcome'[s] = outcome[s]
                                 /\ s \in cancel' <=> s \in cancel
      BY DEF RunAgentTurn, OnStarted, LateStartCancel, ResolveBackend, CannotLaunch, Launch, Spawned,
             Finish, CancelAgentTurn
    <2>2. saved' = saved /\ result' = result
      BY DEF RunAgentTurn, OnStarted, LateStartCancel, ResolveBackend, CannotLaunch, Launch, CancelAgentTurn
    <2>. QED BY <2>1, <2>2, OwnEntries
  <1>1. CASE RunAgentTurn(t)
    <2>1. PortState(t) \in {"off"} /\ PortState(t)' = "running"
      BY <1>1 DEF RunAgentTurn, PortState, DecidedOnce
    <2>. QED BY <1>0, <2>1, MovesOne DEF Port!Next, Port!Start
  <1>2. CASE OnStarted(t) \/ ResolveBackend(t)
    <2>1. PortState(t)' = PortState(t)
      BY <1>2 DEF OnStarted, ResolveBackend, PortState
    <2>. QED BY <1>0, <2>1, MovesNone
  <1>3. CASE LateStartCancel(t)
    <2>1. PortState(t) \in {"running", "cancelling"} /\ PortState(t)' = "cancelled"
      BY <1>3 DEF LateStartCancel, Finish, PortState, DecidedOnce
    <2>. QED BY <1>0, <2>1, MovesOne DEF Port!Next, Port!Obey
  <1>4. CASE CannotLaunch(t)
    <2>1. PortState(t) \in {"running", "cancelling"} /\ PortState(t)' = "error"
      BY <1>4 DEF CannotLaunch, Finish, PortState
    <2>. QED BY <1>0, <2>1, MovesOne DEF Port!Next, Port!Fail
  <1>5. CASE Launch(t)
    <2>1. PortState(t)' = PortState(t)
      BY <1>5 DEF Launch, Spawned, PortState
    <2>. QED BY <1>0, <2>1, MovesNone
  <1>6. CASE CancelAgentTurn(t)
    <2>1. \/ PortState(t)' = PortState(t)
          \/ PortState(t) \in {"running"} /\ PortState(t)' = "cancelling"
      BY <1>6 DEF CancelAgentTurn, PortState, DecidedOnce
    <2>. QED BY <1>0, <2>1, MovesOne, MovesNone DEF Port!Next, Port!Cancel
  <1>. QED BY <1>1, <1>2, <1>3, <1>4, <1>5, <1>6

\* The end of a turn.
LEMMA EndMoves ==
    ASSUME AcpInv, NEW t \in Turns,
           Select(t) \/ TimeOut(t) \/ KillProcessTree(t) \/ EndTurn(t) \/ DropExchange(t)
    PROVE  [Port!Next]_(Port!portVars)
  <1> USE DEF AcpInv, AcpTypeOK, Exchanges
  <1>0. \A s \in Turns \ {t} : PortState(s)' = PortState(s)
    <2>1. \A s \in Turns \ {t} : /\ pc'[s] = pc[s] /\ outcome'[s] = outcome[s] /\ result'[s] = result[s]
                                 /\ s \in cancel' <=> s \in cancel
      BY DEF Select, TimeOut, Decided, KillProcessTree, EndTurn, Finish, DropExchange
    <2>. QED BY <2>1, OwnEntries
  <1>1. CASE Select(t) \/ TimeOut(t)
    <2>1. PortState(t)' = PortState(t) /\ saved' = saved
      BY <1>1 DEF Select, TimeOut, Decided, PortState, DecidedOnce
    <2>. QED BY <1>0, <2>1, MovesNone
  <1>2. CASE KillProcessTree(t)
    <2>1. PortState(t)' = PortState(t) /\ saved' = saved
      BY <1>2 DEF KillProcessTree, PortState
    <2>. QED BY <1>0, <2>1, MovesNone
  <1>3. CASE DropExchange(t)
    <2>1. PortState(t) \in {"running", "cancelling"} /\ PortState(t)' = "dropped" /\ saved' = saved
      BY <1>3 DEF DropExchange, PortState
    <2>. QED BY <1>0, <2>1, MovesOne DEF Port!Next, Port!Drop
  <1>4. CASE EndTurn(t)
    <2>0. PICK how \in Told(t) : Finish(t, how)
      BY <1>4 DEF EndTurn
    <2>1. pc[t] = "drain" /\ pc'[t] = "done" /\ outcome'[t] = how /\ result[t] # "none"
      BY <1>4, <2>0 DEF EndTurn, Drained, Finish, DecidedOnce
    <2>2. CASE result[t] = "ok"
      <3>1. PortState(t) \in {"running"} /\ PortState(t)' = "completed"
        BY <2>0, <2>1, <2>2 DEF Told, PortState
      <3>2. saved' \in {saved, saved \cup {t}}
        BY <1>4 DEF EndTurn, SaveAnswer
      <3>. QED BY <1>0, <3>1, <3>2, MovesOne DEF Port!Next, Port!Complete
    <2>3. CASE result[t] # "ok"
      <3>1. saved' = saved
        BY <1>4, <2>3 DEF EndTurn, SaveAnswer
      <3>2. how \in {"error", "cancelled"}
        BY <2>0, <2>1, <2>3 DEF Told
      <3>3. PortState(t) \in {"running", "cancelling"} /\ PortState(t)' = how
        BY <2>1, <2>3 DEF PortState
      <3>. QED BY <1>0, <3>1, <3>2, <3>3, MovesOne DEF Port!Next, Port!Fail, Port!Obey
    <2>. QED BY <2>2, <2>3
  <1>. QED BY <1>1, <1>2, <1>3, <1>4

\* The agent process, and what happens in a handshake, is not seen at the port.
LEMMA OthersStutter ==
    ASSUME AcpInv, NEW e \in Exchanges,
           \/ AgentAnswers(e) \/ AgentSays(e) \/ AgentFails(e) \/ AgentForks(e) \/ HelperExits(e)
           \/ /\ e \in Handshakes
              /\ \/ GetTask(e) \/ OpenSessionHandshake(e) \/ Select(e) \/ TimeOut(e)
                 \/ KillProcessTree(e) \/ EndHandshake(e) \/ DropExchange(e)
    PROVE  UNCHANGED Port!portVars
  <1> USE AcpAssumption DEF AcpInv, AcpTypeOK, Exchanges
  <1>1. saved' = saved /\ cancel' = cancel
    BY DEF AgentAnswers, AgentSays, AgentFails, AgentForks, HelperExits, GetTask,
           OpenSessionHandshake, Select, TimeOut, Decided, KillProcessTree, EndHandshake, DropExchange
  <1>2. \A s \in Turns : pc'[s] = pc[s] /\ outcome'[s] = outcome[s] /\ result'[s] = result[s]
    BY DEF AgentAnswers, AgentSays, AgentFails, AgentForks, HelperExits, GetTask, Finish,
           OpenSessionHandshake, Spawned, Select, TimeOut, Decided, KillProcessTree, EndHandshake,
           DropExchange
  <1>. QED BY <1>1, <1>2, OwnEntries, MovesNone

\* AcpTurnPort implements the turn port the event loops rely on: a turn ends at
\* most once, one that was told to stop before it was answered never completes,
\* and only a completed turn is stored, for any number of turns at once.
THEOREM TurnPortImplemented == Spec => ImplementsTurnPort
  <1>1. Init => Port!Init
    BY DEF Init, Port!Init, PortState, Exchanges
  <1>2. AcpInv /\ [Next]_vars => [Port!Next]_(Port!portVars)
    <2> SUFFICES ASSUME AcpInv, [Next]_vars PROVE [Port!Next]_(Port!portVars)
      OBVIOUS
    <2>1. CASE UNCHANGED vars
      <3>1. pc' = pc /\ outcome' = outcome /\ result' = result /\ cancel' = cancel /\ saved' = saved
        BY <2>1 DEF vars
      <3>2. \A s \in Turns : PortState(s)' = PortState(s)
        BY <3>1, OwnEntries
      <3>. QED BY <3>1, <3>2, MovesNone
    <2>2. CASE KillTask
      <3>1. pc' = pc /\ outcome' = outcome /\ result' = result /\ cancel' = cancel /\ saved' = saved
        BY <2>2 DEF KillTask
      <3>2. \A s \in Turns : PortState(s)' = PortState(s)
        BY <3>1, OwnEntries
      <3>. QED BY <3>1, <3>2, MovesNone
    <2>3. \A e \in Exchanges : e \in Turns \/ e \in Handshakes
      BY DEF Exchanges
    <2>4. \A e \in Handshakes : e \in Exchanges
      BY DEF Exchanges
    <2>. QED BY <2>1, <2>2, <2>3, <2>4, BeginMoves, EndMoves, OthersStutter DEF Next, Step
  <1>. QED BY <1>1, <1>2, AcpInvariance, PTL DEF Spec, ImplementsTurnPort, Port!Spec

=============================================================================
