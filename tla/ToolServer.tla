---------------------------- MODULE ToolServer -----------------------------
(***************************************************************************)
(* The tool server of a session (crates/team/src/mcp/server.rs with        *)
(* tool_executor.rs and mcp/tools.rs) on the task board, the mailbox, the  *)
(* projection of mailbox rows into conversations (message_projection.rs)   *)
(* and the wake of an agent.                                               *)
(*                                                                         *)
(* A connection handles one request after the other; several connections   *)
(* run at the same time, and outlive the accept loop that made them.       *)
(* Stopping the session, spawning, renaming and the details of removing a  *)
(* member are in TeamService, the work coordinator in SlotWork.  Requests  *)
(* that are refused change nothing.  Left out: the rows that no tool       *)
(* writes (the user's, and the notices of idle, interrupted and failed     *)
(* agents, which TeamSession has and their writers do not project), texts, *)
(* files, what the answers look like.                                      *)
(***************************************************************************)
EXTENDS TaskBoard, WakeSummary

CONSTANTS Lead,         \* the slot of the lead
          NoSlot,       \* an initialize request without slot_id
          MaxMail,      \* bound: mailbox rows ever written
          MaxRequests   \* bound: tool calls ever made

ASSUME ToolAssumption ==
    /\ Lead \in Slots
    /\ NoSlot \notin Slots
    /\ MaxMail \in Nat
    /\ MaxRequests \in Nat

VARIABLES listening,   \* the accept loops run
          conn,        \* [st, slot] of every connection
          requests,    \* tool calls made so far
          roster,      \* slots of the scheduler
          mail,        \* mailbox rows [to, from, kind, read]
          bubbles,     \* the mailbox rows that have a message in the conversation
          committed,   \* the rows that a call has made work of, until they are read
          send,        \* team_send_message in progress, one per connection
          wake,        \* of every slot: rows its loop has seen, claimed, and must project
          removal,     \* slots with a removal that was scheduled by shutdown_approved
          unshown,     \* history: rows without a bubble whose projection failed, or that
                       \* another call committed than the one that projects them
          approved     \* history: slots that sent shutdown_approved

mailVars == <<mail, bubbles, committed, send, wake, unshown>>
toolVars == <<listening, conn, requests, roster, mailVars, removal, approved>>
allVars  == <<boardVars, toolVars>>

\* A shutdown_rejected is a message too, but one that its writer does not project.
Kinds == {"message", "shutdown_request", "shutdown_rejected"}
Rows  == 1..Len(mail)

Row(to, from, kind) == [to |-> to, from |-> from, kind |-> kind, read |-> FALSE]

\* A projection in progress: pc says what comes next for row.
Projection(pc, row) == [pc |-> pc, row |-> row]
NoProjection        == Projection("none", 0)

NotSending == [todo |-> {}, proj |-> NoProjection]
NotAwake   == [seen |-> {}, rows |-> {}, todo |-> {}, proj |-> NoProjection]

Init ==
    /\ BoardInit
    /\ listening = TRUE
    /\ conn = [c \in Callers |-> [st |-> "Free", slot |-> NoSlot]]
    /\ requests = 0
    /\ roster = Slots
    /\ mail = <<>>
    /\ bubbles = {}
    /\ committed = {}
    /\ send = [c \in Callers |-> NotSending]
    /\ wake = [s \in Slots |-> NotAwake]
    /\ removal = {}
    /\ unshown = {}
    /\ approved = {}

-----------------------------------------------------------------------------
\* Connections.

\* accept_loop hands a new stream to handle_connection.
Accept(c) ==
    /\ listening
    /\ conn[c].st = "Free"
    /\ conn' = [conn EXCEPT ![c].st = "Open"]
    /\ UNCHANGED <<boardVars, listening, requests, roster, mailVars, removal, approved>>

\* handle_initialize with the right token; anything else is refused before it.
Initialize(c, slot) ==
    /\ conn[c].st = "Open"
    /\ conn' = [conn EXCEPT ![c] = [st |-> "Ready", slot |-> slot]]
    /\ UNCHANGED <<boardVars, listening, requests, roster, mailVars, removal, approved>>

\* http_mcp_loop: a stream that carries one request with the bearer token.
AcceptHttp(c, slot) ==
    /\ listening
    /\ conn[c].st = "Free"
    /\ conn' = [conn EXCEPT ![c] = [st |-> "Once", slot |-> slot]]
    /\ UNCHANGED <<boardVars, listening, requests, roster, mailVars, removal, approved>>

InCall(c) == call[c].pc # "idle" \/ send[c] # NotSending

\* The stream ends, or an answer cannot be written: only between two requests.
Disconnect(c) ==
    /\ conn[c].st \in {"Open", "Ready"}
    /\ ~InCall(c)
    /\ conn' = [conn EXCEPT ![c].st = "Closed"]
    /\ UNCHANGED <<boardVars, listening, requests, roster, mailVars, removal, approved>>

\* TeamMcpServer::stop, and its Drop: the accept loops end, connections do not.
StopServer ==
    /\ listening
    /\ listening' = FALSE
    /\ UNCHANGED <<boardVars, conn, requests, roster, mailVars, removal, approved>>

\* The role of a caller that is not in the roster is Teammate.
IsLead(slot) == slot = Lead /\ slot \in roster

\* tool_specs, by the permission of the tools.
AnyTeamAgentTools ==
    {"team_members", "team_send_message", "team_task_create", "team_task_update",
     "team_task_list", "team_list_assistants", "team_describe_assistant"}
LeadOnlyTools == {"team_spawn_agent", "team_rename_agent", "team_shutdown_agent"}

\* TeamToolName
Tools == AnyTeamAgentTools \cup LeadOnlyTools

\* authorize_tool
Authorized(slot, tool) == tool \in Tools /\ (tool \in LeadOnlyTools => IsLead(slot))

\* handle_tools_list
ToolsList(slot) == {tool \in Tools : IsLead(slot) \/ tool \notin LeadOnlyTools}

\* The tools of dispatch_tool that change nothing.
ReadOnlyTools ==
    {"team_members", "team_task_list", "team_list_assistants", "team_describe_assistant"}

\* A connection that may make a request; an HTTP stream makes no other.
NextRequest(c) ==
    /\ conn[c].st \in {"Ready", "Once"}
    /\ ~InCall(c)
    /\ conn' = [conn EXCEPT ![c].st = IF @ = "Once" THEN "Closed" ELSE @]

\* handle_tools_call
BeginRequest(c, tool) ==
    /\ requests < MaxRequests
    /\ NextRequest(c)
    /\ Authorized(conn[c].slot, tool)
    /\ requests' = requests + 1

\* handle_method: any other request is answered and changes nothing, nor does a
\* tool that is refused.
OtherRequest(c) ==
    /\ NextRequest(c)
    /\ ReadOnlyTools \cup (Tools \ ToolsList(conn[c].slot)) # {}
    /\ UNCHANGED <<boardVars, listening, requests, roster, mailVars, removal, approved>>

\* resolve_agent_target
Target(t) == t \in roster

-----------------------------------------------------------------------------
\* Tools of the board, for any caller.

TaskCreate(c, owner, deps) ==
    /\ BeginRequest(c, "team_task_create")
    /\ CreateTask(c, owner, deps)
    /\ UNCHANGED <<listening, roster, mailVars, removal, approved>>

TaskUpdate(c, t, update) ==
    /\ BeginRequest(c, "team_task_update")
    /\ ReadForUpdate(c, t, update)
    /\ UNCHANGED <<listening, roster, mailVars, removal, approved>>

TaskStep(c) ==
    /\ BoardStep(c)
    /\ UNCHANGED toolVars

\* parse_task_list_filters, without a limit: include_deleted counts only if no
\* statuses are given.
Filters(owners, statuses, includeDeleted) ==
    [owners   |-> owners,
     statuses |-> IF statuses # {} THEN statuses
                  ELSE IF includeDeleted THEN Statuses ELSE Statuses \ {"deleted"}]

\* exec_task_list
TaskList(f) == {t \in TaskIds : tasks[t].owner \in f.owners /\ tasks[t].status \in f.statuses}

-----------------------------------------------------------------------------
\* Messages.

\* exec_send_message up to the list of targets: one slot of the roster, or all others.
SendMessage(c, targets) ==
    /\ Len(mail) < MaxMail
    /\ BeginRequest(c, "team_send_message")
    /\ \/ \E t \in Slots : Target(t) /\ targets = {t}
       \/ targets = roster \ {conn[c].slot}
    /\ targets # {}
    /\ send' = [send EXCEPT ![c].todo = targets]
    /\ UNCHANGED <<boardVars, listening, roster, mail, bubbles, committed, wake, unshown, removal, approved>>

\* The mailbox gets a row; its conversation has no message for it yet.
WriteRow(to, from, kind) ==
    /\ Len(mail) < MaxMail
    /\ mail' = Append(mail, Row(to, from, kind))

\* Mutant: the sender is not looked up.
SendUnchecked(c, t) ==
    /\ t \in send[c].todo
    /\ send[c].proj = NoProjection
    /\ t \in roster
    /\ WriteRow(t, conn[c].slot, "message")
    /\ send' = [send EXCEPT ![c] = [todo |-> send[c].todo \ {t},
                                    proj |-> Projection("find", Len(mail'))]]
    /\ UNCHANGED <<boardVars, listening, conn, requests, roster, bubbles, committed, wake,
                   unshown, removal, approved>>

\* send_agent_message_from_agent of one target: both agents must be there.
SendOne(c, t) ==
    /\ t \in send[c].todo
    /\ send[c].proj = NoProjection
    /\ {t, conn[c].slot} \subseteq roster
    /\ WriteRow(t, conn[c].slot, "message")
    /\ send' = [send EXCEPT ![c] = [todo |-> send[c].todo \ {t},
                                    proj |-> Projection("find", Len(mail'))]]
    /\ UNCHANGED <<boardVars, listening, conn, requests, roster, bubbles, committed, wake,
                   unshown, removal, approved>>

\* ... or the request fails, since an agent is gone, its slot takes no work or
\* the row is not written, and leaves out the targets that come later.
SendFails(c) ==
    /\ send[c].todo # {}
    /\ send[c].proj = NoProjection
    /\ send' = [send EXCEPT ![c] = NotSending]
    /\ UNCHANGED <<boardVars, listening, conn, requests, roster, mail, bubbles, committed, wake,
                   unshown, removal, approved>>

\* TeamMessageProjection::project looks for the message of the row ...
Found(row) == row \in bubbles

\* ... and inserts it: the store refuses a second one with the same id.
InsertBubble(row) ==
    /\ bubbles' = bubbles \cup {row}
    /\ unshown' = unshown \ {row}

\* A step of a projection: what comes after it is "next", whether the message
\* was found, was inserted, or the store has failed, which is only logged.
Project(p, next, q) ==
    \/ /\ p.pc = "find" /\ ~Found(p.row)
       /\ q = Projection("insert", p.row)
       /\ UNCHANGED <<bubbles, unshown>>
    \/ /\ p.pc = "find" /\ Found(p.row)
       /\ q = next
       /\ UNCHANGED <<bubbles, unshown>>
    \/ /\ p.pc = "insert"
       /\ InsertBubble(p.row)
       /\ q = next
    \/ /\ p.pc \in {"find", "insert"}
       /\ unshown' = unshown \cup ({p.row} \ bubbles)
       /\ q = next
       /\ UNCHANGED bubbles

\* The sender projects the row it has written ...
ProjectSent(c) ==
    LET p == send[c].proj
    IN  /\ \E q \in {NoProjection, Projection("insert", p.row), Projection("commit", p.row)} :
              /\ Project(p, Projection("commit", p.row), q)
              /\ send' = [send EXCEPT ![c].proj = q]
        /\ UNCHANGED <<boardVars, listening, conn, requests, roster, mail, committed, wake, removal, approved>>

MarkRead(rows) ==
    /\ mail' = [r \in Rows |-> IF r \in rows THEN [mail[r] EXCEPT !.read = TRUE] ELSE mail[r]]
    /\ committed' = committed \ rows

\* ... and then commits it; a row that the coordinator refuses is marked as read,
\* and the request fails.
CommitSent(c) ==
    LET row == send[c].proj.row
    IN  /\ send[c].proj.pc = "commit"
        /\ \/ /\ committed' = committed \cup {row}
              /\ send' = [send EXCEPT ![c].proj = NoProjection]
              /\ UNCHANGED mail
           \/ /\ MarkRead({row})
              /\ send' = [send EXCEPT ![c] = NotSending]
        /\ UNCHANGED <<boardVars, listening, conn, requests, roster, bubbles, wake, unshown, removal, approved>>

Unread(s) == {r \in Rows : mail[r].to = s /\ ~mail[r].read}

\* enqueue_existing_work of a row that another request may just be projecting; if
\* it is refused late, the row is marked as read.
CommitEarly(row) ==
    \/ /\ committed' = committed \cup {row}
       /\ unshown' = unshown \cup ({row} \ bubbles)
       /\ UNCHANGED mail
    \/ /\ MarkRead({row})
       /\ UNCHANGED unshown

\* wake_leader_after_recovery_message, after a shutdown_rejected, an interrupted
\* turn or a failed attach: the last unread row from slot s to the lead.
WakeLeader(s) ==
    /\ \E last \in Unread(Lead) :
          /\ \A r \in Unread(Lead) : mail[r].from = s => r <= last
          /\ mail[last].from = s
          /\ CommitEarly(last)
    /\ UNCHANGED <<boardVars, listening, conn, requests, roster, bubbles, send, wake, removal, approved>>

\* try_start_recovery_drain, a while after the session has started: what others
\* have sent to slot s.
RecoveryDrain(s) ==
    /\ s \in roster
    /\ \E row \in Unread(s) : mail[row].from # s /\ CommitEarly(row)
    /\ UNCHANGED <<boardVars, listening, conn, requests, roster, bubbles, send, wake, removal, approved>>

\* prepare_next_batch of slot s looks at the unread rows of others ...
Peek(s) ==
    /\ s \in roster
    /\ wake[s].rows = {}
    /\ wake' = [wake EXCEPT ![s].seen = {r \in Unread(s) : mail[r].from # s}]
    /\ UNCHANGED <<boardVars, listening, conn, requests, roster, mail, bubbles, committed, send,
                   unshown, removal, approved>>

\* Mutant: the claim takes what is unread, not what the coordinator knows of.
ClaimsUnread(s) == Unread(s)

\* The work of slot s: rows that were seen or committed (shutdown_agent and the
\* recovery of the lead commit theirs at any time after the write).
Claimable(s) ==
    {r \in Unread(s) : r \in wake[s].seen \cup committed \/ mail[r].kind # "message"}

\* ... and claims some of the work there is by now.  Only what was seen before
\* gets into the input of the wake, which is what is projected.
Claim(s) ==
    /\ wake[s].rows = {}
    /\ \E rows \in SUBSET Claimable(s) :
          /\ rows # {}
          /\ wake' = [wake EXCEPT ![s] = [seen |-> {}, rows |-> rows, todo |-> rows \cap wake[s].seen,
                                          proj |-> NoProjection]]
    /\ UNCHANGED <<boardVars, listening, conn, requests, roster, mail, bubbles, committed, send,
                   unshown, removal, approved>>

\* mirror_unread_to_conversation projects the rows of the input one after the other.
Mirror(s) ==
    /\ \E row \in wake[s].todo, q \in {NoProjection} \cup {Projection("insert", r) : r \in wake[s].todo} :
          /\ \/ wake[s].proj = NoProjection /\ Project(Projection("find", row), NoProjection, q)
             \/ wake[s].proj = Projection("insert", row) /\ Project(wake[s].proj, NoProjection, q)
          /\ wake' = [wake EXCEPT ![s].proj = q, ![s].todo = IF q = NoProjection THEN @ \ {row} ELSE @]
    /\ UNCHANGED <<boardVars, listening, conn, requests, roster, mail, committed, send, removal, approved>>

\* The input of slot s has been projected and its turn runs.
TurnRuns(s) == wake[s].rows # {} /\ wake[s].todo = {}

\* The batch ends: its rows are read, or it is given back and the rows are claimed again.
EndWake(s, consumed) ==
    /\ TurnRuns(s)
    /\ wake' = [wake EXCEPT ![s] = NotAwake]
    /\ IF consumed THEN MarkRead(wake[s].rows) ELSE UNCHANGED <<mail, committed>>
    /\ UNCHANGED <<boardVars, listening, conn, requests, roster, bubbles, send, unshown, removal, approved>>

-----------------------------------------------------------------------------
\* The shutdown of a member by agreement.

\* TeamSession::shutdown_agent: the lead asks a teammate.
RequestShutdown(caller, t) == t # Lead /\ WriteRow(t, caller, "shutdown_request")

\* exec_shutdown_agent
ShutdownAgent(c, t) ==
    /\ BeginRequest(c, "team_shutdown_agent")
    /\ Target(t)
    /\ RequestShutdown(conn[c].slot, t)
    /\ UNCHANGED <<boardVars, listening, roster, bubbles, committed, send, wake, unshown, removal, approved>>

\* exec_send_message of "shutdown_approved": a removal is scheduled for later.
\* Whether the caller was asked, or may be removed at all, is not looked at.
ShutdownApproved(c) ==
    /\ BeginRequest(c, "team_send_message")
    /\ removal' = removal \cup {conn[c].slot}
    /\ approved' = approved \cup {conn[c].slot}
    /\ UNCHANGED <<boardVars, listening, roster, mailVars>>

\* exec_send_message of "shutdown_rejected": the lead is told.
ShutdownRejected(c) ==
    /\ BeginRequest(c, "team_send_message")
    /\ Lead \in roster
    /\ conn[c].slot # Lead
    /\ WriteRow(Lead, conn[c].slot, "shutdown_rejected")
    /\ UNCHANGED <<boardVars, listening, roster, bubbles, committed, send, wake, unshown, removal, approved>>

\* Mutant: the removal does not look at the role.
RemoveAnyone(s) ==
    /\ s \in removal
    /\ removal' = removal \ {s}
    /\ roster' = roster \ {s}
    /\ UNCHANGED <<boardVars, listening, conn, requests, mailVars, approved>>

\* The scheduled removal: remove_agent refuses the lead and slots that are gone.
RemoveApproved(s) ==
    /\ s \in removal
    /\ removal' = removal \ {s}
    /\ roster' = IF s = Lead THEN roster ELSE roster \ {s}
    /\ UNCHANGED <<boardVars, listening, conn, requests, mailVars, approved>>

-----------------------------------------------------------------------------

Next ==
    \/ StopServer
    \/ \E c \in Callers :
          \/ Accept(c)
          \/ \E s \in Slots \cup {NoSlot} : Initialize(c, s) \/ AcceptHttp(c, s)
          \/ Disconnect(c)
          \/ OtherRequest(c)
          \/ \E o \in Slots \cup {NoOwner}, deps \in SUBSET (1..MaxTasks) : TaskCreate(c, o, deps)
          \/ \E t \in TaskIds, u \in Updates : TaskUpdate(c, t, u)
          \/ TaskStep(c)
          \/ \E T \in SUBSET Slots : SendMessage(c, T)
          \/ \E t \in Slots : SendOne(c, t) \/ ShutdownAgent(c, t)
          \/ SendFails(c)
          \/ ProjectSent(c)
          \/ CommitSent(c)
          \/ ShutdownApproved(c)
          \/ ShutdownRejected(c)
    \/ \E s \in Slots \cup {NoSlot} : RemoveApproved(s)
    \/ \E s \in Slots :
          \/ WakeLeader(s)
          \/ RecoveryDrain(s)
          \/ Peek(s)
          \/ Claim(s)
          \/ Mirror(s)
          \/ \E consumed \in BOOLEAN : EndWake(s, consumed)

Spec == Init /\ [][Next]_allVars

-----------------------------------------------------------------------------

\* Types; a row for a teammate comes from somebody on the team, though a
\* connection may have been initialized without a slot, and a shutdown_request
\* comes from the lead and goes to a teammate.
ToolsTypeOK ==
    /\ BoardTypeOK
    /\ \A c \in Callers : /\ conn[c].st \in {"Free", "Open", "Ready", "Once", "Closed"}
                          /\ conn[c].slot \in Slots \cup {NoSlot}
                          /\ send[c].todo \subseteq Slots
                          /\ send[c].proj.pc # "none" => send[c].proj.row \in Rows
    /\ roster \subseteq Slots
    /\ bubbles \cup committed \subseteq Rows
    /\ \A r \in Rows :
          /\ mail[r].to \in Slots /\ mail[r].kind \in Kinds
          /\ mail[r].from \in Slots \cup (IF mail[r].to = Lead THEN {NoSlot} ELSE {})
          /\ mail[r].kind = "shutdown_request" => mail[r].from = Lead /\ mail[r].to # Lead
    /\ \A s \in Slots : wake[s].todo \subseteq wake[s].rows /\ wake[s].seen \cup wake[s].rows \subseteq Rows

\* An agent is not given a message that its conversation does not show: while a
\* turn runs, every message of its batch has been projected, by its sender or by
\* the wake, though the wake projects only what it saw before the claim and the
\* batch may hold what was committed since.  Excepted are rows whose projection
\* failed, and those that another call commits before they have been projected.
MessagesAreShown ==
    \A s \in Slots : TurnRuns(s) =>
        \A r \in wake[s].rows \ unshown : mail[r].kind = "message" => r \in bubbles

\* Nobody leaves the team by a tool but a teammate that agreed itself; the lead
\* stays, also when it sends shutdown_approved itself.
OnlyVolunteersLeave == Slots \ roster \subseteq approved \ {Lead}

\* The summaries that a wake of agent s may put into its prompt now.
SummariesOf(s) ==
    Selections(tasks, FilterSummaryInput(tasks, roster, NoOwner), s, s = Lead)

\* The rows that a filter by status gives and a summary does not show.
NotShown(statuses, shown) ==
    Cardinality(TaskList(Filters(Slots \cup {NoOwner}, statuses, FALSE)) \ shown)

\* The counts of every summary add up to the board, and each of them is the
\* number of tasks that team_task_list gives besides the ones shown, which is
\* where the summary sends the agent for the rest.
SummaryCountsAddUp ==
    LET visible == FilterSummaryInput(tasks, roster, NoOwner)
    IN  \A shown \in UNION {SummariesOf(s) : s \in roster} :
            /\ CountsAddUp(tasks, visible, shown)
            /\ Hidden(tasks, visible, shown) =
                   [active    |-> NotShown({"pending", "in_progress"}, shown),
                    completed |-> NotShown({"completed"}, shown),
                    deleted   |-> NotShown({"deleted"}, shown)]

\* Every summary shows the agent's own active tasks and their blockers before
\* anything else, also when the owner of a blocker has been removed.
SummaryShowsWhatMatters ==
    \A s \in roster : \A shown \in SummariesOf(s) : ShowsWhatMatters(tasks, s, shown)
=============================================================================
