---------------------------- MODULE Provisioning ----------------------------
(***************************************************************************)
(* Provisioning of the members of one team (crates/team/src/               *)
(* provisioning.rs, workspace.rs, service/spawn_support.rs, and            *)
(* set_session_mode and persist_agent_last_message of service.rs, over the *)
(* ports of crates/app/src/adapters.rs): the team row, the extra of every  *)
(* member's conversation, and the directories their workspaces name.       *)
(*                                                                         *)
(* The row is updated field by field; the extra of a conversation is read, *)
(* changed and written back as a whole, so that a patch may undo another   *)
(* that came in between, and the web client patches it too.  add_agent and *)
(* persist_spawned_agent hold the membership mutex; set_session_mode, the  *)
(* attach tasks, the last message of an agent and the client do not.  A    *)
(* backend with a model is a profile: what the code asks of it.  Left out: *)
(* names, what else an agent of the row holds (its last message, which is  *)
(* why the list is written), removal (module TeamService), the agents'     *)
(* processes beyond whether one is there, and a store that fails.          *)
(***************************************************************************)
EXTENDS Naturals, FiniteSets

CONSTANTS Initial,        \* the agents of the create request
          Fresh,          \* slot ids that are generated later
          Requests,       \* requests and attach tasks, one operation each
          Modes,          \* the session modes a user may ask for
          Profile,        \* of every slot the backend and the model, once they are known
          ClientChanges,  \* what the web client writes into an extra
          MaxLosses,      \* bound: directories that disappear
          None            \* a model value: nothing

Slots == Initial \cup Fresh

\* The directory of the create request, the one made for the lead's
\* conversation, and the temporary one of the team.
Directories == {"shared", "own", "temp"}

\* TeamRow: the agents, by their slots, the workspace and the session mode.
TeamRows == [agents : SUBSET Slots, ws : Directories, mode : Modes \cup {None}]

\* ConversationRow.extra: workspace, session_mode, current_mode_id and
\* team_mcp_stdio_config, None where there is no such key.
Extras == [ws : Directories \cup {None}, mode : Modes \cup {"auto", None},
           current : Modes \cup {None}, config : {"mcp", None}]

\* The keys of a change are inserted, the others stay.
Patched(old, change) ==
    [k \in DOMAIN old |-> IF k \in DOMAIN change THEN change[k] ELSE old[k]]

ASSUME ProvisioningAssumption ==
    /\ IsFiniteSet(Initial)
    /\ Initial \cap Fresh = {}
    /\ None \notin Slots \cup Requests \cup Directories \cup {"mcp", "cli"}
    /\ None \notin TeamRows
    /\ None \notin Extras
    /\ \A change \in ClientChanges, e \in Extras : Patched(e, change) \in Extras
    /\ MaxLosses \in Nat

VARIABLES row,     \* TeamRow, or None while the team is being created
          leads,   \* the agents with the role of a lead; lead_agent_id is the one
          home,    \* team_workspace of provision_initial_agents, while it runs
          extra,   \* ConversationRow.extra of every member, or None
          tasks,   \* the slots whose conversation has a process
          dirs,    \* the directories that exist
          mutex,   \* who holds the membership mutex, or None
          call,    \* the requests
          lost,    \* history: directories that were missing at some time
          edited,  \* history: slots whose extra the client has changed
          undone,  \* history: slots of which a patch has undone another
          dropped  \* history: members that a last message took off the row

rowVars == <<row, leads, home>>
history == <<edited, undone, dropped>>
vars == <<row, leads, home, extra, tasks, dirs, mutex, call, lost, edited, undone, dropped>>

-----------------------------------------------------------------------------
(* What a backend and a model ask for.                                      *)

\* acp_backend_metadata or parse_agent_type knows the backend.
KnownBackend(backend) == backend = "known"

\* should_route_model_to_claude: another backend with a model of the claude family.
RoutedToClaude(p) == p.routed

\* team_tool_transport
Transport(p) ==
    IF RoutedToClaude(p) \/ p.mcp THEN "mcp"
    ELSE IF p.cli THEN "cli" ELSE None

\* session_mode_for_backend: the full automatic mode of the backend.
BackendMode == "auto"

\* build_team_extra: the mode of the team, or else the one of the backend.
SeededMode(mode) == IF mode = None THEN BackendMode ELSE mode

\* resolve_requested_backend: the backend of the assistant, which must be in the
\* catalogue, or else the one asked for; None stands for an error.
ResolvedBackend(assistant, asked) ==
    CASE assistant = "selectable" -> {"known", "unknown"}
      [] assistant = "unknown"    -> {None}
      [] assistant = None         -> {asked}

\* What add_agent may come to, and spawn_agent, whose assistant is of the catalogue
\* (resolve_spawn_backend_and_model).
Backends ==
    UNION {ResolvedBackend(assistant, asked) :
              assistant \in {"selectable", "unknown", None}, asked \in {"known", "unknown", None}}

-----------------------------------------------------------------------------
(* The conversations.                                                       *)

\* The extra of a new conversation: create_team_conversation_for_agent.
NewExtra(ws, mode) ==
    [ws |-> ws, mode |-> SeededMode(mode), current |-> None, config |-> None]

\* conversation_workspace
ConversationWorkspace(m) == extra[m].ws

\* validate_workspace_path_availability
Exists(ws) == ws \in dirs

\* validate_create_workspace_path and usable_runtime_workspace
Usable(ws) == ws # None /\ Exists(ws)

\* update_team of the store: only the fields that are given are written.
UpdateTeam(field, value) == row' = [row EXCEPT ![field] = value]

NoPatch == [slot |-> None, change |-> <<>>, read |-> None, then |-> None]

Call(pc) ==
    [pc |-> pc, slot |-> None, snap |-> None,
     ws |-> None, mode |-> None, todo |-> {}, patch |-> NoPatch]

Set(t, c) == call' = [call EXCEPT ![t] = c]
Done == Call("done")

\* A request returns and gives the mutex back.
End(t) ==
    /\ Set(t, Done)
    /\ mutex' = IF mutex = t THEN None ELSE mutex

\* The request c starts a patch of the extra of m and then goes on at pc.
Patching(c, m, change, pc) ==
    [c EXCEPT !.pc = "patch",
              !.patch = [slot |-> m, change |-> change, read |-> None, then |-> pc]]

Init ==
    /\ row = None
    /\ leads = {}
    /\ home = None
    /\ extra = [m \in Slots |-> None]
    /\ tasks = {}
    /\ dirs = {"shared"}
    /\ mutex = None
    /\ call = [t \in Requests |-> Call("begin")]
    /\ lost = {}
    /\ edited = {}
    /\ undone = {}
    /\ dropped = {}

-----------------------------------------------------------------------------
(* create_team: the conversation of the lead, then those of the others, and *)
(* the row last.  A step that fails leaves what was made before it.         *)

\* provision_initial_agents: exactly one agent of the request is the lead.
OneLead(roles) == Cardinality({m \in Initial : roles[m] = "lead"}) = 1

\* resolve_initial_leader_workspace: the one the lead's conversation was
\* created with, which may be a directory that could not be made.
ProvisionLead ==
    /\ row = None /\ leads = {}
    /\ \E roles \in [Initial -> {"lead", "teammate"}] :
          /\ OneLead(roles)
          /\ leads' = {m \in Initial : roles[m] = "lead"}
    /\ \/ home' = "shared" /\ Usable("shared") /\ UNCHANGED <<dirs, lost>>
       \/ /\ home' = "own"
          /\ \/ dirs' = dirs \cup {"own"} /\ UNCHANGED lost
             \/ lost' = lost \cup {"own"} /\ UNCHANGED dirs
    /\ extra' = [m \in Slots |-> IF m \in leads' THEN NewExtra(home', None) ELSE None]
    /\ UNCHANGED <<row, tasks, mutex, call, history>>

\* The others, in the workspace of the team that is being created.
ProvisionTeammate(m) ==
    /\ row = None /\ leads # {}
    /\ m \in Initial /\ extra[m] = None
    /\ extra' = [extra EXCEPT ![m] = NewExtra(home, None)]
    /\ UNCHANGED <<rowVars, tasks, dirs, mutex, call, lost, history>>

CreateTeam ==
    /\ row = None /\ leads # {}
    /\ \A m \in Initial : extra[m] # None
    /\ row' = [agents |-> Initial, ws |-> home, mode |-> None]
    /\ home' = None
    /\ UNCHANGED <<leads, extra, tasks, dirs, mutex, call, lost, history>>

-----------------------------------------------------------------------------
(* add_agent and persist_spawned_agent.                                     *)

\* Mutant: the row is read without the mutex.
Unlocked(t, m) ==
    /\ extra[m] = None
    /\ Set(t, [call[t] EXCEPT !.pc = "resolve", !.slot = m, !.snap = row])
    /\ UNCHANGED mutex

\* The mutex is taken, and the row is read under it.
Locked(t, m) ==
    /\ extra[m] = None
    /\ mutex' = t
    /\ Set(t, [call[t] EXCEPT !.pc = "resolve", !.slot = m, !.snap = row])

\* add_agent, which only a teammate can be added with, and spawn_agent.
BeginAdd(t) ==
    /\ call[t].pc = "begin"
    /\ row # None
    /\ mutex = None
    /\ \E m \in Fresh, role \in {"lead", "teammate"} :
          \/ role = "teammate" /\ Locked(t, m)
          \/ role = "lead" /\ End(t)
    /\ UNCHANGED <<rowVars, extra, tasks, dirs, lost, history>>

\* The agent that lead_agent_id names.
LeadSlot == CHOOSE m \in leads : TRUE

\* resolve_from_leader: what the client made of it, if that can be used.
LeadWorkspaces == {ws \in {ConversationWorkspace(LeadSlot)} : Usable(ws)}

\* create_team_temp_workspace
CanMakeTemp == dirs' = dirs \cup {"temp"}

\* resolve_for_new_agent: the workspace of the row, or else the lead's, or else
\* the temporary one; the latter two are to be written to the row.
ResolveForNewAgent(t) ==
    LET c == call[t]
    IN  /\ c.pc = "resolve"
        /\ \/ /\ Usable(c.snap.ws)
              /\ Set(t, [c EXCEPT !.pc = "provision", !.ws = c.snap.ws])
              /\ UNCHANGED <<dirs, mutex>>
           \/ /\ ~Usable(c.snap.ws)
              /\ \E ws \in LeadWorkspaces : Set(t, [c EXCEPT !.pc = "backfill", !.ws = ws])
              /\ UNCHANGED <<dirs, mutex>>
           \/ /\ ~Usable(c.snap.ws) /\ LeadWorkspaces = {}
              /\ CanMakeTemp
              /\ Set(t, [c EXCEPT !.pc = "backfill", !.ws = "temp"])
              /\ UNCHANGED mutex
           \/ /\ ~Usable(c.snap.ws) /\ LeadWorkspaces = {}        \* it cannot be made
              /\ End(t)
              /\ UNCHANGED dirs
        /\ UNCHANGED <<rowVars, extra, tasks, lost, history>>

\* patch_leader_workspace_best_effort follows the temporary workspace only.
PatchLead(c) ==
    IF c.ws = "temp"
    THEN Patching(c, LeadSlot, [ws |-> c.ws], "provision")
    ELSE [c EXCEPT !.pc = "provision"]

\* Mutant: the workspace that was found is not recorded.
BackfillForgets(t) ==
    /\ call[t].pc = "backfill"
    /\ Set(t, PatchLead(call[t]))
    /\ UNCHANGED <<rowVars, extra, tasks, dirs, mutex, lost, history>>

\* write_team_workspace
WriteTeamWorkspace(t) ==
    /\ call[t].pc = "backfill"
    /\ UpdateTeam("ws", call[t].ws)
    /\ Set(t, PatchLead(call[t]))
    /\ UNCHANGED <<leads, home, extra, tasks, dirs, mutex, lost, history>>

\* provision_new_agent: an error if there is no backend, or none that is known.
CanProvision(backend) == backend # None /\ KnownBackend(backend)

ProvisionNewAgent(t) ==
    LET c == call[t]
    IN  /\ c.pc = "provision"
        /\ \E backend \in Backends :
              \/ /\ CanProvision(backend)
                 /\ extra' = [extra EXCEPT ![c.slot] = NewExtra(c.ws, c.snap.mode)]
                 /\ Set(t, [c EXCEPT !.pc = "persist"])
                 /\ UNCHANGED mutex
              \/ /\ ~CanProvision(backend)
                 /\ End(t)
                 /\ UNCHANGED extra
        /\ UNCHANGED <<rowVars, tasks, dirs, lost, history>>

\* persist_agents: the list that was read, with the new agent.
PersistAgents(t) ==
    /\ call[t].pc = "persist"
    /\ UpdateTeam("agents", call[t].snap.agents \cup {call[t].slot})
    /\ End(t)
    /\ UNCHANGED <<leads, home, extra, tasks, dirs, lost, history>>

-----------------------------------------------------------------------------
(* persist_agent_last_message: the list is read, and written back with what *)
(* one of its agents has said, without the membership mutex.                *)

BeginLastMessage(t) ==
    /\ call[t].pc = "begin"
    /\ row # None
    /\ Set(t, [call[t] EXCEPT !.pc = "reply", !.snap = row])
    /\ UNCHANGED <<rowVars, extra, tasks, dirs, mutex, lost, history>>

WriteLastMessage(t) ==
    /\ call[t].pc = "reply"
    /\ UpdateTeam("agents", call[t].snap.agents)
    /\ dropped' = dropped \cup (row.agents \ call[t].snap.agents)
    /\ Set(t, Done)
    /\ UNCHANGED <<leads, home, extra, tasks, dirs, mutex, lost, edited, undone>>

-----------------------------------------------------------------------------
(* patch_runtime_config: the extra is read, changed and written as a whole. *)

PatchRead(t) ==
    LET c == call[t]
    IN  /\ c.pc = "patch"
        /\ Set(t, [c EXCEPT !.pc = "write", !.patch.read = extra[c.patch.slot]])
        /\ UNCHANGED <<rowVars, extra, tasks, dirs, mutex, lost, history>>

\* Only the client's patch ends with its write.
ByClient(p) == p.then = "done" /\ DOMAIN p.change # {}

\* The write of patch p takes back what another has written since it has read.
Undoes(p) == Patched(p.read, p.change) # Patched(extra[p.slot], p.change)

PatchWrite(t) ==
    LET c == call[t]
        p == c.patch
    IN  /\ c.pc = "write"
        /\ extra' = [extra EXCEPT ![p.slot] = Patched(p.read, p.change)]
        /\ Set(t, [c EXCEPT !.pc = p.then, !.patch = NoPatch])
        /\ edited' = edited \cup {m \in {p.slot} : ByClient(p)}
        /\ undone' = undone \cup {m \in {p.slot} : Undoes(p)}
        /\ UNCHANGED <<rowVars, tasks, dirs, mutex, lost, dropped>>

-----------------------------------------------------------------------------
(* set_session_mode: the row, then every agent of the team as it was read.  *)

BeginMode(t) ==
    /\ call[t].pc = "begin"
    /\ row # None
    /\ \E mode \in Modes :
          Set(t, [call[t] EXCEPT !.pc = "row", !.mode = mode, !.todo = row.agents])
    /\ UNCHANGED <<rowVars, extra, tasks, dirs, mutex, lost, history>>

WriteMode(t) ==
    /\ call[t].pc = "row"
    /\ UpdateTeam("mode", call[t].mode)
    /\ Set(t, [call[t] EXCEPT !.pc = "agents"])
    /\ UNCHANGED <<leads, home, extra, tasks, dirs, mutex, lost, history>>

\* set_active_agent_session_mode: a running agent may refuse the mode.
Refusing(m) == m \in tasks

\* update_session_mode_seed, which goes on at "current".
SeedMode(c, m) == Patching(c, m, [mode |-> c.mode], "current")

\* The agents in the order of the list (a fixed one), unless an agent refused.
SetAgentMode(t) ==
    LET c == call[t]
        m == CHOOSE x \in c.todo : TRUE
        next == [c EXCEPT !.todo = @ \ {m}, !.slot = m]
    IN  /\ c.pc = "agents"
        /\ \/ c.todo # {} /\ Set(t, SeedMode(next, m))
           \/ c.todo # {} /\ Refusing(m) /\ Set(t, next)
           \/ c.todo = {} /\ Set(t, Done)
        /\ UNCHANGED <<rowVars, extra, tasks, dirs, mutex, lost, history>>

\* save_acp_runtime_mode
SaveRuntimeMode(t) ==
    LET c == call[t]
    IN  /\ c.pc = "current"
        /\ Set(t, Patching(c, c.slot, [current |-> c.mode], "agents"))
        /\ UNCHANGED <<rowVars, extra, tasks, dirs, mutex, lost, history>>

-----------------------------------------------------------------------------
(* attach_agent_process.                                                    *)

\* write_team_mcp_runtime_config: the address of the tool server.
McpConfig == [config |-> "mcp", mode |-> BackendMode]

\* write_team_cli_runtime_config: none.  Both also write the mode of the backend,
\* whatever the mode of the team.
CliConfig == [config |-> None, mode |-> BackendMode]

RuntimeConfig(p) == IF Transport(p) = "mcp" THEN McpConfig ELSE CliConfig

\* Mutant: the process is rebuilt without writing its configuration.
RebuildsOnly(t) ==
    /\ call[t].pc = "begin"
    /\ row # None
    /\ \E m \in row.agents \cup dropped :
          \/ Transport(Profile[m]) # None /\ Set(t, [call[t] EXCEPT !.pc = "kill", !.slot = m])
          \/ Transport(Profile[m]) = None /\ Set(t, Done)
    /\ UNCHANGED <<rowVars, extra, tasks, dirs, mutex, lost, history>>

\* An agent that was on the list when the attach was asked for; without a transport
\* the attach fails.
AttachAgent(t) ==
    /\ call[t].pc = "begin"
    /\ row # None
    /\ \E m \in row.agents \cup dropped :
          LET p == Profile[m]
          IN  \/ /\ Transport(p) # None
                 /\ Set(t, Patching([call[t] EXCEPT !.slot = m], m, RuntimeConfig(p), "kill"))
              \/ Transport(p) = None /\ Set(t, Done)
    /\ UNCHANGED <<rowVars, extra, tasks, dirs, mutex, lost, history>>

KillForRebuild(t) ==
    /\ call[t].pc = "kill"
    /\ tasks' = tasks \ {call[t].slot}
    /\ Set(t, [call[t] EXCEPT !.pc = "warm"])
    /\ UNCHANGED <<rowVars, extra, dirs, mutex, lost, history>>

\* warmup_agent_process, in the workspace of the conversation.
Warmup(t) ==
    /\ call[t].pc = "warm"
    /\ tasks' \in {tasks, tasks \cup {call[t].slot}}
    /\ Set(t, Done)
    /\ UNCHANGED <<rowVars, extra, dirs, mutex, lost, history>>

-----------------------------------------------------------------------------
(* update_conversation, which the web client calls with no mutex.  It       *)
(* merges its keys into the extra it has read: any of those above, or none  *)
(* of them (the route of a model, a checkpoint).  With merge_extra = false  *)
(* it replaces the whole extra: a change of every key, to None where the    *)
(* new extra has none.                                                      *)
UpdateConversation(t) ==
    /\ call[t].pc = "begin"
    /\ \E m \in Slots, change \in ClientChanges :
          extra[m] # None /\ Set(t, Patching(call[t], m, change, "done"))
    /\ UNCHANGED <<rowVars, extra, tasks, dirs, mutex, lost, history>>

-----------------------------------------------------------------------------
(* The file system: a directory is removed, or comes back, as the workspace *)
(* of a conversation does when a turn finds it missing (resolve_workspace). *)

LoseDirectory ==
    /\ Cardinality(lost) < MaxLosses
    /\ \E d \in dirs : dirs' = dirs \ {d} /\ lost' = lost \cup {d}
    /\ UNCHANGED <<rowVars, extra, tasks, mutex, call, history>>

RestoreDirectory ==
    /\ \E d \in lost : dirs' = dirs \cup {d}
    /\ UNCHANGED <<rowVars, extra, tasks, mutex, call, lost, history>>

-----------------------------------------------------------------------------
Create == ProvisionLead \/ (\E m \in Initial : ProvisionTeammate(m)) \/ CreateTeam

Add(t) ==
    \/ BeginAdd(t) \/ ResolveForNewAgent(t)
    \/ WriteTeamWorkspace(t) \/ ProvisionNewAgent(t) \/ PersistAgents(t)

LastMessage(t) == BeginLastMessage(t) \/ WriteLastMessage(t)

SetMode(t) == BeginMode(t) \/ WriteMode(t) \/ SetAgentMode(t) \/ SaveRuntimeMode(t)

AttachProcess(t) == AttachAgent(t) \/ KillForRebuild(t) \/ Warmup(t)

Next ==
    \/ Create
    \/ \E t \in Requests : \/ Add(t) \/ LastMessage(t) \/ SetMode(t) \/ AttachProcess(t)
                          \/ UpdateConversation(t) \/ PatchRead(t) \/ PatchWrite(t)
    \/ LoseDirectory \/ RestoreDirectory

Spec == Init /\ [][Next]_vars

-----------------------------------------------------------------------------
(* A process that runs for a member has the transport of its backend in its *)
(* extra: the tool server if it speaks to it and none if not.  Only a patch *)
(* of the same conversation that was read before and written after another, *)
(* or a client that changes the extra, takes it away (provisioning.rs       *)
(* attach_agent_process writes, kills and warms up, in this order;          *)
(* adapters.rs patch_runtime_config writes the whole extra).                *)
RunsAsConfigured ==
    \A m \in tasks :
        /\ Transport(Profile[m]) # None
        /\ \/ extra[m].config = RuntimeConfig(Profile[m]).config
           \/ m \in edited \cup undone

(* All members work in the workspace of the team row, except those whose    *)
(* directory has been missing since, or whose extra the client has changed  *)
(* (workspace.rs resolve_for_new_agent records every workspace it falls     *)
(* back to before a member is made in it).                                  *)
SharedWorkspace ==
    row # None =>
        \A m \in row.agents :
            \/ ConversationWorkspace(m) = row.ws
            \/ ConversationWorkspace(m) \in lost
            \/ m \in edited

\* What a step keeps of the row.
RowKept ==
    row # None =>
        /\ row.agents \ row'.agents \subseteq dropped'
        /\ Cardinality({f \in DOMAIN row : row'[f] # row[f]}) <= 1

(* The requests that write the row at the same time do not undo each other: *)
(* a write changes one field of the row, and a member that add_agent or     *)
(* spawn_agent has put there stays there, unless it is dropped by the last  *)
(* message of an agent, whose writer has read the list before the member    *)
(* was on it (provisioning.rs persist_agents under the membership mutex,    *)
(* team_repo.rs update_team, service.rs persist_agent_last_message).        *)
OnlyRepliesDropMembers == [][RowKept]_vars

=============================================================================
