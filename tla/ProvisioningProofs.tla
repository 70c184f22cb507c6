------------------------ MODULE ProvisioningProofs ------------------------
(***************************************************************************)
(* Proofs about Provisioning, for every number of members, requests, modes *)
(* and profiles, and whatever the client writes.  ProvisionInv says what a *)
(* request may rely on between two of its steps: who adds a member has the *)
(* workspace that it has read and a list that misses dropped members only; *)
(* who attaches a process has written its configuration before; and a      *)
(* patch that is written late brings back a workspace that the member may  *)
(* still have.                                                             *)
(***************************************************************************)
EXTENDS Provisioning, FiniteSetTheorems, TLAPS

\* The workspace of the team, or of the team that is being created.
Home == IF row = None THEN home ELSE row.ws

\* A member may have been made in ws.
Placed(ws) == ws = Home \/ (row # None /\ ws \in lost)

\* e may be the extra of member m.
Fits(m, e) == e \in Extras /\ (m \in edited \/ Placed(e.ws))

\* Member m has the transport of its backend in its extra.
Configured(m) ==
    \/ extra[m].config = RuntimeConfig(Profile[m]).config
    \/ m \in edited \cup undone

\* Those that are members, or have been.
Joined == row.agents \cup dropped

\* Before the lead has its conversation nothing happens.
LeadOK ==
    \/ /\ row = None /\ leads = {} /\ tasks = {}
       /\ \A m \in Slots : extra[m] = None
       /\ \A t \in Requests : call[t].pc = "begin"
    \/ \E l \in Initial :
          leads = {l} /\ extra[l] # None /\ Home \in Directories /\ Home \in dirs \cup lost

RowOK ==
    row # None =>
        /\ row \in TeamRows /\ leads # {} /\ leads \subseteq row.agents
        /\ \A m \in Joined : m \in Slots /\ extra[m] # None

ExtrasOK == \A m \in Slots : extra[m] # None => Fits(m, extra[m])

TasksOK ==
    \A m \in tasks : m \in Slots /\ extra[m] # None /\ Transport(Profile[m]) # None /\ Configured(m)

-----------------------------------------------------------------------------
(* What a request may carry with it                                         *)

Fields == {"pc", "slot", "snap", "ws", "mode", "todo", "patch"}
PatchFields == {"slot", "change", "read", "then"}

Patches(c) == c.pc \in {"patch", "write"}

\* Request c adds a member, and holds the membership mutex.
Adding(c) ==
    \/ c.pc \in {"resolve", "backfill", "provision", "persist"}
    \/ Patches(c) /\ c.patch.then = "provision"

\* The list of agents that request c has read.
SnapOK(c) ==
    /\ row # None
    /\ c.snap \in TeamRows /\ leads \subseteq c.snap.agents /\ c.snap.agents \subseteq Joined

AddingOK(t, c) ==
    Adding(c) =>
        /\ mutex = t /\ SnapOK(c)
        /\ row.agents \subseteq c.snap.agents \cup dropped
        /\ c.slot \in Fresh
        /\ c.pc = "resolve" => c.snap.ws = row.ws
        /\ c.pc = "backfill" => c.ws \in Directories /\ c.ws \in dirs \cup lost /\ row.ws \in lost
        /\ c.pc \notin {"resolve", "backfill"} => c.ws = row.ws
        /\ c.pc # "persist" => extra[c.slot] = None
        /\ c.pc = "persist" => extra[c.slot] # None

ReplyOK(c) == c.pc = "reply" => SnapOK(c)

\* Request c sets the session mode, and is at member c.slot.
AtMember(c) == c.pc = "current" \/ (Patches(c) /\ c.patch.then = "current")

Setting(c) == c.pc \in {"row", "agents"} \/ AtMember(c) \/ (Patches(c) /\ c.patch.then = "agents")

SettingOK(c) ==
    Setting(c) =>
        /\ row # None /\ c.mode \in Modes /\ c.todo \subseteq Joined
        /\ AtMember(c) => c.slot \in Joined

\* Request c attaches a process, whose configuration is being written or has been.
Attaching(c) == c.pc \in {"kill", "warm"} \/ (Patches(c) /\ c.patch.then = "kill")

AttachingOK(c) ==
    Attaching(c) =>
        /\ c.slot \in Slots /\ extra[c.slot] # None /\ Transport(Profile[c.slot]) # None
        /\ ~Patches(c) => Configured(c.slot)
        /\ Patches(c) => c.patch.slot = c.slot /\ "config" \in DOMAIN c.patch.change

\* What patch p writes: the workspace only for who adds a member, and the
\* configuration only as the backend wants it, unless it is the client's.
ChangeOK(p) ==
    /\ p.then = "done" => p.change \in ClientChanges
    /\ p.then # "done" =>
          /\ row # None
          /\ "ws" \in DOMAIN p.change => p.then = "provision" /\ p.change["ws"] = row.ws
          /\ "mode" \in DOMAIN p.change => p.change["mode"] \in Modes \cup {"auto"}
          /\ "current" \in DOMAIN p.change => p.change["current"] \in Modes
          /\ "config" \in DOMAIN p.change =>
                p.change["config"] = RuntimeConfig(Profile[p.slot]).config

\* What it has read fits the member, now as then.
PatchOK(c) ==
    Patches(c) =>
        /\ DOMAIN c.patch = PatchFields
        /\ c.patch.slot \in Slots /\ extra[c.patch.slot] # None
        /\ c.patch.then \in {"provision", "agents", "current", "kill", "done"}
        /\ ChangeOK(c.patch)
        /\ c.pc = "write" => Fits(c.patch.slot, c.patch.read)

CallOK(t, c) ==
    /\ DOMAIN c = Fields
    /\ AddingOK(t, c) /\ ReplyOK(c) /\ SettingOK(c) /\ AttachingOK(c) /\ PatchOK(c)

ProvisionInv ==
    /\ DOMAIN call = Requests /\ DOMAIN extra = Slots
    /\ row = None => dropped = {}
    /\ LeadOK
    /\ RowOK
    /\ ExtrasOK
    /\ TasksOK
    /\ \A t \in Requests : CallOK(t, call[t])

-----------------------------------------------------------------------------
(* Lemmas                                                                   *)

\* Extras are not None; their parts.
LEMMA ExtraParts ==
  ASSUME NEW e \in Extras
  PROVE  /\ e # None /\ DOMAIN e = {"ws", "mode", "current", "config"}
         /\ e["ws"] \in Directories \cup {None} /\ e["mode"] \in Modes \cup {"auto", None}
         /\ e["current"] \in Modes \cup {None} /\ e["config"] \in {"mcp", None}
  BY ProvisioningAssumption DEF Extras

\* A function with the right values is an extra.
LEMMA ExtraTyped ==
  ASSUME NEW e, e = [k \in {"ws", "mode", "current", "config"} |-> e[k]],
         e["ws"] \in Directories \cup {None}, e["mode"] \in Modes \cup {"auto", None},
         e["current"] \in Modes \cup {None}, e["config"] \in {"mcp", None}
  PROVE  e \in Extras
  <1>1. PICK a, b, c, d : a = e["ws"] /\ b = e["mode"] /\ c = e["current"] /\ d = e["config"]
    OBVIOUS
  <1>2. PICK f : f = [ws |-> a, mode |-> b, current |-> c, config |-> d]
    OBVIOUS
  <1>3. f \in Extras
    BY <1>1, <1>2 DEF Extras
  <1>4. e = f
    BY <1>1, <1>2
  <1>. QED BY <1>3, <1>4

\* The extra that a conversation is made with.
LEMMA NewExtraIs ==
  ASSUME NEW ws \in Directories, NEW mode \in Modes \cup {None}, NEW e, e = NewExtra(ws, mode)
  PROVE  e \in Extras /\ e.ws = ws /\ e # None
  <1>1. SeededMode(mode) \in Modes \cup {"auto"}
    BY DEF SeededMode, BackendMode
  <1>2. e \in Extras /\ e.ws = ws
    BY <1>1 DEF NewExtra, Extras
  <1>. QED BY <1>2, ExtraParts

\* The transport that an attach writes.
LEMMA ConfigIs ==
  ASSUME NEW p, NEW change, change = RuntimeConfig(p)
  PROVE  /\ DOMAIN change = {"config", "mode"} /\ change["mode"] = "auto"
         /\ change["config"] = RuntimeConfig(p).config /\ change["config"] \in {"mcp", None}
  BY DEF RuntimeConfig, McpConfig, CliConfig, BackendMode

\* The parts of a team row.
LEMMA RowParts ==
  ASSUME NEW r \in TeamRows
  PROVE  /\ r # None /\ DOMAIN r = {"agents", "ws", "mode"}
         /\ r.agents \subseteq Slots /\ r.ws \in Directories /\ r.mode \in Modes \cup {None}
  BY ProvisioningAssumption DEF TeamRows

\* update_team writes one field.
LEMMA FieldWritten ==
  ASSUME row \in TeamRows, NEW f \in {"agents", "ws", "mode"}, NEW v, UpdateTeam(f, v),
         f = "agents" => v \subseteq Slots, f = "ws" => v \in Directories, f = "mode" => v \in Modes \cup {None}
  PROVE  /\ row' \in TeamRows /\ row' # None
         /\ row'.agents = IF f = "agents" THEN v ELSE row.agents
         /\ row'.ws = IF f = "ws" THEN v ELSE row.ws
  <1>1. /\ DOMAIN row = {"agents", "ws", "mode"} /\ row.agents \subseteq Slots /\ row.ws \in Directories
        /\ row.mode \in Modes \cup {None}
    BY RowParts
  <1>2. /\ row' \in TeamRows
        /\ row'.agents = IF f = "agents" THEN v ELSE row.agents
        /\ row'.ws = IF f = "ws" THEN v ELSE row.ws
    BY <1>1 DEF TeamRows, UpdateTeam
  <1>. QED BY <1>2, RowParts

\* A request that is set leaves the others alone.
LEMMA SetCall ==
  ASSUME ProvisionInv, NEW t \in Requests, NEW d, Set(t, d)
  PROVE  call'[t] = d /\ DOMAIN call' = Requests /\ \A u \in Requests : u # t => call'[u] = call[u]
  BY DEF Set, ProvisionInv

\* A request that is over relies on nothing.
LEMMA DoneOK ==
  ASSUME NEW t
  PROVE  CallOK(t, Done) /\ CallOK(t, Done)'
  BY DEF Done, Call, CallOK, Fields, AddingOK, Adding, ReplyOK, SettingOK, Setting, AtMember,
         AttachingOK, Attaching, PatchOK, Patches

\* The parts of a request that starts a patch.
LEMMA PatchingParts ==
  ASSUME NEW c, DOMAIN c = Fields, NEW m, NEW change, NEW pc, NEW d, d = Patching(c, m, change, pc)
  PROVE  /\ DOMAIN d = Fields /\ d.pc = "patch" /\ d.slot = c.slot /\ d.snap = c.snap
         /\ d.ws = c.ws /\ d.mode = c.mode /\ d.todo = c.todo
         /\ DOMAIN d.patch = PatchFields /\ d.patch.slot = m /\ d.patch.change = change /\ d.patch.then = pc
  BY DEF Patching, Fields, PatchFields

\* A team that exists has a lead.
LEMMA TeamHasLead ==
  ASSUME ProvisionInv, row # None
  PROVE  /\ leads # {} /\ row \in TeamRows /\ row.ws \in Directories
         /\ \A m \in Joined : m \in Slots /\ extra[m] # None
  BY RowParts DEF ProvisionInv, RowOK

\* How the shared state may change for who is in the middle of something: the team
\* and its conversations stay, what was placed well stays so, and who is configured.
Mild ==
    /\ row # None => row' # None /\ Joined \subseteq Joined'
    /\ leads' = leads
    /\ \A m \in Slots : extra[m] # None => extra'[m] # None
    /\ \A m \in Slots : extra[m] # None /\ Configured(m) => Configured(m)'
    /\ \A ws : Placed(ws) => Placed(ws)'
    /\ lost \subseteq lost' /\ dirs \cup lost \subseteq dirs' \cup lost'
    /\ edited \subseteq edited' /\ dropped \subseteq dropped'

\* ... and for who adds a member: nobody else does.
Alone ==
    /\ mutex' = mutex
    /\ row'.agents \subseteq Joined' /\ row'.agents \subseteq Joined /\ row'.ws = row.ws
    /\ \A m \in Slots : extra[m] = None => extra'[m] = None

\* An extra that fits a member still does after a mild step.
LEMMA FitsKept ==
  ASSUME Mild, NEW m, NEW e, Fits(m, e)
  PROVE  Fits(m, e)'
  BY DEF Mild, Fits

\* So do the extras that are not written, and the processes that were there.
LEMMA ExtrasKept ==
  ASSUME ProvisionInv, Mild, UNCHANGED extra
  PROVE  ExtrasOK'
  BY FitsKept DEF ExtrasOK, ProvisionInv

LEMMA TasksKept ==
  ASSUME ProvisionInv, Mild, tasks' \subseteq tasks
  PROVE  TasksOK'
  BY DEF TasksOK, ProvisionInv, Mild

\* What was read of the list is still of those that are or have been members.
LEMMA SnapKept ==
  ASSUME Mild, NEW c, SnapOK(c)
  PROVE  SnapOK(c)'
  BY DEF Mild, SnapOK

\* A request that does nothing may go on to rely on the same.
LEMMA CallKept ==
  ASSUME Mild, NEW u, NEW c, CallOK(u, c), Adding(c) => Alone
  PROVE  CallOK(u, c)'
  <1>1. AddingOK(u, c)'
    <2> SUFFICES ASSUME Adding(c) PROVE AddingOK(u, c)'
      BY DEF AddingOK
    <2>1. AddingOK(u, c) /\ Alone /\ c.slot \in Slots /\ SnapOK(c)
      BY DEF CallOK, AddingOK, Slots
    <2>2. extra[c.slot] = None <=> extra'[c.slot] = None
      BY <2>1 DEF Alone, Mild
    <2>3. SnapOK(c)'
      BY <2>1, SnapKept
    <2>4. row'.agents \subseteq c.snap.agents \cup dropped'
      BY <2>1 DEF AddingOK, Alone, Mild, Joined
    <2>. QED BY <2>1, <2>2, <2>3, <2>4 DEF AddingOK, Alone, Mild
  <1>2. ReplyOK(c)'
    BY SnapKept DEF CallOK, ReplyOK
  <1>3. SettingOK(c)'
    BY DEF CallOK, SettingOK, Mild
  <1>4. AttachingOK(c)'
    BY DEF CallOK, AttachingOK, Mild
  <1>5. PatchOK(c)'
    <2> SUFFICES ASSUME Patches(c) PROVE PatchOK(c)'
      BY DEF PatchOK
    <2>1. PatchOK(c) /\ ChangeOK(c.patch)
      BY DEF CallOK, PatchOK
    <2>2. c.pc = "write" => Fits(c.patch.slot, c.patch.read)'
      BY <2>1, FitsKept DEF PatchOK
    <2>3. c.patch.then = "provision" => row'.ws = row.ws
      BY DEF Adding, Alone
    <2>4. ChangeOK(c.patch)'
      BY <2>1, <2>3 DEF ChangeOK, Mild
    <2>. QED BY <2>1, <2>2, <2>4 DEF PatchOK, Mild
  <1>. QED BY <1>1, <1>2, <1>3, <1>4, <1>5 DEF CallOK

\* Two requests do not add members at the same time.
LEMMA OneAdder ==
  ASSUME ProvisionInv, NEW t \in Requests, NEW u \in Requests, t # u, Adding(call[t])
  PROVE  ~Adding(call[u])
  BY DEF ProvisionInv, CallOK, AddingOK

\* ... and none while the mutex is free.
LEMMA NoAdder ==
  ASSUME ProvisionInv, mutex = None, NEW u \in Requests
  PROVE  ~Adding(call[u])
  BY ProvisioningAssumption DEF ProvisionInv, CallOK, AddingOK

\* Request t becomes d, and the others may go on.
LEMMA CallsStep ==
  ASSUME ProvisionInv, NEW t \in Requests, NEW d, Set(t, d), Mild, CallOK(t, d)',
         \A u \in Requests : u # t /\ Adding(call[u]) => Alone
  PROVE  DOMAIN call' = Requests /\ \A u \in Requests : CallOK(u, call[u])'
  <1>1. ASSUME NEW u \in Requests PROVE CallOK(u, call[u])'
    <2>1. CASE u = t
      BY <2>1, SetCall
    <2>2. CASE u # t
      <3>1. PICK c : c = call[u] /\ c = call'[u]
        BY <2>2, SetCall
      <3>2. CallOK(u, c) /\ (Adding(c) => Alone)
        BY <2>2, <3>1 DEF ProvisionInv
      <3>3. CallOK(u, c)'
        BY <3>2, CallKept
      <3>. QED BY <3>1, <3>3
    <2>. QED BY <2>1, <2>2
  <1>. QED BY <1>1, SetCall

-----------------------------------------------------------------------------
(* Requests that change nothing but themselves and the mutex                *)

\* The team, its conversations and their history stay as they are.
Same ==
    /\ UNCHANGED <<row, leads, home, extra, lost, edited, undone, dropped>>
    /\ dirs \cup lost \subseteq dirs' \cup lost

\* What is shared stays as it is.
LEMMA MildSame ==
  ASSUME Same
  PROVE  /\ Mild /\ Home' = Home /\ Joined' = Joined
         /\ \A m : Configured(m)' <=> Configured(m)
  BY DEF Same, Mild, Placed, Home, Joined, Configured

\* Request t becomes d and nothing else happens but to the mutex and the processes.
LEMMA QuietStep ==
  ASSUME ProvisionInv, NEW t \in Requests, NEW d, Set(t, d), Same, TasksOK',
         leads # {}, CallOK(t, d)',
         \A u \in Requests : u # t /\ Adding(call[u]) => mutex' = mutex
  PROVE  ProvisionInv'
  <1>1. Mild /\ Home' = Home /\ Joined' = Joined
    BY MildSame
  <1>2. \A u \in Requests : u # t /\ Adding(call[u]) => Alone
    BY <1>1 DEF Alone, Same, Joined
  <1>3. DOMAIN call' = Requests /\ \A u \in Requests : CallOK(u, call[u])'
    BY <1>1, <1>2, CallsStep
  <1>4. LeadOK'
    BY <1>1 DEF LeadOK, ProvisionInv, Same
  <1>5. RowOK'
    BY <1>1 DEF RowOK, ProvisionInv, Same
  <1>6. ExtrasOK'
    BY <1>1, ExtrasKept DEF Same
  <1>. QED BY <1>3, <1>4, <1>5, <1>6 DEF ProvisionInv, Same

\* ... or the processes that are there stay.
LEMMA StillStep ==
  ASSUME ProvisionInv, NEW t \in Requests, NEW d, Set(t, d), Same, tasks' \subseteq tasks,
         leads # {}, CallOK(t, d)',
         \A u \in Requests : u # t /\ Adding(call[u]) => mutex' = mutex
  PROVE  ProvisionInv'
  BY MildSame, TasksKept, QuietStep

\* A request returns.
LEMMA EndStep ==
  ASSUME ProvisionInv, NEW t \in Requests, End(t), Same, UNCHANGED tasks, row # None
  PROVE  ProvisionInv'
  <1>1. Set(t, Done)
    BY DEF End
  <1>2. \A u \in Requests : u # t /\ Adding(call[u]) => mutex' = mutex
    BY DEF End, ProvisionInv, CallOK, AddingOK
  <1>. QED BY <1>1, <1>2, DoneOK, TeamHasLead, StillStep

\* add_agent and spawn_agent take the mutex and read the row, or add_agent refuses a
\* second lead.
LEMMA BeginAddInv ==
  ASSUME ProvisionInv, NEW t \in Requests, BeginAdd(t)
  PROVE  ProvisionInv'
  <1>1. row # None /\ mutex = None /\ call[t].pc = "begin" /\ Same /\ UNCHANGED tasks
    BY DEF BeginAdd, Same, rowVars, history
  <1>2. CASE End(t)
    BY <1>1, <1>2, EndStep
  <1>3. ASSUME NEW m \in Fresh, Locked(t, m) PROVE ProvisionInv'
    <2>1. PICK c, d : c = call[t] /\ d = [c EXCEPT !.pc = "resolve", !.slot = m, !.snap = row]
      OBVIOUS
    <2>2. Set(t, d) /\ mutex' = t /\ extra[m] = None
      BY <1>3, <2>1 DEF Locked
    <2>3. DOMAIN d = Fields /\ d.pc = "resolve" /\ d.slot = m /\ d.snap = row
      BY <2>1 DEF ProvisionInv, CallOK, Fields
    <2>4. /\ leads # {} /\ row \in TeamRows /\ leads \subseteq row.agents
          /\ row' = row /\ leads' = leads /\ dropped' = dropped /\ extra' = extra
      BY <1>1 DEF ProvisionInv, RowOK, Same
    <2>5. SnapOK(d)'
      BY <1>1, <2>3, <2>4 DEF SnapOK, Joined
    <2>6. AddingOK(t, d)'
      BY <2>2, <2>3, <2>4, <2>5 DEF AddingOK
    <2>7. CallOK(t, d)'
      BY <2>3, <2>6 DEF CallOK, ReplyOK, SettingOK, Setting, AtMember, AttachingOK, Attaching, PatchOK, Patches
    <2>. QED BY <1>1, <2>2, <2>4, <2>7, NoAdder, StillStep
  <1>. QED BY <1>2, <1>3 DEF BeginAdd

\* The workspace of the row, or of the lead, or a temporary one.
LEMMA ResolveForNewAgentInv ==
  ASSUME ProvisionInv, NEW t \in Requests, ResolveForNewAgent(t)
  PROVE  ProvisionInv'
  <1>1. PICK c : c = call[t]
    OBVIOUS
  <1>2. c.pc = "resolve" /\ UNCHANGED <<row, leads, home, extra, tasks, lost, edited, undone, dropped>>
    BY <1>1 DEF ResolveForNewAgent, rowVars, history
  <1>3. DOMAIN c = Fields /\ AddingOK(t, c) /\ Adding(c) /\ SnapOK(c)
    BY <1>1, <1>2 DEF ProvisionInv, CallOK, Adding, AddingOK
  <1>4. row # None /\ mutex = t /\ c.snap.ws = row.ws /\ leads # {} /\ row.ws \in Directories
    BY <1>2, <1>3, TeamHasLead DEF AddingOK, SnapOK
  <1>5. row.ws \in dirs \cup lost
    BY <1>4 DEF ProvisionInv, LeadOK, Home
  <1>6. \A u \in Requests : u # t => ~Adding(call[u])
    BY <1>1, <1>3, OneAdder
  <1>7. ASSUME NEW pc \in {"provision", "backfill"}, NEW ws, Set(t, [c EXCEPT !.pc = pc, !.ws = ws]),
               dirs \subseteq dirs', mutex' = mutex,
               pc = "provision" => ws = row.ws,
               pc = "backfill" => ws \in Directories /\ ws \in dirs' /\ ~Usable(row.ws)
        PROVE  ProvisionInv'
    <2>1. PICK d : d = [c EXCEPT !.pc = pc, !.ws = ws]
      OBVIOUS
    <2>2. DOMAIN d = Fields /\ d.pc = pc /\ d.ws = ws /\ d.slot = c.slot /\ d.snap = c.snap
      BY <1>3, <2>1 DEF Fields
    <2>3. pc = "backfill" => row.ws \in lost
      BY <1>4, <1>5, <1>7, ProvisioningAssumption DEF Usable, Exists
    <2>4. Same
      BY <1>2, <1>7 DEF Same
    <2>5. SnapOK(d)'
      BY <1>2, <1>3, <2>2 DEF SnapOK, Joined
    <2>6. AddingOK(t, d)'
      BY <1>2, <1>3, <1>7, <2>2, <2>3, <2>5 DEF AddingOK
    <2>7. CallOK(t, d)'
      BY <2>2, <2>6 DEF CallOK, ReplyOK, SettingOK, Setting, AtMember, AttachingOK, Attaching, PatchOK, Patches
    <2>. QED BY <1>2, <1>4, <1>6, <1>7, <2>1, <2>4, <2>7, StillStep
  <1>8. LeadWorkspaces \subseteq Directories \cap dirs
    <2>1. PICK l \in Slots : leads = {l} /\ extra[l] # None
      BY <1>4 DEF ProvisionInv, LeadOK, Slots
    <2>2. extra[l].ws \in Directories \cup {None}
      BY <2>1, ExtraParts DEF ProvisionInv, ExtrasOK, Fits
    <2>3. LeadSlot = l
      BY <2>1 DEF LeadSlot
    <2>. QED BY <2>2, <2>3 DEF LeadWorkspaces, ConversationWorkspace, Usable, Exists
  <1>9. CASE End(t) /\ UNCHANGED dirs
    <2>1. Same
      BY <1>2, <1>9 DEF Same
    <2>. QED BY <1>2, <1>4, <1>9, <2>1, EndStep
  <1>10. CASE /\ ~Usable(row.ws) /\ dirs' = dirs \cup {"temp"}
              /\ Set(t, [c EXCEPT !.pc = "backfill", !.ws = "temp"]) /\ UNCHANGED mutex
    BY <1>7, <1>10 DEF Directories
  <1>. QED BY <1>1, <1>4, <1>7, <1>8, <1>9, <1>10 DEF ResolveForNewAgent, CanMakeTemp

\* set_session_mode reads the agents.
LEMMA BeginModeInv ==
  ASSUME ProvisionInv, NEW t \in Requests, BeginMode(t)
  PROVE  ProvisionInv'
  <1>1. PICK mode \in Modes : Set(t, [call[t] EXCEPT !.pc = "row", !.mode = mode, !.todo = row.agents])
    BY DEF BeginMode
  <1>2. PICK d : d = [call[t] EXCEPT !.pc = "row", !.mode = mode, !.todo = row.agents]
    OBVIOUS
  <1>3. DOMAIN d = Fields /\ d.pc = "row" /\ d.mode = mode /\ d.todo = row.agents
    BY <1>2 DEF ProvisionInv, CallOK, Fields
  <1>4. row # None /\ row' = row /\ Same /\ UNCHANGED <<tasks, mutex>>
    BY DEF BeginMode, rowVars, history, Same
  <1>5. SettingOK(d)'
    BY <1>3, <1>4 DEF SettingOK, AtMember, Patches, Joined
  <1>6. CallOK(t, d)'
    BY <1>3, <1>5 DEF CallOK, AddingOK, Adding, ReplyOK, AttachingOK, Attaching, PatchOK, Patches
  <1>. QED BY <1>1, <1>2, <1>4, <1>6, TeamHasLead, StillStep

\* persist_agent_last_message reads the agents.
LEMMA BeginLastMessageInv ==
  ASSUME ProvisionInv, NEW t \in Requests, BeginLastMessage(t)
  PROVE  ProvisionInv'
  <1>1. PICK d : d = [call[t] EXCEPT !.pc = "reply", !.snap = row]
    OBVIOUS
  <1>2. DOMAIN d = Fields /\ d.pc = "reply" /\ d.snap = row
    BY <1>1 DEF ProvisionInv, CallOK, Fields
  <1>3. row # None /\ row' = row /\ leads' = leads /\ Same /\ UNCHANGED <<tasks, mutex>> /\ Set(t, d)
    BY <1>1 DEF BeginLastMessage, rowVars, history, Same
  <1>4. SnapOK(d)'
    BY <1>2, <1>3 DEF ProvisionInv, RowOK, SnapOK, Joined
  <1>5. CallOK(t, d)'
    BY <1>2, <1>4
       DEF CallOK, AddingOK, Adding, ReplyOK, SettingOK, Setting, AtMember, AttachingOK, Attaching, PatchOK, Patches
  <1>. QED BY <1>3, <1>5, TeamHasLead, StillStep

\* A request starts a patch of the extra of m, which has one.
LEMMA PatchStarts ==
  ASSUME ProvisionInv, NEW t \in Requests, NEW c, DOMAIN c = Fields, NEW m \in Slots, NEW change, NEW pc,
         Set(t, Patching(c, m, change, pc)), Same, UNCHANGED <<tasks, mutex>>,
         extra[m] # None, pc \in {"agents", "current", "kill", "done"},
         pc \in {"agents", "current"} =>
             row # None /\ c.mode \in Modes /\ c.todo \subseteq Joined /\ c.slot \in Joined,
         pc = "kill" => c.slot = m /\ Transport(Profile[m]) # None /\ "config" \in DOMAIN change,
         NEW p, p = [slot |-> m, change |-> change, read |-> None, then |-> pc], ChangeOK(p)
  PROVE  ProvisionInv'
  <1>1. PICK d : d = Patching(c, m, change, pc)
    OBVIOUS
  <1>2. /\ DOMAIN d = Fields /\ d.pc = "patch" /\ d.slot = c.slot
        /\ d.mode = c.mode /\ d.todo = c.todo
        /\ DOMAIN d.patch = PatchFields /\ d.patch.slot = m /\ d.patch.change = change /\ d.patch.then = pc
    BY <1>1, PatchingParts
  <1>3. p.slot = m /\ p.change = change /\ p.then = pc
    OBVIOUS
  <1>4. row' = row /\ extra' = extra /\ Joined' = Joined
    BY MildSame DEF Same
  <1>5. ChangeOK(d.patch)'
    BY <1>2, <1>3, <1>4 DEF ChangeOK
  <1>6. ~Adding(d)
    BY <1>2 DEF Adding
  <1>7. PatchOK(d)'
    BY <1>2, <1>4, <1>5 DEF PatchOK
  <1>8. SettingOK(d)' /\ AttachingOK(d)'
    BY <1>2, <1>4 DEF SettingOK, Setting, AtMember, AttachingOK, Attaching, Patches
  <1>9. CallOK(t, d)'
    BY <1>2, <1>6, <1>7, <1>8 DEF CallOK, AddingOK, ReplyOK
  <1>10. leads # {}
    BY DEF ProvisionInv, LeadOK
  <1>. QED BY <1>1, <1>9, <1>10, StillStep

\* set_session_mode goes on with the next agent.
LEMMA SetAgentModeInv ==
  ASSUME ProvisionInv, NEW t \in Requests, SetAgentMode(t)
  PROVE  ProvisionInv'
  <1>1. PICK c, m, d : /\ c = call[t] /\ m = (CHOOSE x \in c.todo : TRUE)
                       /\ d = [c EXCEPT !.todo = c.todo \ {m}, !.slot = m]
    OBVIOUS
  <1>2. /\ c.pc = "agents" /\ Same /\ UNCHANGED <<tasks, mutex>>
        /\ \/ c.todo # {} /\ (Set(t, Patching(d, m, [mode |-> d.mode], "current")) \/ Set(t, d))
           \/ Set(t, Done)
    BY <1>1 DEF SetAgentMode, SeedMode, rowVars, history, Same
  <1>3. DOMAIN c = Fields /\ row # None /\ c.mode \in Modes /\ c.todo \subseteq Joined
    BY <1>1, <1>2 DEF ProvisionInv, CallOK, SettingOK, Setting
  <1>4. leads # {} /\ row' = row /\ Joined' = Joined
    BY <1>2, <1>3, TeamHasLead, MildSame DEF Same
  <1>5. CASE Set(t, Done)
    BY <1>2, <1>4, <1>5, DoneOK, StillStep
  <1>6. CASE c.todo # {}
    <2>1. m \in Joined
      BY <1>1, <1>3, <1>6
    <2>2. m \in Slots /\ extra[m] # None
      BY <1>3, <2>1, TeamHasLead
    <2>3. DOMAIN d = Fields /\ d.pc = "agents" /\ d.mode \in Modes /\ d.todo \subseteq Joined /\ d.slot = m
      BY <1>1, <1>2, <1>3 DEF Fields
    <2>4. CASE Set(t, d)
      <3>1. CallOK(t, d)'
        BY <1>3, <1>4, <2>3
           DEF CallOK, AddingOK, Adding, ReplyOK, SettingOK, Setting, AtMember, AttachingOK, Attaching, PatchOK, Patches
      <3>. QED BY <1>2, <1>4, <2>4, <3>1, StillStep
    <2>5. CASE Set(t, Patching(d, m, [mode |-> d.mode], "current"))
      <3>1. PICK mode, change : mode = d.mode /\ change = [mode |-> mode]
        OBVIOUS
      <3>2. PICK p : p = [slot |-> m, change |-> change, read |-> None, then |-> "current"]
        OBVIOUS
      <3>3. DOMAIN change = {"mode"} /\ change["mode"] = mode /\ p.change = change /\ p.then = "current"
        BY <3>1, <3>2
      <3>4. ChangeOK(p)
        BY <1>3, <2>3, <3>1, <3>3 DEF ChangeOK
      <3>. QED BY <1>2, <1>3, <2>1, <2>2, <2>3, <2>5, <3>1, <3>2, <3>4, PatchStarts
    <2>. QED BY <1>2, <1>5, <2>4, <2>5
  <1>. QED BY <1>2, <1>5, <1>6

\* ... whose process is to take the mode over.
LEMMA SaveRuntimeModeInv ==
  ASSUME ProvisionInv, NEW t \in Requests, SaveRuntimeMode(t)
  PROVE  ProvisionInv'
  <1>1. PICK c, m, change : c = call[t] /\ m = c.slot /\ change = [current |-> c.mode]
    OBVIOUS
  <1>2. c.pc = "current" /\ Same /\ UNCHANGED <<tasks, mutex>> /\ Set(t, Patching(c, m, change, "agents"))
    BY <1>1 DEF SaveRuntimeMode, rowVars, history, Same
  <1>3. DOMAIN c = Fields /\ row # None /\ c.mode \in Modes /\ c.todo \subseteq Joined /\ m \in Joined
    BY <1>1, <1>2 DEF ProvisionInv, CallOK, SettingOK, Setting, AtMember
  <1>4. m \in Slots /\ extra[m] # None
    BY <1>3, TeamHasLead
  <1>5. PICK p : p = [slot |-> m, change |-> change, read |-> None, then |-> "agents"]
    OBVIOUS
  <1>6. DOMAIN change = {"current"} /\ change["current"] = c.mode /\ p.change = change /\ p.then = "agents"
    BY <1>1, <1>5
  <1>7. ChangeOK(p)
    BY <1>3, <1>6 DEF ChangeOK
  <1>. QED BY <1>1, <1>2, <1>3, <1>4, <1>5, <1>7, PatchStarts

\* An attach writes the configuration of the transport its agent has.
LEMMA AttachAgentInv ==
  ASSUME ProvisionInv, NEW t \in Requests, AttachAgent(t)
  PROVE  ProvisionInv'
  <1>1. row # None /\ Same /\ UNCHANGED <<tasks, mutex>> /\ leads # {}
    BY TeamHasLead DEF AttachAgent, rowVars, history, Same
  <1>2. PICK m \in Joined :
            \/ /\ Set(t, Patching([call[t] EXCEPT !.slot = m], m, RuntimeConfig(Profile[m]), "kill"))
               /\ Transport(Profile[m]) # None
            \/ Set(t, Done)
    BY DEF AttachAgent, Joined
  <1>3. CASE Set(t, Done)
    BY <1>1, <1>3, DoneOK, StillStep
  <1>4. CASE /\ Set(t, Patching([call[t] EXCEPT !.slot = m], m, RuntimeConfig(Profile[m]), "kill"))
             /\ Transport(Profile[m]) # None
    <2>1. PICK c, change, p : /\ c = [call[t] EXCEPT !.slot = m] /\ change = RuntimeConfig(Profile[m])
                              /\ p = [slot |-> m, change |-> change, read |-> None, then |-> "kill"]
      OBVIOUS
    <2>2. DOMAIN c = Fields /\ c.slot = m
      BY <2>1 DEF ProvisionInv, CallOK, Fields
    <2>3. m \in Slots /\ extra[m] # None
      BY <1>1, <1>2, TeamHasLead
    <2>4. /\ DOMAIN change = {"config", "mode"} /\ change["mode"] = "auto"
          /\ change["config"] = RuntimeConfig(Profile[m]).config
      BY <2>1, ConfigIs
    <2>5. p.change = change /\ p.slot = m /\ p.then = "kill"
      BY <2>1
    <2>6. ChangeOK(p)
      BY <1>1, <2>4, <2>5 DEF ChangeOK
    <2>. QED BY <1>1, <1>4, <2>1, <2>2, <2>3, <2>4, <2>6, PatchStarts
  <1>. QED BY <1>2, <1>3, <1>4

\* update_conversation writes what the client asks for.
LEMMA UpdateConversationInv ==
  ASSUME ProvisionInv, NEW t \in Requests, UpdateConversation(t)
  PROVE  ProvisionInv'
  <1>1. PICK m \in Slots, change \in ClientChanges : extra[m] # None /\ Set(t, Patching(call[t], m, change, "done"))
    BY DEF UpdateConversation
  <1>2. Same /\ UNCHANGED <<tasks, mutex>>
    BY DEF UpdateConversation, rowVars, history, Same
  <1>3. PICK c, p : c = call[t] /\ p = [slot |-> m, change |-> change, read |-> None, then |-> "done"]
    OBVIOUS
  <1>4. DOMAIN c = Fields /\ p.change = change /\ p.then = "done"
    BY <1>3 DEF ProvisionInv, CallOK
  <1>5. ChangeOK(p)
    BY <1>4 DEF ChangeOK
  <1>. QED BY <1>1, <1>2, <1>3, <1>4, <1>5, PatchStarts

\* An attach kills the old process, and warms up a new one that is configured.
LEMMA KillForRebuildInv ==
  ASSUME ProvisionInv, NEW t \in Requests, KillForRebuild(t)
  PROVE  ProvisionInv'
  <1>1. PICK c, d : c = call[t] /\ d = [c EXCEPT !.pc = "warm"]
    OBVIOUS
  <1>2. c.pc = "kill" /\ Set(t, d) /\ tasks' \subseteq tasks /\ Same /\ UNCHANGED mutex
    BY <1>1 DEF KillForRebuild, rowVars, history, Same
  <1>3. DOMAIN c = Fields /\ Attaching(c) /\ AttachingOK(c)
    BY <1>1, <1>2 DEF ProvisionInv, CallOK, Attaching
  <1>4. DOMAIN d = Fields /\ d.pc = "warm" /\ d.slot = c.slot
    BY <1>1, <1>3 DEF Fields
  <1>5. AttachingOK(d)'
    BY <1>2, <1>3, <1>4, MildSame DEF AttachingOK, Patches, Same
  <1>6. CallOK(t, d)'
    BY <1>4, <1>5 DEF CallOK, AddingOK, Adding, ReplyOK, SettingOK, Setting, AtMember, PatchOK, Patches
  <1>7. leads # {}
    BY <1>1, <1>2 DEF ProvisionInv, LeadOK
  <1>. QED BY <1>2, <1>6, <1>7, StillStep

LEMMA WarmupInv ==
  ASSUME ProvisionInv, NEW t \in Requests, Warmup(t)
  PROVE  ProvisionInv'
  <1>1. PICK c : c = call[t]
    OBVIOUS
  <1>2. c.pc = "warm" /\ Set(t, Done) /\ tasks' \subseteq tasks \cup {c.slot} /\ Same /\ UNCHANGED mutex
    BY <1>1 DEF Warmup, rowVars, history, Same
  <1>3. Attaching(c) /\ AttachingOK(c)
    BY <1>1, <1>2 DEF ProvisionInv, CallOK, Attaching
  <1>4. /\ c.slot \in Slots /\ extra[c.slot] # None /\ Transport(Profile[c.slot]) # None
        /\ Configured(c.slot)
    BY <1>2, <1>3 DEF AttachingOK, Patches
  <1>5. TasksOK'
    BY <1>2, <1>4, MildSame DEF TasksOK, ProvisionInv, Same
  <1>6. leads # {}
    BY <1>1, <1>2 DEF ProvisionInv, LeadOK
  <1>. QED BY <1>2, <1>5, <1>6, DoneOK, QuietStep

\* A patch reads the extra.
LEMMA PatchReadInv ==
  ASSUME ProvisionInv, NEW t \in Requests, PatchRead(t)
  PROVE  ProvisionInv'
  <1>1. PICK c, e, d : c = call[t] /\ e = extra[c.patch.slot] /\ d = [c EXCEPT !.pc = "write", !.patch.read = e]
    OBVIOUS
  <1>2. c.pc = "patch" /\ Set(t, d) /\ Same /\ UNCHANGED <<tasks, mutex, dirs>>
    BY <1>1 DEF PatchRead, rowVars, history, Same
  <1>3. /\ DOMAIN c = Fields /\ AddingOK(t, c) /\ SettingOK(c) /\ AttachingOK(c) /\ PatchOK(c) /\ Patches(c)
    BY <1>1, <1>2 DEF ProvisionInv, CallOK, Patches
  <1>4. DOMAIN c.patch = PatchFields /\ c.patch.slot \in Slots /\ e # None /\ ChangeOK(c.patch)
    BY <1>1, <1>3 DEF PatchOK
  <1>5. Fits(c.patch.slot, e) /\ leads # {}
    BY <1>1, <1>2, <1>4 DEF ProvisionInv, ExtrasOK, LeadOK
  <1>6. /\ DOMAIN d = Fields /\ d.pc = "write" /\ d.slot = c.slot /\ d.snap = c.snap
        /\ d.ws = c.ws /\ d.mode = c.mode /\ d.todo = c.todo
        /\ DOMAIN d.patch = PatchFields /\ d.patch.slot = c.patch.slot /\ d.patch.change = c.patch.change
        /\ d.patch.then = c.patch.then /\ d.patch.read = e
    BY <1>1, <1>3, <1>4 DEF Fields, PatchFields
  <1>7. Mild /\ Joined' = Joined /\ UNCHANGED <<row, leads, extra, lost, dropped>>
    BY <1>2, MildSame DEF Same
  <1>8. Fits(c.patch.slot, e)'
    BY <1>5, <1>7, FitsKept
  <1>9. ChangeOK(d.patch)'
    BY <1>4, <1>6, <1>7 DEF ChangeOK
  <1>10. PatchOK(d)'
    BY <1>3, <1>6, <1>7, <1>8, <1>9 DEF PatchOK, Patches
  <1>11. AddingOK(t, d)'
    BY <1>2, <1>3, <1>6, <1>7 DEF AddingOK, Adding, Patches, SnapOK
  <1>12. SettingOK(d)' /\ AttachingOK(d)'
    BY <1>3, <1>6, <1>7 DEF SettingOK, Setting, AtMember, Patches, AttachingOK, Attaching
  <1>13. CallOK(t, d)'
    BY <1>6, <1>10, <1>11, <1>12 DEF CallOK, ReplyOK
  <1>. QED BY <1>2, <1>5, <1>13, StillStep

-----------------------------------------------------------------------------
(* The row and the extras are written                                       *)

\* Only the row is written, and the others may go on.
LEMMA RowStep ==
  ASSUME ProvisionInv, NEW t \in Requests, NEW d, Set(t, d), CallOK(t, d)', Mild, row # None,
         UNCHANGED <<leads, extra, tasks, dirs, lost>>,
         row' \in TeamRows, row'.ws \in dirs \cup lost, leads \subseteq row'.agents,
         Joined' \subseteq Joined \cup {m \in Slots : extra[m] # None},
         \A u \in Requests : u # t /\ Adding(call[u]) => Alone
  PROVE  ProvisionInv'
  <1>1. DOMAIN call' = Requests /\ \A u \in Requests : CallOK(u, call[u])'
    BY CallsStep
  <1>2. leads # {} /\ (\A m \in Joined : m \in Slots /\ extra[m] # None) /\ row' # None /\ row'.ws \in Directories
    BY TeamHasLead, RowParts
  <1>3. LeadOK'
    BY <1>2 DEF ProvisionInv, LeadOK, Home
  <1>4. RowOK'
    BY <1>2 DEF RowOK
  <1>5. ExtrasOK' /\ TasksOK'
    BY ExtrasKept, TasksKept
  <1>. QED BY <1>1, <1>2, <1>3, <1>4, <1>5 DEF ProvisionInv

\* write_team_workspace: the workspace that the row had has been missing.
LEMMA WriteTeamWorkspaceInv ==
  ASSUME ProvisionInv, NEW t \in Requests, WriteTeamWorkspace(t)
  PROVE  ProvisionInv'
  <1>1. PICK c, d : c = call[t] /\ d = PatchLead(c)
    OBVIOUS
  <1>2. /\ c.pc = "backfill" /\ UpdateTeam("ws", c.ws) /\ Set(t, d)
        /\ UNCHANGED <<leads, extra, tasks, dirs, mutex, lost, edited, undone, dropped>>
    BY <1>1 DEF WriteTeamWorkspace, history
  <1>3. DOMAIN c = Fields /\ AddingOK(t, c) /\ Adding(c) /\ SnapOK(c)
    BY <1>1, <1>2 DEF ProvisionInv, CallOK, Adding, AddingOK
  <1>4. /\ row # None /\ c.ws \in Directories /\ c.ws \in dirs \cup lost /\ row.ws \in lost
        /\ leads # {} /\ row \in TeamRows
    BY <1>2, <1>3, TeamHasLead DEF AddingOK, SnapOK
  <1>5. row' \in TeamRows /\ row'.agents = row.agents /\ row'.ws = c.ws /\ row' # None
    BY <1>2, <1>4, FieldWritten
  <1>6. Joined' = Joined
    BY <1>2, <1>5 DEF Joined
  <1>7. Mild
    BY <1>2, <1>4, <1>5, <1>6 DEF Mild, Placed, Home, Configured
  <1>8. PICK l \in Slots : leads = {l} /\ extra[l] # None /\ LeadSlot = l
    BY <1>4 DEF ProvisionInv, LeadOK, Slots, LeadSlot
  <1>9. CallOK(t, d)'
    <2>1. SnapOK(c)'
      BY <1>3, <1>7, SnapKept
    <2>2. CASE c.ws = "temp"
      <3>1. PICK change : change = [ws |-> c.ws]
        OBVIOUS
      <3>2. d = Patching(c, l, change, "provision")
        BY <1>1, <1>8, <2>2, <3>1 DEF PatchLead
      <3>3. /\ DOMAIN d = Fields /\ d.pc = "patch" /\ d.slot = c.slot /\ d.snap = c.snap /\ d.ws = c.ws
            /\ DOMAIN d.patch = PatchFields /\ d.patch.slot = l /\ d.patch.change = change
            /\ d.patch.then = "provision"
        BY <1>3, <3>2, PatchingParts
      <3>4. DOMAIN change = {"ws"} /\ change["ws"] = c.ws
        BY <3>1
      <3>5. ChangeOK(d.patch)'
        BY <1>5, <3>3, <3>4 DEF ChangeOK
      <3>6. PatchOK(d)'
        BY <1>2, <1>8, <3>3, <3>5 DEF PatchOK
      <3>7. AddingOK(t, d)'
        BY <1>2, <1>3, <1>5, <2>1, <3>3 DEF AddingOK, SnapOK
      <3>8. SettingOK(d)' /\ AttachingOK(d)'
        BY <3>3 DEF SettingOK, Setting, AtMember, AttachingOK, Attaching
      <3>. QED BY <3>3, <3>6, <3>7, <3>8 DEF CallOK, ReplyOK
    <2>3. CASE c.ws # "temp"
      <3>1. d = [c EXCEPT !.pc = "provision"]
        BY <1>1, <2>3 DEF PatchLead
      <3>2. DOMAIN d = Fields /\ d.pc = "provision" /\ d.slot = c.slot /\ d.snap = c.snap /\ d.ws = c.ws
        BY <1>3, <3>1 DEF Fields
      <3>3. AddingOK(t, d)'
        BY <1>2, <1>3, <1>5, <2>1, <3>2 DEF AddingOK, SnapOK
      <3>. QED BY <3>2, <3>3
           DEF CallOK, ReplyOK, SettingOK, Setting, AtMember, AttachingOK, Attaching, PatchOK, Patches
    <2>. QED BY <2>2, <2>3
  <1>10. \A u \in Requests : u # t => ~Adding(call[u])
    BY <1>1, <1>3, OneAdder
  <1>11. leads \subseteq row'.agents
    BY <1>4, <1>5 DEF ProvisionInv, RowOK
  <1>. QED BY <1>2, <1>4, <1>5, <1>6, <1>7, <1>9, <1>10, <1>11, RowStep

\* set_session_mode writes its field of the row.
LEMMA WriteModeInv ==
  ASSUME ProvisionInv, NEW t \in Requests, WriteMode(t)
  PROVE  ProvisionInv'
  <1>1. PICK c, d : c = call[t] /\ d = [c EXCEPT !.pc = "agents"]
    OBVIOUS
  <1>2. /\ c.pc = "row" /\ UpdateTeam("mode", c.mode) /\ Set(t, d)
        /\ UNCHANGED <<leads, extra, tasks, dirs, mutex, lost, edited, undone, dropped>>
    BY <1>1 DEF WriteMode, history
  <1>3. DOMAIN c = Fields /\ row # None /\ c.mode \in Modes /\ c.todo \subseteq Joined
    BY <1>1, <1>2 DEF ProvisionInv, CallOK, SettingOK, Setting
  <1>4. leads # {} /\ row \in TeamRows /\ leads \subseteq row.agents /\ row.ws \in dirs \cup lost
    BY <1>3, TeamHasLead DEF ProvisionInv, RowOK, LeadOK, Home
  <1>5. row' \in TeamRows /\ row'.agents = row.agents /\ row'.ws = row.ws /\ row' # None
    BY <1>2, <1>3, <1>4, FieldWritten
  <1>6. Home' = Home /\ Joined' = Joined
    BY <1>2, <1>3, <1>5 DEF Home, Joined
  <1>7. Mild
    BY <1>2, <1>3, <1>5, <1>6 DEF Mild, Placed, Configured
  <1>8. DOMAIN d = Fields /\ d.pc = "agents" /\ d.mode = c.mode /\ d.todo = c.todo
    BY <1>1, <1>3 DEF Fields
  <1>9. CallOK(t, d)'
    BY <1>3, <1>5, <1>6, <1>8
       DEF CallOK, AddingOK, Adding, ReplyOK, SettingOK, Setting, AtMember, AttachingOK, Attaching, PatchOK, Patches
  <1>10. Alone
    BY <1>2, <1>5, <1>6 DEF Alone, Joined
  <1>. QED BY <1>2, <1>3, <1>4, <1>5, <1>6, <1>7, <1>9, <1>10, RowStep

\* persist_agents: the list that was read misses dropped members only.
LEMMA PersistAgentsInv ==
  ASSUME ProvisionInv, NEW t \in Requests, PersistAgents(t)
  PROVE  /\ ProvisionInv'
         /\ \E v : UpdateTeam("agents", v) /\ row.agents \ v \subseteq dropped /\ v \subseteq Slots
  <1>1. PICK c, v : c = call[t] /\ v = c.snap.agents \cup {c.slot}
    OBVIOUS
  <1>2. /\ c.pc = "persist" /\ End(t) /\ UpdateTeam("agents", v)
        /\ UNCHANGED <<leads, extra, tasks, dirs, lost, edited, undone, dropped>>
    BY <1>1 DEF PersistAgents, history
  <1>3. AddingOK(t, c) /\ Adding(c) /\ SnapOK(c)
    BY <1>1, <1>2 DEF ProvisionInv, CallOK, Adding, AddingOK
  <1>4. /\ row # None /\ c.slot \in Slots /\ extra[c.slot] # None
        /\ row \in TeamRows /\ row.ws \in dirs \cup lost
        /\ row.agents \subseteq v \cup dropped /\ v \subseteq Joined \cup {c.slot} /\ leads \subseteq v
    BY <1>1, <1>2, <1>3, TeamHasLead DEF ProvisionInv, LeadOK, Home, AddingOK, SnapOK, Slots
  <1>5. v \subseteq Slots
    BY <1>4, TeamHasLead
  <1>6. row' \in TeamRows /\ row'.agents = v /\ row'.ws = row.ws /\ row' # None
    BY <1>2, <1>4, <1>5, FieldWritten
  <1>7. Home' = Home
    BY <1>4, <1>6 DEF Home
  <1>8. Joined \subseteq Joined' /\ Joined' \subseteq Joined \cup {c.slot}
    BY <1>2, <1>4, <1>6 DEF Joined
  <1>9. Mild
    BY <1>2, <1>4, <1>6, <1>7, <1>8 DEF Mild, Placed, Configured
  <1>10. Set(t, Done) /\ CallOK(t, Done)'
    BY <1>2, DoneOK DEF End
  <1>11. \A u \in Requests : u # t => ~Adding(call[u])
    BY <1>1, <1>3, OneAdder
  <1>12. ProvisionInv'
    BY <1>2, <1>4, <1>6, <1>8, <1>9, <1>10, <1>11, RowStep
  <1>. QED BY <1>2, <1>4, <1>5, <1>12

\* persist_agent_last_message: what the list that was read misses is dropped.
LEMMA WriteLastMessageInv ==
  ASSUME ProvisionInv, NEW t \in Requests, WriteLastMessage(t)
  PROVE  /\ ProvisionInv'
         /\ \E v : UpdateTeam("agents", v) /\ row.agents \ v \subseteq dropped' /\ v \subseteq Slots
  <1>1. PICK c, v : c = call[t] /\ v = c.snap.agents
    OBVIOUS
  <1>2. /\ c.pc = "reply" /\ Set(t, Done) /\ UpdateTeam("agents", v)
        /\ dropped' = dropped \cup (row.agents \ v)
        /\ UNCHANGED <<leads, extra, tasks, dirs, mutex, lost, edited, undone>>
    BY <1>1 DEF WriteLastMessage
  <1>3. SnapOK(c)
    BY <1>1, <1>2 DEF ProvisionInv, CallOK, ReplyOK
  <1>4. /\ row # None /\ row \in TeamRows /\ row.ws \in dirs \cup lost
        /\ v \subseteq Joined /\ leads \subseteq v
    BY <1>1, <1>3, TeamHasLead DEF ProvisionInv, LeadOK, Home, SnapOK
  <1>5. v \subseteq Slots
    BY <1>4, TeamHasLead
  <1>6. row' \in TeamRows /\ row'.agents = v /\ row'.ws = row.ws /\ row' # None
    BY <1>2, <1>4, <1>5, FieldWritten
  <1>7. Home' = Home
    BY <1>4, <1>6 DEF Home
  <1>8. Joined' = Joined
    BY <1>2, <1>4, <1>6 DEF Joined
  <1>9. Mild
    BY <1>2, <1>4, <1>6, <1>7, <1>8 DEF Mild, Placed, Configured
  <1>10. CallOK(t, Done)' /\ Alone
    BY <1>2, <1>4, <1>6, <1>8, DoneOK DEF Alone
  <1>11. ProvisionInv'
    BY <1>2, <1>4, <1>6, <1>8, <1>9, <1>10, RowStep
  <1>. QED BY <1>2, <1>5, <1>11

\* The conversation of a new member is made in the workspace of the row.
LEMMA ProvisionNewAgentInv ==
  ASSUME ProvisionInv, NEW t \in Requests, ProvisionNewAgent(t)
  PROVE  ProvisionInv'
  <1>1. PICK c, m, d, e : /\ c = call[t] /\ m = c.slot /\ d = [c EXCEPT !.pc = "persist"]
                          /\ e = NewExtra(c.ws, c.snap.mode)
    OBVIOUS
  <1>2. /\ c.pc = "provision"
        /\ UNCHANGED <<row, leads, home, tasks, dirs, lost, edited, undone, dropped>>
    BY <1>1 DEF ProvisionNewAgent, rowVars, history
  <1>3. DOMAIN c = Fields /\ AddingOK(t, c) /\ Adding(c) /\ SnapOK(c)
    BY <1>1, <1>2 DEF ProvisionInv, CallOK, Adding, AddingOK
  <1>4. /\ row # None /\ m \in Slots /\ c.ws = row.ws /\ extra[m] = None
        /\ leads # {} /\ row \in TeamRows /\ row.ws \in Directories /\ c.snap.mode \in Modes \cup {None}
    BY <1>1, <1>2, <1>3, TeamHasLead, RowParts DEF AddingOK, Slots, SnapOK
  <1>5. CASE End(t) /\ UNCHANGED extra
    <2>1. Same
      BY <1>2, <1>5 DEF Same
    <2>. QED BY <1>2, <1>4, <1>5, <2>1, EndStep
  <1>6. CASE extra' = [extra EXCEPT ![m] = e] /\ Set(t, d) /\ UNCHANGED mutex
    <2>1. e \in Extras /\ e.ws = row.ws /\ e # None
      BY <1>1, <1>4, NewExtraIs
    <2>2. DOMAIN extra' = Slots /\ extra'[m] = e /\ \A x \in Slots : x # m => extra'[x] = extra[x]
      BY <1>4, <1>6 DEF ProvisionInv
    <2>3. Home' = Home /\ Joined' = Joined /\ Home = row.ws
      BY <1>2, <1>4 DEF Home, Joined
    <2>4. Mild
      BY <1>2, <1>4, <2>1, <2>2, <2>3 DEF Mild, Placed, Configured
    <2>5. DOMAIN d = Fields /\ d.pc = "persist" /\ d.slot = m /\ d.snap = c.snap /\ d.ws = c.ws
      BY <1>1, <1>3 DEF Fields
    <2>6. AddingOK(t, d)'
      <3>1. SnapOK(d)'
        BY <1>3, <2>4, <2>5, SnapKept DEF SnapOK
      <3>. QED BY <1>1, <1>2, <1>3, <1>6, <2>1, <2>2, <2>5, <3>1 DEF AddingOK
    <2>7. CallOK(t, d)'
      BY <2>5, <2>6 DEF CallOK, ReplyOK, SettingOK, Setting, AtMember, AttachingOK, Attaching, PatchOK, Patches
    <2>8. \A u \in Requests : u # t => ~Adding(call[u])
      BY <1>1, <1>3, OneAdder
    <2>9. DOMAIN call' = Requests /\ \A u \in Requests : CallOK(u, call[u])'
      BY <1>6, <2>4, <2>7, <2>8, CallsStep
    <2>10. LeadOK'
      <3>1. PICK l \in Initial : leads = {l} /\ extra[l] # None /\ Home \in Directories /\ Home \in dirs \cup lost
        BY <1>4 DEF ProvisionInv, LeadOK
      <3>2. l \in Slots /\ extra'[l] # None
        BY <1>4, <2>2, <3>1 DEF Slots
      <3>. QED BY <1>2, <2>3, <3>1, <3>2 DEF LeadOK
    <2>11. RowOK'
      BY <1>2, <1>4, <2>1, <2>2, <2>3 DEF RowOK, ProvisionInv
    <2>12. ExtrasOK'
      <3> SUFFICES ASSUME NEW x \in Slots, extra'[x] # None PROVE Fits(x, extra[x])'
        BY DEF ExtrasOK
      <3>1. PICK f : f = extra'[x]
        OBVIOUS
      <3>2. Fits(x, f)'
        <4>1. CASE x = m
          BY <2>1, <2>2, <2>3, <3>1, <4>1 DEF Fits, Placed
        <4>2. CASE x # m
          BY <2>2, <2>4, <3>1, <4>2, FitsKept DEF ProvisionInv, ExtrasOK
        <4>. QED BY <4>1, <4>2
      <3>. QED BY <3>1, <3>2
    <2>13. TasksOK'
      BY <1>2, <2>4, TasksKept
    <2>. QED BY <1>2, <2>2, <2>9, <2>10, <2>11, <2>12, <2>13 DEF ProvisionInv
  <1>. QED BY <1>1, <1>5, <1>6 DEF ProvisionNewAgent

\* What is written fits the member: the keys of the patch, and the rest as read.
LEMMA PatchedFits ==
  ASSUME NEW m, NEW p, p.slot = m, ChangeOK(p), Fits(m, p.read), NEW e, e = Patched(p.read, p.change),
         row # None => row.ws \in Directories
  PROVE  e \in Extras /\ (m \in edited \/ ByClient(p) \/ Placed(e.ws))
  <1>1. PICK r, change : r = p.read /\ change = p.change
    OBVIOUS
  <1>2. /\ r \in Extras /\ DOMAIN r = {"ws", "mode", "current", "config"}
        /\ r["ws"] \in Directories \cup {None} /\ r["mode"] \in Modes \cup {"auto", None}
        /\ r["current"] \in Modes \cup {None} /\ r["config"] \in {"mcp", None}
    BY <1>1, ExtraParts DEF Fits
  <1>3. e = [k \in {"ws", "mode", "current", "config"} |-> IF k \in DOMAIN change THEN change[k] ELSE r[k]]
    BY <1>1, <1>2 DEF Patched
  <1>4. /\ e["ws"] = IF "ws" \in DOMAIN change THEN change["ws"] ELSE r["ws"]
        /\ e["mode"] = IF "mode" \in DOMAIN change THEN change["mode"] ELSE r["mode"]
        /\ e["current"] = IF "current" \in DOMAIN change THEN change["current"] ELSE r["current"]
        /\ e["config"] = IF "config" \in DOMAIN change THEN change["config"] ELSE r["config"]
        /\ e = [k \in {"ws", "mode", "current", "config"} |-> e[k]]
    BY <1>3
  <1>5. m \in edited \/ Placed(r["ws"])
    BY <1>1 DEF Fits
  <1>6. CASE p.then = "done"
    <2>1. e \in Extras
      BY <1>1, <1>2, <1>6, ProvisioningAssumption DEF ChangeOK
    <2>2. ByClient(p) \/ e.ws = r["ws"]
      BY <1>1, <1>4, <1>6 DEF ByClient
    <2>. QED BY <1>5, <2>1, <2>2
  <1>7. CASE p.then # "done"
    <2>1. /\ "ws" \in DOMAIN change => row # None /\ change["ws"] = row.ws /\ row.ws \in Directories
          /\ "mode" \in DOMAIN change => change["mode"] \in Modes \cup {"auto"}
          /\ "current" \in DOMAIN change => change["current"] \in Modes
          /\ "config" \in DOMAIN change => change["config"] = RuntimeConfig(Profile[m]).config
      BY <1>1, <1>7 DEF ChangeOK
    <2>2. RuntimeConfig(Profile[m]).config \in {"mcp", None}
      BY ConfigIs
    <2>3. e \in Extras
      BY <1>2, <1>4, <2>1, <2>2, ExtraTyped
    <2>4. m \in edited \/ Placed(e["ws"])
      BY <1>4, <1>5, <2>1 DEF Placed, Home
    <2>. QED BY <2>3, <2>4
  <1>. QED BY <1>6, <1>7

\* ... and its transport is still there, unless it has taken back another patch.
LEMMA PatchedConfig ==
  ASSUME NEW m, NEW p, p.slot = m, ChangeOK(p), p.read \in Extras, extra[m] \in Extras, ~ByClient(p),
         NEW e, e = Patched(p.read, p.change)
  PROVE  /\ "config" \in DOMAIN p.change /\ p.then # "done" => e.config = RuntimeConfig(Profile[m]).config
         /\ ~Undoes(p) /\ extra[m].config = RuntimeConfig(Profile[m]).config
               => e.config = RuntimeConfig(Profile[m]).config
  <1>1. PICK r, x, change : r = p.read /\ x = extra[m] /\ change = p.change
    OBVIOUS
  <1>2. "config" \in DOMAIN r /\ "config" \in DOMAIN x
    BY <1>1, ExtraParts
  <1>3. /\ Patched(r, change)["config"] = IF "config" \in DOMAIN change THEN change["config"] ELSE r["config"]
        /\ Patched(x, change)["config"] = IF "config" \in DOMAIN change THEN change["config"] ELSE x["config"]
    BY <1>2 DEF Patched
  <1>4. "config" \in DOMAIN change /\ p.then # "done" => change["config"] = RuntimeConfig(Profile[m]).config
    BY <1>1 DEF ChangeOK
  <1>5. "config" \in DOMAIN change => p.then # "done"
    BY <1>1 DEF ByClient
  <1>6. ~Undoes(p) => Patched(r, change) = Patched(x, change)
    BY <1>1 DEF Undoes
  <1>. QED BY <1>1, <1>3, <1>4, <1>5, <1>6

\* A patch is written, whoever else has written in between.
LEMMA PatchWriteInv ==
  ASSUME ProvisionInv, NEW t \in Requests, PatchWrite(t)
  PROVE  ProvisionInv'
  <1>1. PICK c, p, m, d, e : /\ c = call[t] /\ p = c.patch /\ m = p.slot /\ e = Patched(p.read, p.change)
                             /\ d = [c EXCEPT !.pc = p.then, !.patch = NoPatch]
    OBVIOUS
  <1>2. /\ c.pc = "write" /\ Set(t, d) /\ extra' = [extra EXCEPT ![m] = e]
        /\ edited' = edited \cup {x \in {m} : ByClient(p)}
        /\ undone' = undone \cup {x \in {m} : Undoes(p)}
        /\ UNCHANGED <<row, leads, home, tasks, dirs, mutex, lost, dropped>>
    BY <1>1 DEF PatchWrite, rowVars
  <1>3. /\ DOMAIN c = Fields /\ AddingOK(t, c) /\ SettingOK(c) /\ AttachingOK(c) /\ PatchOK(c) /\ Patches(c)
    BY <1>1, <1>2 DEF ProvisionInv, CallOK, Patches
  <1>4. /\ m \in Slots /\ extra[m] # None /\ ChangeOK(p) /\ Fits(m, p.read) /\ extra[m] \in Extras
        /\ p.then \in {"provision", "agents", "current", "kill", "done"}
    BY <1>1, <1>2, <1>3 DEF PatchOK, ProvisionInv, ExtrasOK, Fits
  <1>5. row # None => row.ws \in Directories
    BY TeamHasLead
  <1>6. e \in Extras /\ (m \in edited \/ ByClient(p) \/ Placed(e.ws)) /\ e # None
    BY <1>1, <1>4, <1>5, PatchedFits, ExtraParts
  <1>7. DOMAIN extra' = Slots /\ extra'[m] = e /\ \A x \in Slots : x # m => extra'[x] = extra[x]
    BY <1>2, <1>4 DEF ProvisionInv
  <1>8. Home' = Home /\ Joined' = Joined /\ \A ws : Placed(ws)' <=> Placed(ws)
    BY <1>2 DEF Home, Joined, Placed
  <1>9. /\ Configured(m) => Configured(m)'
        /\ "config" \in DOMAIN p.change /\ p.then # "done" => Configured(m)'
    <2>1. CASE ByClient(p)
      BY <1>2, <2>1 DEF Configured
    <2>2. CASE ~ByClient(p)
      <3>1. /\ "config" \in DOMAIN p.change /\ p.then # "done" => e.config = RuntimeConfig(Profile[m]).config
            /\ ~Undoes(p) /\ extra[m].config = RuntimeConfig(Profile[m]).config
                  => e.config = RuntimeConfig(Profile[m]).config
        BY <1>1, <1>4, <2>2, PatchedConfig DEF Fits
      <3>. QED BY <1>2, <1>7, <3>1 DEF Configured
    <2>. QED BY <2>1, <2>2
  <1>10. Mild
    <2>1. \A x \in Slots : x # m => (Configured(x) => Configured(x)')
      BY <1>2, <1>7 DEF Configured
    <2>. QED BY <1>2, <1>6, <1>7, <1>8, <1>9, <2>1 DEF Mild
  <1>11. /\ DOMAIN d = Fields /\ d.pc = p.then /\ d.slot = c.slot /\ d.snap = c.snap
         /\ d.ws = c.ws /\ d.mode = c.mode /\ d.todo = c.todo
    BY <1>1, <1>3 DEF Fields
  <1>12. CallOK(t, d)'
    <2>1. ~Patches(d) /\ d.pc # "reply"
      BY <1>4, <1>11 DEF Patches
    <2>2. AddingOK(t, d)'
      <3> SUFFICES ASSUME Adding(d) PROVE AddingOK(t, d)'
        BY DEF AddingOK
      <3>1. d.pc = "provision" /\ Adding(c) /\ SnapOK(c)
        BY <1>1, <1>3, <1>4, <1>11, <2>1 DEF Adding, AddingOK
      <3>2. c.slot \in Slots /\ extra[c.slot] = None
        BY <1>2, <1>3, <3>1 DEF AddingOK, Slots
      <3>3. extra'[c.slot] = None
        BY <1>4, <1>7, <3>2
      <3>4. SnapOK(d)'
        BY <1>10, <1>11, <3>1, SnapKept DEF SnapOK
      <3>. QED BY <1>2, <1>3, <1>11, <3>1, <3>3, <3>4 DEF AddingOK
    <2>3. SettingOK(d)'
      BY <1>1, <1>2, <1>3, <1>4, <1>8, <1>11, <2>1 DEF SettingOK, Setting, AtMember
    <2>4. AttachingOK(d)'
      <3> SUFFICES ASSUME Attaching(d) PROVE AttachingOK(d)'
        BY DEF AttachingOK
      <3>1. d.pc = "kill" /\ p.then = "kill" /\ Attaching(c)
        BY <1>1, <1>3, <1>4, <1>11, <2>1 DEF Attaching
      <3>2. c.slot = m /\ "config" \in DOMAIN p.change /\ Transport(Profile[m]) # None
        BY <1>1, <1>3, <3>1 DEF AttachingOK
      <3>3. Configured(m)'
        BY <1>9, <3>1, <3>2
      <3>. QED BY <1>4, <1>6, <1>7, <1>11, <2>1, <3>2, <3>3 DEF AttachingOK
    <2>. QED BY <1>11, <2>1, <2>2, <2>3, <2>4 DEF CallOK, PatchOK, ReplyOK
  <1>13. \A u \in Requests : u # t /\ Adding(call[u]) => Alone
    BY <1>2, <1>4, <1>7, <1>8 DEF Alone, Joined
  <1>14. DOMAIN call' = Requests /\ \A u \in Requests : CallOK(u, call[u])'
    BY <1>2, <1>10, <1>12, <1>13, CallsStep
  <1>15. LeadOK'
    <2>1. PICK l \in Initial : leads = {l} /\ extra[l] # None /\ Home \in Directories /\ Home \in dirs \cup lost
      BY <1>4 DEF ProvisionInv, LeadOK
    <2>2. l \in Slots /\ extra'[l] # None
      BY <1>6, <1>7, <2>1 DEF Slots
    <2>. QED BY <1>2, <1>8, <2>1, <2>2 DEF LeadOK
  <1>16. RowOK'
    BY <1>2, <1>6, <1>7, <1>8 DEF RowOK, ProvisionInv
  <1>17. ExtrasOK'
    <2> SUFFICES ASSUME NEW x \in Slots, extra'[x] # None PROVE Fits(x, extra[x])'
      BY DEF ExtrasOK
    <2>1. PICK f : f = extra'[x]
      OBVIOUS
    <2>2. Fits(x, f)'
      <3>1. CASE x = m
        BY <1>2, <1>6, <1>7, <1>8, <2>1, <3>1 DEF Fits
      <3>2. CASE x # m
        BY <1>7, <1>10, <2>1, <3>2, FitsKept DEF ProvisionInv, ExtrasOK
      <3>. QED BY <3>1, <3>2
    <2>. QED BY <2>1, <2>2
  <1>18. TasksOK'
    BY <1>2, <1>10, TasksKept
  <1>. QED BY <1>2, <1>7, <1>14, <1>15, <1>16, <1>17, <1>18 DEF ProvisionInv

-----------------------------------------------------------------------------
(* The team is created, directories come and go                             *)

\* Steps of nobody's request.
LEMMA OutsideStep ==
  ASSUME ProvisionInv, Mild, call' = call, \A u \in Requests : Adding(call[u]) => Alone,
         NEW u \in Requests
  PROVE  CallOK(u, call[u])'
  <1>1. PICK c : c = call[u] /\ c = call'[u]
    OBVIOUS
  <1>2. CallOK(u, c) /\ (Adding(c) => Alone)
    BY <1>1 DEF ProvisionInv
  <1>3. CallOK(u, c)'
    BY <1>2, CallKept
  <1>. QED BY <1>1, <1>3

\* The lead is provisioned first, and there is one.
LEMMA ProvisionLeadInv ==
  ASSUME ProvisionInv, ProvisionLead
  PROVE  ProvisionInv'
  <1>1. row = None /\ leads = {} /\ UNCHANGED <<row, tasks, mutex, call, edited, undone, dropped>>
    BY DEF ProvisionLead, history
  <1>2. (\A t \in Requests : call[t].pc = "begin") /\ tasks = {}
    BY <1>1 DEF ProvisionInv, LeadOK
  <1>3. PICK roles \in [Initial -> {"lead", "teammate"}] :
            OneLead(roles) /\ leads' = {m \in Initial : roles[m] = "lead"}
    BY DEF ProvisionLead
  <1>4. PICK l \in Initial : leads' = {l}
    <2>1. PICK S : S = {m \in Initial : roles[m] = "lead"}
      OBVIOUS
    <2>2. S \in SUBSET Initial /\ Cardinality(S) = 1
      BY <1>3, <2>1 DEF OneLead
    <2>3. IsFiniteSet(S)
      BY <2>2, ProvisioningAssumption, FS_Subset
    <2>4. \E x : S = {x}
      BY <2>2, <2>3, FS_Singleton
    <2>. QED BY <1>3, <2>1, <2>4
  <1>5. home' \in Directories /\ home' \in dirs' \cup lost'
    BY DEF ProvisionLead, Usable, Exists, Directories
  <1>6. PICK e : e = NewExtra(home', None)
    OBVIOUS
  <1>7. e \in Extras /\ e.ws = home' /\ e # None
    BY <1>5, <1>6, NewExtraIs
  <1>8. DOMAIN extra' = Slots /\ l \in Slots /\ extra'[l] = e /\ \A x \in Slots : x # l => extra'[x] = None
    BY <1>4, <1>6 DEF ProvisionLead, Slots
  <1>9. Home' = home'
    BY <1>1 DEF Home
  <1>10. LeadOK' /\ RowOK' /\ TasksOK'
    BY <1>1, <1>2, <1>4, <1>5, <1>7, <1>8, <1>9 DEF LeadOK, RowOK, TasksOK
  <1>11. ExtrasOK'
    <2>1. Fits(l, e)'
      BY <1>7, <1>9 DEF Fits, Placed
    <2>. QED BY <1>8, <2>1 DEF ExtrasOK, Fits
  <1>12. \A u \in Requests : CallOK(u, call[u])'
    <2> SUFFICES ASSUME NEW u \in Requests PROVE CallOK(u, call[u])'
      OBVIOUS
    <2>1. DOMAIN call'[u] = Fields /\ call'[u].pc = "begin"
      BY <1>1, <1>2 DEF ProvisionInv, CallOK
    <2>. QED BY <2>1 DEF CallOK, AddingOK, Adding, ReplyOK, SettingOK, Setting, AtMember,
                         AttachingOK, Attaching, PatchOK, Patches
  <1>. QED BY <1>1, <1>8, <1>10, <1>11, <1>12 DEF ProvisionInv

\* While the team is being created nobody adds a member.
LEMMA NoneAdds ==
  ASSUME ProvisionInv, row = None
  PROVE  \A u \in Requests : ~Adding(call[u])
  BY DEF ProvisionInv, CallOK, AddingOK, SnapOK

\* The others are made in the workspace that was found for the lead.
LEMMA ProvisionTeammateInv ==
  ASSUME ProvisionInv, NEW m \in Initial, ProvisionTeammate(m)
  PROVE  ProvisionInv'
  <1>1. /\ row = None /\ leads # {} /\ extra[m] = None /\ m \in Slots
        /\ UNCHANGED <<row, leads, home, tasks, dirs, mutex, call, lost, edited, undone, dropped>>
    BY DEF ProvisionTeammate, rowVars, history, Slots
  <1>2. PICK e : e = NewExtra(home, None) /\ extra' = [extra EXCEPT ![m] = e]
    BY DEF ProvisionTeammate
  <1>3. PICK l \in Initial : leads = {l} /\ extra[l] # None /\ Home \in Directories /\ Home \in dirs \cup lost
    BY <1>1 DEF ProvisionInv, LeadOK
  <1>4. e \in Extras /\ e.ws = Home /\ e # None
    BY <1>1, <1>2, <1>3, NewExtraIs DEF Home
  <1>5. DOMAIN extra' = Slots /\ extra'[m] = e /\ \A x \in Slots : x # m => extra'[x] = extra[x]
    BY <1>1, <1>2 DEF ProvisionInv
  <1>6. Home' = Home
    BY <1>1 DEF Home
  <1>7. Mild
    BY <1>1, <1>5, <1>6 DEF Mild, Placed, Configured
  <1>8. \A u \in Requests : CallOK(u, call[u])'
    BY <1>1, <1>7, NoneAdds, OutsideStep
  <1>9. LeadOK' /\ RowOK'
    <2>1. extra'[l] # None
      BY <1>1, <1>3, <1>5 DEF Slots
    <2>. QED BY <1>1, <1>3, <1>6, <2>1 DEF LeadOK, RowOK
  <1>10. ExtrasOK'
    <2> SUFFICES ASSUME NEW x \in Slots, extra'[x] # None PROVE Fits(x, extra[x])'
      BY DEF ExtrasOK
    <2>1. PICK f : f = extra'[x]
      OBVIOUS
    <2>2. Fits(x, f)
      BY <1>4, <1>5, <2>1 DEF ProvisionInv, ExtrasOK, Fits, Placed
    <2>3. Fits(x, f)'
      BY <1>7, <2>2, FitsKept
    <2>. QED BY <2>1, <2>3
  <1>11. TasksOK'
    BY <1>1, <1>7, TasksKept
  <1>. QED BY <1>1, <1>5, <1>8, <1>9, <1>10, <1>11 DEF ProvisionInv

\* The row is written last.
LEMMA CreateTeamInv ==
  ASSUME ProvisionInv, CreateTeam
  PROVE  ProvisionInv'
  <1>1. /\ row = None /\ leads # {} /\ (\A m \in Initial : extra[m] # None)
        /\ row' = [agents |-> Initial, ws |-> home, mode |-> None]
        /\ UNCHANGED <<leads, extra, tasks, dirs, mutex, call, lost, edited, undone, dropped>>
    BY DEF CreateTeam, history
  <1>2. PICK l \in Initial : leads = {l} /\ extra[l] # None /\ Home \in Directories /\ Home \in dirs \cup lost
    BY <1>1 DEF ProvisionInv, LeadOK
  <1>3. Home = home
    BY <1>1 DEF Home
  <1>4. row' \in TeamRows /\ row'.agents = Initial /\ row'.ws = Home
    BY <1>1, <1>2, <1>3 DEF TeamRows, Slots
  <1>5. row' # None
    BY <1>4, RowParts
  <1>6. Home' = Home
    BY <1>4, <1>5 DEF Home
  <1>7. Mild
    BY <1>1, <1>5, <1>6 DEF Mild, Placed, Configured
  <1>8. \A u \in Requests : CallOK(u, call[u])'
    BY <1>1, <1>7, NoneAdds, OutsideStep
  <1>9. LeadOK'
    BY <1>1, <1>2, <1>6 DEF LeadOK
  <1>10. RowOK'
    <2>1. dropped = {}
      BY <1>1 DEF ProvisionInv
    <2>. QED BY <1>1, <1>2, <1>4, <2>1 DEF RowOK, Joined, Slots
  <1>11. ExtrasOK' /\ TasksOK'
    BY <1>1, <1>7, ExtrasKept, TasksKept
  <1>. QED BY <1>1, <1>8, <1>9, <1>10, <1>11 DEF ProvisionInv

\* Directories that are lost are remembered.
LEMMA DirectoryInv ==
  ASSUME ProvisionInv, LoseDirectory \/ RestoreDirectory
  PROVE  ProvisionInv'
  <1>1. /\ UNCHANGED <<row, leads, home, extra, tasks, mutex, call, edited, undone, dropped>>
        /\ lost \subseteq lost' /\ dirs \cup lost \subseteq dirs' \cup lost'
    BY DEF LoseDirectory, RestoreDirectory, rowVars, history
  <1>2. Home' = Home /\ Joined' = Joined
    BY <1>1 DEF Home, Joined
  <1>3. Mild
    BY <1>1, <1>2 DEF Mild, Placed, Configured
  <1>4. \A u \in Requests : CallOK(u, call[u])'
    BY <1>1, <1>2, <1>3, OutsideStep DEF Alone, Joined
  <1>5. LeadOK' /\ RowOK'
    BY <1>1, <1>2 DEF ProvisionInv, LeadOK, RowOK
  <1>6. ExtrasOK' /\ TasksOK'
    BY <1>1, <1>3, ExtrasKept, TasksKept
  <1>. QED BY <1>1, <1>4, <1>5, <1>6 DEF ProvisionInv

-----------------------------------------------------------------------------
(* The theorems                                                             *)

\* Every step keeps the invariant.
LEMMA ProvisionStep == ProvisionInv /\ [Next]_vars => ProvisionInv'
  <1> SUFFICES ASSUME ProvisionInv, Next \/ UNCHANGED vars PROVE ProvisionInv'
    OBVIOUS
  <1>1. CASE Create
    BY <1>1, ProvisionLeadInv, ProvisionTeammateInv, CreateTeamInv DEF Create
  <1>2. CASE \E t \in Requests : Add(t) \/ LastMessage(t)
    BY <1>2, BeginAddInv, ResolveForNewAgentInv, WriteTeamWorkspaceInv, ProvisionNewAgentInv, PersistAgentsInv,
       BeginLastMessageInv, WriteLastMessageInv
       DEF Add, LastMessage
  <1>3. CASE \E t \in Requests : SetMode(t)
    BY <1>3, BeginModeInv, WriteModeInv, SetAgentModeInv, SaveRuntimeModeInv DEF SetMode
  <1>4. CASE \E t \in Requests : AttachProcess(t)
    BY <1>4, AttachAgentInv, KillForRebuildInv, WarmupInv DEF AttachProcess
  <1>5. CASE \E t \in Requests : UpdateConversation(t) \/ PatchRead(t) \/ PatchWrite(t)
    BY <1>5, UpdateConversationInv, PatchReadInv, PatchWriteInv
  <1>6. CASE LoseDirectory \/ RestoreDirectory
    BY <1>6, DirectoryInv
  <1>7. CASE UNCHANGED vars
    <2>1. UNCHANGED <<row, leads, home, extra, tasks, dirs, mutex, call, lost, edited, undone, dropped>>
      BY <1>7 DEF vars
    <2>2. Mild /\ Home' = Home /\ Joined' = Joined
      BY <2>1, MildSame DEF Same
    <2>3. \A u \in Requests : CallOK(u, call[u])'
      BY <2>1, <2>2, OutsideStep DEF Alone, Joined
    <2>4. LeadOK' /\ RowOK'
      BY <2>1, <2>2 DEF ProvisionInv, LeadOK, RowOK
    <2>5. ExtrasOK' /\ TasksOK'
      BY <2>1, <2>2, ExtrasKept, TasksKept
    <2>. QED BY <2>1, <2>3, <2>4, <2>5 DEF ProvisionInv
  <1>. QED BY <1>1, <1>2, <1>3, <1>4, <1>5, <1>6, <1>7 DEF Next

\* What requests and patches rely on between their steps holds throughout.
THEOREM ProvisionInvariant == Spec => []ProvisionInv
  <1>1. Init => ProvisionInv
    <2> SUFFICES ASSUME Init PROVE ProvisionInv
      OBVIOUS
    <2>1. \A t \in Requests : CallOK(t, call[t]) /\ call[t].pc = "begin"
      BY DEF Init, Call, CallOK, Fields, AddingOK, Adding, ReplyOK, SettingOK, Setting, AtMember,
             AttachingOK, Attaching, PatchOK, Patches
    <2>. QED BY <2>1 DEF Init, ProvisionInv, LeadOK, RowOK, ExtrasOK, TasksOK
  <1>. QED BY <1>1, ProvisionStep, PTL DEF Spec

\* A process that runs has the transport of its backend in its extra: its attach has
\* written it before, and since then only a patch that was read before another and
\* written after it, or the client, may have taken it away.
THEOREM MembersRunAsConfigured == Spec => []RunsAsConfigured
  <1>1. ProvisionInv => RunsAsConfigured
    BY DEF ProvisionInv, TasksOK, Configured, RunsAsConfigured
  <1>. QED BY <1>1, ProvisionInvariant, PTL

\* All members work in the workspace of the row, but for those whose directory has
\* been missing or whose extra the client has changed: resolve_for_new_agent writes
\* down what it falls back to before a member is made there, the client's choice for
\* the lead included, and a late patch brings back an old workspace only.
THEOREM MembersShareTheWorkspace == Spec => []SharedWorkspace
  <1>1. ProvisionInv => SharedWorkspace
    <2> SUFFICES ASSUME ProvisionInv, row # None, NEW m \in row.agents
                 PROVE  extra[m].ws = row.ws \/ extra[m].ws \in lost \/ m \in edited
      BY DEF SharedWorkspace, ConversationWorkspace
    <2>1. m \in Slots /\ extra[m] # None
      BY TeamHasLead DEF Joined
    <2>. QED BY <2>1 DEF ProvisionInv, ExtrasOK, Fits, Placed, Home
  <1>. QED BY <1>1, ProvisionInvariant, PTL

-----------------------------------------------------------------------------
(* The writes of the row.                                                   *)

\* A row of which one field was written differs in that field at most.
LEMMA OneFieldChanges ==
  ASSUME row \in TeamRows, NEW f \in {"agents", "ws", "mode"}, NEW v, UpdateTeam(f, v),
         f = "agents" => row.agents \ v \subseteq dropped'
  PROVE  /\ row.agents \ row'.agents \subseteq dropped'
         /\ Cardinality({g \in DOMAIN row : row'[g] # row[g]}) <= 1
  <1>1. PICK D : D = {g \in DOMAIN row : row'[g] # row[g]}
    OBVIOUS
  <1>2. DOMAIN row = {"agents", "ws", "mode"}
    BY RowParts
  <1>3. /\ row'[f] = v
        /\ \A g \in DOMAIN row : g # f => row'[g] = row[g]
    BY <1>2 DEF UpdateTeam
  <1>4. D \subseteq {f}
    BY <1>1, <1>3
  <1>5. IsFiniteSet({f}) /\ Cardinality({f}) = 1
    BY FS_Singleton
  <1>6. IsFiniteSet(D) /\ Cardinality(D) <= 1
    BY <1>4, <1>5, FS_Subset
  <1>7. row.agents \ row'.agents \subseteq dropped'
    <2>1. CASE f = "agents"
      BY <1>3, <2>1
    <2>2. CASE f # "agents"
      BY <1>2, <1>3, <2>2
    <2>. QED BY <2>1, <2>2
  <1>. QED BY <1>1, <1>6, <1>7

\* A step that leaves the row alone.
LEMMA RowUntouched ==
  ASSUME UNCHANGED row
  PROVE  /\ row.agents \ row'.agents \subseteq dropped'
         /\ Cardinality({f \in DOMAIN row : row'[f] # row[f]}) <= 1
  <1>1. {f \in DOMAIN row : row'[f] # row[f]} = {}
    OBVIOUS
  <1>. QED BY <1>1, FS_EmptySet

\* Requests that write the row at the same time do not undo each other, but for the
\* last message of an agent: a write changes one field, since update_team writes what
\* it is given only, and add_agent and spawn_agent, which hold the membership mutex,
\* write back every member that no last message has dropped.
THEOREM RepliesAloneDropMembers == Spec => OnlyRepliesDropMembers
  <1>1. ASSUME ProvisionInv, Next, row # None
        PROVE  /\ row.agents \ row'.agents \subseteq dropped'
               /\ Cardinality({f \in DOMAIN row : row'[f] # row[f]}) <= 1
    <2>1. row \in TeamRows
      BY <1>1, TeamHasLead
    <2>2. CASE \E t \in Requests : WriteTeamWorkspace(t)
      <3>1. PICK v : UpdateTeam("ws", v)
        BY <2>2 DEF WriteTeamWorkspace
      <3>. QED BY <2>1, <3>1, OneFieldChanges
    <2>3. CASE \E t \in Requests : WriteMode(t)
      <3>1. PICK v : UpdateTeam("mode", v)
        BY <2>3 DEF WriteMode
      <3>. QED BY <2>1, <3>1, OneFieldChanges
    <2>4. CASE \E t \in Requests : PersistAgents(t)
      <3>1. PICK v : UpdateTeam("agents", v) /\ row.agents \ v \subseteq dropped
        BY <1>1, <2>4, PersistAgentsInv
      <3>2. dropped' = dropped
        BY <2>4 DEF PersistAgents, history
      <3>. QED BY <2>1, <3>1, <3>2, OneFieldChanges
    <2>5. CASE \E t \in Requests : WriteLastMessage(t)
      <3>1. PICK v : UpdateTeam("agents", v) /\ row.agents \ v \subseteq dropped'
        BY <1>1, <2>5, WriteLastMessageInv
      <3>. QED BY <2>1, <3>1, OneFieldChanges
    <2>6. CASE \E t \in Requests : \/ BeginAdd(t) \/ ResolveForNewAgent(t) \/ ProvisionNewAgent(t)
                                   \/ BeginLastMessage(t)
      BY <2>6, RowUntouched DEF BeginAdd, ResolveForNewAgent, ProvisionNewAgent, BeginLastMessage, rowVars
    <2>7. CASE \E t \in Requests : BeginMode(t) \/ SetAgentMode(t) \/ SaveRuntimeMode(t)
      BY <2>7, RowUntouched DEF BeginMode, SetAgentMode, SaveRuntimeMode, rowVars
    <2>8. CASE \E t \in Requests : AttachProcess(t)
      BY <2>8, RowUntouched DEF AttachProcess, AttachAgent, KillForRebuild, Warmup, rowVars
    <2>9. CASE \E t \in Requests : UpdateConversation(t) \/ PatchRead(t) \/ PatchWrite(t)
      BY <2>9, RowUntouched DEF UpdateConversation, PatchRead, PatchWrite, rowVars
    <2>10. CASE LoseDirectory \/ RestoreDirectory
      BY <2>10, RowUntouched DEF LoseDirectory, RestoreDirectory, rowVars
    <2>11. ~Create
      BY <1>1 DEF Create, ProvisionLead, ProvisionTeammate, CreateTeam
    <2>. QED BY <1>1, <2>2, <2>3, <2>4, <2>5, <2>6, <2>7, <2>8, <2>9, <2>10, <2>11
         DEF Next, Add, LastMessage, SetMode
  <1>2. ProvisionInv /\ [Next]_vars => [RowKept]_vars
    BY <1>1 DEF RowKept
  <1>. QED BY <1>2, ProvisionInvariant, PTL DEF Spec, OnlyRepliesDropMembers
=============================================================================
