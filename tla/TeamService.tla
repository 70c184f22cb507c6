---------------------------- MODULE TeamService ----------------------------
(***************************************************************************)
(* The team service (crates/team/src/service.rs), with the provisioner     *)
(* that creates members and the attach tasks that start their runtimes     *)
(* (provisioning.rs, service/spawn_support.rs, session.rs), for one team:  *)
(* its row, its members' conversations and tasks, and the sessions         *)
(* (generations) that are started, published and stopped.                  *)
(*                                                                         *)
(* A call is one request of a user or an agent; its steps are the pieces   *)
(* between two awaits that others can come between.  Membership changes    *)
(* and session starts hold the team's membership mutex, session starts     *)
(* also the ensure mutex.  The entry of the membership mutex is dropped    *)
(* from its map when the team is archived or removed, so that a later call *)
(* makes a new one; a call keeps the mutex it looked up.  Left out: names, *)
(* models and backends, broadcasts, the owner of the team, what is sent.   *)
(***************************************************************************)
EXTENDS Naturals, FiniteSets

CONSTANTS Lead,             \* the slot of the team lead
          Mates,            \* the slots of the teammates the team is created with
          Fresh,            \* slot ids that add_agent and spawn_agent may generate
          Callers,          \* requests, one operation each
          Operations,       \* the operations every request may be for
          MaxGenerations,   \* bound: sessions ever started
          MaxOps            \* bound: attach and remove operations of one session

ASSUME ServiceAssumption ==
    /\ MaxGenerations \in Nat
    /\ MaxOps \in Nat
    /\ Lead \notin Mates \cup Fresh
    /\ Mates \cap Fresh = {}

Slots == {Lead} \cup Mates \cup Fresh
Generations == 1..MaxGenerations
None == 0

\* TEAM_REBUILD_MAX_CONCURRENCY
MaxConcurrency == 3

VARIABLES team,        \* the state of the team row: "none", "active", "archived", "deleted"
          roster,      \* TeamRow.agents
          convs,       \* the slots whose conversation row exists
          tasks,       \* the slots whose conversation has a task in the task manager
          published,   \* the generation in TeamSessionService.sessions, or None
          gens,        \* the number of generations started
          reg,         \* MemberRuntimeRegistry of every generation
          sched,       \* the slots the scheduler of every generation knows
          loops,       \* EventLoopRegistry.notifiers of every generation
          mutex,       \* the membership mutex now in add_agent_locks
          call,        \* the requests
          attaches,    \* the attach tasks that are running
          removed,     \* slots whose remove_agent has come to its end
          loose,       \* slots removed, listed or admitted again behind the registry's back
          dropped,     \* <<generation, operation>>: leases dropped by an early return
          unlocked     \* a write without the membership mutex has changed the roster

rowVars == <<team, roster, convs>>
sessionVars == <<published, gens, reg, sched, loops>>
history == <<removed, loose, dropped, unlocked>>
serviceVars == <<rowVars, tasks, sessionVars, mutex, call, attaches, history>>

-----------------------------------------------------------------------------
(* The registry of one generation; module MemberRuntime has it alone.       *)

Entry(kind, op) == [kind |-> kind, op |-> op]

Registry == [entry |-> [m \in Slots |-> Entry("Absent", 0)], lastOp |-> 0,
             leases |-> [o \in {} |-> {}], outcome |-> [o \in {} |-> {}], stopped |-> FALSE]

\* A new operation of member m; the attach it takes the place of is answered.
Started(r, m, kind) ==
    LET new == r.lastOp + 1
        Superseded(o) == r.entry[m] = Entry("Attaching", o)
    IN  [entry   |-> [r.entry EXCEPT ![m] = Entry(kind, new)],
         lastOp  |-> new,
         leases  |-> [o \in 1..new |-> IF o = new THEN m ELSE r.leases[o]],
         outcome |-> [o \in 1..new |-> IF o = new THEN "Pending"
                                       ELSE IF Superseded(o) THEN "Removed" ELSE r.outcome[o]],
         stopped |-> r.stopped]

\* Operation o of member m ends with outcome x.
Ended(r, o, entryAfter, x) ==
    [r EXCEPT !.entry = [@ EXCEPT ![r.leases[o]] = entryAfter],
              !.outcome = [@ EXCEPT ![o] = x]]

\* seed_ready
Seeded(r, m) == [r EXCEPT !.entry = [@ EXCEPT ![m] = Entry("Ready", 0)]]

Owns(r, o, kind) == ~r.stopped /\ o # 0 /\ r.entry[r.leases[o]] = Entry(kind, o)

\* Mutant: those who wait for an operation are not answered.
StoppedSilently(r) == [r EXCEPT !.stopped = TRUE, !.entry = Registry.entry]

\* MemberRuntimeRegistry::stop
StoppedReg(r) ==
    [r EXCEPT !.stopped = TRUE,
              !.entry = Registry.entry,
              !.outcome = [o \in 1..r.lastOp |->
                  IF \E m \in Slots : r.entry[m].op = o /\ r.entry[m].kind \in {"Attaching", "Removing"}
                  THEN "SessionStopped" ELSE r.outcome[o]]]

\* begin_remove: the registry and the lease, if one is handed out.
Removable(r, m) == ~r.stopped /\ r.entry[m].kind \in {"Attaching", "Ready", "Failed"}
Removal(r, m) == Started(r, m, "Removing")

\* Members whose runtime an ensure starts: missing, failed, or without a task.
NeedsAttach(r, m) ==
    \/ r.entry[m].kind \in {"Absent", "Failed"}
    \/ r.entry[m].kind = "Ready" /\ m \notin tasks

-----------------------------------------------------------------------------
(* Requests.                                                                *)

Call(op, pc, m) ==
    [op |-> op, pc |-> pc, slot |-> m, mx |-> 0, holds |-> FALSE, ensures |-> FALSE,
     snap |-> {}, gen |-> None, lease |-> 0, waits |-> {}, owned |-> {}, todo |-> {},
     targets |-> {}]

Done == Call("done", "done", Lead)

Set(t, c) == call' = [call EXCEPT ![t] = c]

\* Mutant: the mutex is not waited for.
FreeAnyway(x) == x = x

\* The mutex x is free.
Free(x) == \A t \in Callers : ~(call[t].holds /\ call[t].mx = x)
EnsureFree == \A t \in Callers : ~call[t].ensures

\* spawn_agent_in_session keeps a guard of the sessions map across its awaits:
\* nobody can take the session out of the map until it has returned.
MapGuarded == \E t \in Callers : call[t].op = "spawn"

\* A request returns and its guards are dropped.  A group message goes on with
\* its next target, whatever became of this one.
End(t) ==
    IF call[t].targets = {}
    THEN Set(t, Done)
    ELSE \E m \in call[t].targets :
            Set(t, [Call("send", "check", m) EXCEPT !.targets = call[t].targets \ {m}])

ServiceInit ==
    /\ team = "none"
    /\ roster = {}
    /\ convs = {}
    /\ tasks = {}
    /\ published = None
    /\ gens = 0
    /\ reg = [g \in Generations |-> Registry]
    /\ sched = [g \in Generations |-> {}]
    /\ loops = [g \in Generations |-> {}]
    /\ mutex = 1
    /\ call = [t \in Callers |-> Call("none", "begin", Lead)]
    /\ attaches = {}
    /\ removed = {}
    /\ loose = {}
    /\ dropped = {}
    /\ unlocked = FALSE

-----------------------------------------------------------------------------
(* create_team: the conversations first, the lead's before the others', the *)
(* row last.  Nothing is undone when a step fails.                          *)

ProvisionInitial(m) ==
    /\ team = "none"
    /\ m \in ({Lead} \cup Mates) \ convs
    /\ m # Lead => Lead \in convs
    /\ convs' = convs \cup {m}
    /\ UNCHANGED <<team, roster, tasks, sessionVars, mutex, call, attaches, history>>

CreateTeam ==
    /\ team = "none"
    /\ convs = {Lead} \cup Mates
    /\ team' = "active"
    /\ roster' = convs
    /\ UNCHANGED <<convs, tasks, sessionVars, mutex, call, attaches, history>>

CreateFails ==
    /\ team = "none"
    /\ team' = "deleted"
    /\ UNCHANGED <<roster, convs, tasks, sessionVars, mutex, call, attaches, history>>

-----------------------------------------------------------------------------
(* The first step of a request: what it looks at before it waits.           *)

\* A slot id that has never been handed out.
Unused(m) == m \notin convs \cup roster \cup removed /\ \A t \in Callers : call[t].slot # m

\* Requests for the whole team: the row is loaded without the mutex.
BeginEnsure(t)  == Set(t, [Call("ensure", "load", Lead) EXCEPT !.mx = mutex])
BeginStop(t)    == Set(t, Call("stop", "unpublish", Lead))
BeginArchive(t) == team = "active" /\ Set(t, [Call("archive", "unpublish", Lead) EXCEPT !.snap = roster])
BeginDelete(t)  == team # "deleted" /\ Set(t, [Call("delete", "unpublish", Lead) EXCEPT !.snap = roster])

\* cleanup_idle_team_runtime_tasks: whether the team is idle is seen before it is stopped.
BeginIdle(t) ==
    published # None /\ Set(t, [Call("idle", "unpublish", Lead) EXCEPT !.snap = sched[published]])

\* send_group_message to everybody, one after the other.
BeginGroup(t) ==
    team = "active" /\ Set(t, [Call("send", "check", Lead) EXCEPT !.targets = roster \ {Lead}])

\* Requests for the member m.
BeginSend(t, m)     == Set(t, Call("send", "check", m))
BeginExisting(t, m) == published # None /\ Set(t, [Call("existing", "load", m) EXCEPT !.mx = mutex])
BeginRename(t, m)   == Set(t, [Call("rename", "edit", m) EXCEPT !.mx = mutex])
BeginRemove(t, m)   == Set(t, [Call("remove", "remove", m) EXCEPT !.mx = mutex])

\* persist_agent_last_message up to its read of the row.
BeginLast(t, m) ==
    team # "deleted" /\ m \in roster /\ Set(t, [Call("last", "write", m) EXCEPT !.snap = roster])

BeginAdd(t, m) ==
    Unused(m) /\ m \in Fresh /\ Set(t, [Call("add", "edit", m) EXCEPT !.mx = mutex])

\* spawn_agent of the published session, up to persist_spawned_agent.
BeginSpawn(t, m) ==
    /\ Unused(m) /\ m \in Fresh
    /\ published # None
    /\ Set(t, [Call("spawn", "edit", m) EXCEPT !.mx = mutex, !.gen = published])

\* exec_spawn_agent: the tool is for the lead.
ExecSpawnAgent(t, m) ==
    \E role \in {"lead", "teammate"} :
        \/ role = "lead" /\ BeginSpawn(t, m)
        \/ role # "lead" /\ Set(t, Done)

\* exec_rename_agent: a slot that the scheduler of the caller's session knows,
\* while a session is published, which may be another one.
ExecRenameAgent(t, m) ==
    /\ published # None
    /\ \E g \in 1..gens : m \in sched[g]
    /\ BeginRename(t, m)

BeginTeam(t, op) ==
    \/ op = "ensure"  /\ BeginEnsure(t)
    \/ op = "stop"    /\ BeginStop(t)
    \/ op = "archive" /\ BeginArchive(t)
    \/ op = "delete"  /\ BeginDelete(t)
    \/ op = "idle"    /\ BeginIdle(t)
    \/ op = "group"   /\ BeginGroup(t)

BeginMember(t, op, m) ==
    \/ op = "send"     /\ BeginSend(t, m)
    \/ op = "existing" /\ BeginExisting(t, m)
    \/ op = "rename"   /\ (BeginRename(t, m) \/ ExecRenameAgent(t, m))
    \/ op = "remove"   /\ BeginRemove(t, m)
    \/ op = "last"     /\ BeginLast(t, m)
    \/ op = "add"      /\ BeginAdd(t, m)
    \/ op = "spawn"    /\ ExecSpawnAgent(t, m)

Begin(t) ==
    /\ call[t].pc = "begin"
    /\ team # "none"
    /\ \E op \in Operations[t] : BeginTeam(t, op) \/ \E m \in Slots : BeginMember(t, op, m)
    /\ UNCHANGED <<rowVars, tasks, sessionVars, mutex, attaches, history>>

\* send_message_to_agent: load_owned_team.
CheckOwned(t) ==
    /\ call[t].pc = "check"
    /\ IF team = "active" THEN Set(t, [call[t] EXCEPT !.pc = "look"]) ELSE End(t)
    /\ UNCHANGED <<rowVars, tasks, sessionVars, mutex, attaches, history>>

\* ensure_agent_session_inner: the mutex that is now in the map.
LookUpMutex(t) ==
    /\ call[t].pc = "look"
    /\ Set(t, [call[t] EXCEPT !.pc = "load", !.mx = mutex])
    /\ UNCHANGED <<rowVars, tasks, sessionVars, mutex, attaches, history>>

-----------------------------------------------------------------------------
(* ensure_session_inner, ensure_agent_session_inner and                     *)
(* ensure_existing_agent_runtime_inner.                                     *)

\* Only the first of the three looks at archived_at.
Wanted(c) ==
    IF c.op = "ensure" THEN IF team = "active" THEN roster ELSE {}
                       ELSE IF team # "deleted" THEN roster \cap {c.slot} ELSE {}

LoadTeam(t) ==
    LET c == call[t]
    IN  /\ c.pc = "load"
        /\ Free(c.mx)
        /\ IF Wanted(c) = {} THEN End(t)
           ELSE Set(t, [c EXCEPT !.pc = "find", !.holds = TRUE, !.snap = roster, !.todo = Wanted(c)])
        /\ UNCHANGED <<rowVars, tasks, sessionVars, mutex, attaches, history>>

\* ensure_existing_agent_runtime_inner is for a session that is there.
NoSession(t, c) == IF c.op = "existing" THEN End(t) ELSE Set(t, [c EXCEPT !.pc = "start"])

FindSession(t) ==
    LET c == call[t]
    IN  /\ c.pc = "find"
        /\ IF published # None THEN Set(t, [c EXCEPT !.pc = "reserve", !.gen = published, !.snap = {}])
           ELSE NoSession(t, c)
        /\ UNCHANGED <<rowVars, tasks, sessionVars, mutex, attaches, history>>

\* Mutant: the published session is not looked up again under the ensure mutex.
StartUnchecked(t) ==
    LET c == call[t]
        g == gens + 1
    IN  /\ c.pc = "start"
        /\ EnsureFree
        /\ g \in Generations
        /\ gens' = g
        /\ sched' = [sched EXCEPT ![g] = c.snap]
        /\ published' = g
        /\ Set(t, [c EXCEPT !.pc = "reserve", !.gen = g])
        /\ UNCHANGED <<reg, loops, rowVars, tasks, mutex, attaches, history>>

\* TeamSession::start: generation g, whose scheduler knows the agents of the row.
NewSession(g, agents) ==
    /\ g \in Generations
    /\ gens' = g
    /\ sched' = [sched EXCEPT ![g] = agents]
    /\ UNCHANGED <<reg, loops>>

\* ensure_session_inner attaches every member before the session is published,
\* and keeps both mutexes meanwhile.
StartForAll(t, c) ==
    /\ c.op = "ensure"
    /\ Set(t, [c EXCEPT !.pc = "rebuild", !.ensures = TRUE])
    /\ UNCHANGED published

\* ensure_agent_session_inner publishes it at once, with no member attached.
StartForOne(t, c) ==
    /\ c.op # "ensure"
    /\ Set(t, [c EXCEPT !.pc = "reserve", !.snap = {}])
    /\ published' = c.gen

\* Under the ensure mutex: another session is joined, or a new one is started.
StartSession(t) ==
    LET c == call[t]
        new == [c EXCEPT !.gen = gens + 1]
    IN  /\ c.pc = "start"
        /\ EnsureFree
        /\ \/ /\ published # None
              /\ Set(t, [c EXCEPT !.pc = "reserve", !.gen = published, !.snap = {}])
              /\ UNCHANGED sessionVars
           \/ /\ published = None
              /\ NewSession(gens + 1, c.snap)
              /\ StartForAll(t, new) \/ StartForOne(t, new)
           \/ published = None /\ End(t) /\ UNCHANGED sessionVars     \* start fails
        /\ UNCHANGED <<rowVars, tasks, mutex, attaches, history>>

-----------------------------------------------------------------------------
(* rebuild_agent_processes of a new session: owned are the jobs that run.   *)

\* spawn_rebuild_agent_process: the job of m writes the runtime configuration and
\* kills the old task, before it warms up a new one.
RunJob(m) == tasks' = tasks \ {m}

\* join_next_rebuild_outcome: one of the jobs that run has ended.
JoinNext(c, m) == [c EXCEPT !.owned = @ \ {m}]

\* The lead goes first.
LaunchJob(t, m) ==
    LET c == call[t]
    IN  /\ c.pc = "rebuild"
        /\ m \in c.todo
        /\ Lead \in c.todo => m = Lead
        /\ Cardinality(c.owned) < MaxConcurrency
        /\ Set(t, [c EXCEPT !.todo = @ \ {m}, !.owned = @ \cup {m}])
        /\ RunJob(m)
        /\ UNCHANGED <<rowVars, sessionVars, mutex, attaches, history>>

\* The warm-up of a job ends.  After a failure no further job is launched.
EndJob(t, m) ==
    LET c == call[t]
    IN  /\ c.pc \in {"rebuild", "failing"}
        /\ m \in c.owned
        /\ \/ /\ m \in convs
              /\ tasks' = tasks \cup {m}
              /\ Set(t, JoinNext(c, m))
           \/ /\ Set(t, [JoinNext(c, m) EXCEPT !.pc = "failing"])
              /\ UNCHANGED tasks
        /\ UNCHANGED <<rowVars, sessionVars, mutex, attaches, history>>

\* The session is stopped before anybody has seen it, its tasks are killed.
AbortStart(t) ==
    LET c == call[t]
    IN  /\ c.pc = "failing"
        /\ c.owned = {}
        /\ reg' = [reg EXCEPT ![c.gen] = StoppedReg(@)]
        /\ tasks' = tasks \ c.snap
        /\ End(t)
        /\ UNCHANGED <<rowVars, published, gens, sched, loops, mutex, attaches, history>>

\* spawn_event_loops
SpawnEventLoops(t) ==
    LET c == call[t]
    IN  /\ c.pc = "rebuild"
        /\ c.todo = {} /\ c.owned = {}
        /\ loops' = [loops EXCEPT ![c.gen] = c.snap]
        /\ Set(t, [c EXCEPT !.pc = "seed", !.todo = c.snap])
        /\ UNCHANGED <<rowVars, tasks, published, gens, reg, sched, mutex, attaches, history>>

SeedReady(t, m) ==
    LET c == call[t]
    IN  /\ c.pc = "seed"
        /\ m \in c.todo
        /\ reg' = [reg EXCEPT ![c.gen] = Seeded(@, m)]
        /\ Set(t, [c EXCEPT !.todo = @ \ {m}])
        /\ UNCHANGED <<rowVars, tasks, published, gens, sched, loops, mutex, attaches, history>>

\* The session is inserted and the membership mutex released; the ensure mutex
\* is kept for the recovery drain.
PublishSession(t) ==
    LET c == call[t]
    IN  /\ c.pc = "seed"
        /\ c.todo = {}
        /\ published' = c.gen
        /\ Set(t, [Call(c.op, "recover", Lead) EXCEPT !.ensures = TRUE])
        /\ UNCHANGED <<rowVars, tasks, gens, reg, sched, loops, mutex, attaches, history>>

Recover(t) ==
    /\ call[t].pc = "recover"
    /\ End(t)
    /\ UNCHANGED <<rowVars, tasks, sessionVars, mutex, attaches, history>>

-----------------------------------------------------------------------------
(* reserve_member_runtime_reconciliation and                                *)
(* complete_member_runtime_reconciliation.                                  *)

\* One member: its scheduler slot is restored, and its attach is started or
\* joined, or its removal is waited for.
ReserveMember(t, m) ==
    LET c == call[t]
        r == reg[c.gen]
        next == [c EXCEPT !.todo = @ \ {m}]
    IN  /\ c.pc = "reserve"
        /\ m \in c.todo
        /\ ~r.stopped
        /\ sched' = [sched EXCEPT ![c.gen] = @ \cup {m}]
        /\ IF NeedsAttach(r, m)
           THEN /\ r.lastOp < MaxOps
                /\ reg' = [reg EXCEPT ![c.gen] = Started(r, m, "Attaching")]
                /\ Set(t, [next EXCEPT !.waits = @ \cup {r.lastOp + 1}, !.owned = @ \cup {r.lastOp + 1}])
           ELSE /\ Set(t, IF r.entry[m].kind = "Ready" THEN next
                          ELSE [next EXCEPT !.waits = @ \cup {r.entry[m].op}])
                /\ UNCHANGED reg
        /\ UNCHANGED <<rowVars, tasks, published, gens, loops, mutex, attaches, history>>

ReserveStopped(t) ==
    /\ call[t].pc = "reserve"
    /\ call[t].todo # {}
    /\ reg[call[t].gen].stopped
    /\ End(t)
    /\ UNCHANGED <<rowVars, tasks, sessionVars, mutex, attaches, history>>

Attach(g, o) == [gen |-> g, op |-> o, pc |-> "start", fresh |-> FALSE]

\* The mutex is released, the attaches that this request owns are spawned.
SpawnAttaches(t) ==
    LET c == call[t]
    IN  /\ c.pc = "reserve"
        /\ c.todo = {}
        /\ attaches' = attaches \cup {Attach(c.gen, o) : o \in c.owned}
        /\ Set(t, [Call("send", "wait", Lead) EXCEPT !.gen = c.gen, !.waits = c.waits,
                                                   !.targets = c.targets])
        /\ UNCHANGED <<rowVars, tasks, sessionVars, mutex, history>>

\* Every waiter is answered; under the mutex that is now in the map the row and
\* the session are looked up again, and the answer follows.
Settle(t) ==
    LET c == call[t]
    IN  /\ c.pc = "wait"
        /\ \A o \in c.waits : reg[c.gen].outcome[o] # "Pending"
        /\ Free(mutex)
        /\ End(t)
        /\ UNCHANGED <<rowVars, tasks, sessionVars, mutex, attaches, history>>

-----------------------------------------------------------------------------
(* attach_member_runtime, a task of its own.                                *)

Member(a) == reg[a.gen].leases[a.op]

Step(a, b) == attaches' = (attaches \ {a}) \cup {b}
At(a, pc) == [a EXCEPT !.pc = pc]

\* attach_agent_process: the configuration is written, the old task is killed.
AttachStart(a) ==
    /\ a.pc = "start"
    /\ \/ Member(a) \in convs /\ Step(a, At(a, "warm")) /\ tasks' = tasks \ {Member(a)}
       \/ Step(a, At(a, "failed")) /\ UNCHANGED tasks
    /\ UNCHANGED <<rowVars, sessionVars, mutex, call, history>>

\* warmup_agent_process: the task is put into the map after its handshake,
\* whatever has become of the conversation or the member in between.
AttachWarm(a) ==
    /\ a.pc = "warm"
    /\ \/ Step(a, At(a, "check")) /\ tasks' = tasks \cup {Member(a)}
       \/ Step(a, At(a, "failed")) /\ UNCHANGED tasks
    /\ UNCHANGED <<rowVars, sessionVars, mutex, call, history>>

\* owns_attach
AttachCheck(a) ==
    /\ a.pc = "check"
    /\ Step(a, At(a, IF Owns(reg[a.gen], a.op, "Attaching") THEN "register" ELSE "clean"))
    /\ UNCHANGED <<rowVars, tasks, sessionVars, mutex, call, history>>

\* Mutant: the registration does not look at the stopped session.
RegisterAnyway(a) ==
    /\ a.pc = "register"
    /\ Step(a, [a EXCEPT !.pc = "commit", !.fresh = Member(a) \notin loops[a.gen]])
    /\ loops' = [loops EXCEPT ![a.gen] = @ \cup {Member(a)}]
    /\ UNCHANGED <<rowVars, tasks, published, gens, reg, sched, mutex, call, history>>

\* register_event_loop, unless the member has a loop; a stopped session refuses.
AttachRegister(a) ==
    /\ a.pc = "register"
    /\ IF Member(a) \in loops[a.gen] THEN Step(a, At(a, "commit")) /\ UNCHANGED loops
       ELSE IF reg[a.gen].stopped THEN Step(a, At(a, "failed")) /\ UNCHANGED loops
       ELSE /\ Step(a, [a EXCEPT !.pc = "commit", !.fresh = TRUE])
            /\ loops' = [loops EXCEPT ![a.gen] = @ \cup {Member(a)}]
    /\ UNCHANGED <<rowVars, tasks, published, gens, reg, sched, mutex, call, history>>

\* The loop that this attach registered is taken back.
LoopsWithout(a) ==
    IF a.fresh THEN [loops EXCEPT ![a.gen] = @ \ {Member(a)}] ELSE loops

\* commit_ready
AttachCommit(a) ==
    /\ a.pc = "commit"
    /\ IF Owns(reg[a.gen], a.op, "Attaching")
       THEN /\ reg' = [reg EXCEPT ![a.gen] = Ended(@, a.op, Entry("Ready", 0), "Ready")]
            /\ Step(a, At(a, "announce"))
            /\ UNCHANGED loops
       ELSE /\ Step(a, At(a, "clean"))
            /\ loops' = LoopsWithout(a)
            /\ UNCHANGED reg
    /\ UNCHANGED <<rowVars, tasks, published, gens, sched, mutex, call, history>>

\* with_published_session: the session of the attach is the one in the map.
Current(a) == published = a.gen

\* publish_member_runtime_ready_if_current
AttachAnnounce(a) ==
    /\ a.pc = "announce"
    /\ IF Current(a) THEN attaches' = attaches \ {a} /\ UNCHANGED loops
       ELSE Step(a, At(a, "clean")) /\ loops' = LoopsWithout(a)
    /\ UNCHANGED <<rowVars, tasks, published, gens, reg, sched, mutex, call, history>>

\* cleanup_stale_member_runtime_task: another session's task is left alone.
TasksWithout(a) == IF published \in {None, a.gen} THEN tasks \ {Member(a)} ELSE tasks

AttachClean(a) ==
    /\ a.pc = "clean"
    /\ EnsureFree
    /\ tasks' = TasksWithout(a)
    /\ attaches' = attaches \ {a}
    /\ UNCHANGED <<rowVars, sessionVars, mutex, call, history>>

AttachFailed(a) ==
    /\ a.pc = "failed"
    /\ EnsureFree
    /\ tasks' = TasksWithout(a)
    /\ Step(a, At(a, "report"))
    /\ UNCHANGED <<rowVars, sessionVars, mutex, call, history>>

\* commit_failed; a stale failure is ignored.
AttachReport(a) ==
    /\ a.pc = "report"
    /\ reg' = IF Owns(reg[a.gen], a.op, "Attaching")
              THEN [reg EXCEPT ![a.gen] = Ended(@, a.op, Entry("Failed", a.op), "Failed")]
              ELSE reg
    /\ attaches' = attaches \ {a}
    /\ UNCHANGED <<rowVars, tasks, published, gens, sched, loops, mutex, call, history>>

-----------------------------------------------------------------------------
(* add_agent, spawn_agent and rename_agent: the roster is read, changed and *)
(* written back under the membership mutex.                                 *)

EditRoster(t) ==
    LET c == call[t]
    IN  /\ c.pc = "edit"
        /\ Free(c.mx)
        /\ IF c.op = "rename"
           THEN IF team = "active" /\ c.slot \in roster
                THEN Set(t, [c EXCEPT !.pc = "persist", !.holds = TRUE, !.snap = roster]) ELSE End(t)
           ELSE IF team # "deleted"
                THEN Set(t, [c EXCEPT !.pc = "provision", !.holds = TRUE, !.snap = roster]) ELSE End(t)
        /\ UNCHANGED <<rowVars, tasks, sessionVars, mutex, attaches, history>>

\* provision_new_agent
ProvisionAgent(t) ==
    LET c == call[t]
    IN  /\ c.pc = "provision"
        /\ \/ Set(t, [c EXCEPT !.pc = "persist"]) /\ convs' = convs \cup {c.slot}
           \/ End(t) /\ UNCHANGED convs
        /\ UNCHANGED <<team, roster, tasks, sessionVars, mutex, attaches, history>>

\* persist_agents; the write may fail, and then nothing else is undone.
PersistAgents(t) ==
    LET c == call[t]
    IN  /\ c.pc = "persist"
        /\ \/ /\ team # "deleted"
              /\ roster' = IF c.op = "rename" THEN c.snap ELSE c.snap \cup {c.slot}
              /\ IF c.op = "rename" THEN End(t)
                 ELSE Set(t, [c EXCEPT !.pc = "admit", !.holds = c.op = "add"])
           \/ End(t) /\ UNCHANGED roster
        /\ UNCHANGED <<team, convs, tasks, sessionVars, mutex, attaches, history>>

\* reserve_dynamic_member_attach and the slot in the scheduler.
AdmitAgent(t) ==
    LET c == call[t]
        g == published
        r == reg[g]
        starts == ~r.stopped /\ r.entry[c.slot].kind = "Absent"
    IN  /\ c.pc = "admit"
        /\ IF g = None THEN End(t) /\ UNCHANGED <<reg, sched, loose>>
           ELSE /\ starts => r.lastOp < MaxOps
                /\ reg' = IF starts THEN [reg EXCEPT ![g] = Started(r, c.slot, "Attaching")]
                                    ELSE reg
                /\ loose' = IF c.slot \in roster THEN loose ELSE loose \cup {c.slot}
                /\ sched' = [sched EXCEPT ![g] = @ \cup {c.slot}]
                /\ Set(t, [c EXCEPT !.pc = "welcome", !.gen = g,
                                    !.lease = IF starts THEN r.lastOp + 1 ELSE 0])
        /\ UNCHANGED <<rowVars, tasks, published, gens, loops, mutex, attaches, removed, dropped, unlocked>>

\* The lease of a request that returns early is dropped; nobody will end it.
DropLease(c) == dropped' = IF c.lease = 0 THEN dropped ELSE dropped \cup {<<c.gen, c.lease>>}

\* The welcome message, then the attach task.  A failing step returns early;
\* spawn_agent then removes the member again if it was the welcome message.
WelcomeAgent(t) ==
    LET c == call[t]
    IN  /\ c.pc = "welcome"
        /\ \/ /\ attaches' = attaches \cup (IF c.lease = 0 THEN {} ELSE {Attach(c.gen, c.lease)})
              /\ End(t)
              /\ UNCHANGED dropped
           \/ End(t) /\ DropLease(c) /\ UNCHANGED attaches
           \/ /\ c.op = "spawn"
              /\ Set(t, [c EXCEPT !.pc = "remove", !.mx = mutex])
              /\ UNCHANGED <<attaches, dropped>>
        /\ UNCHANGED <<rowVars, tasks, sessionVars, mutex, removed, loose, unlocked>>

\* persist_agent_last_message writes back the roster it has read, without the
\* mutex; a member that was removed meanwhile is on it again.
WriteLastMessage(t) ==
    LET c == call[t]
    IN  /\ c.pc = "write"
        /\ roster' = IF team = "deleted" THEN roster ELSE c.snap
        /\ unlocked' = (unlocked \/ roster' # roster)
        /\ loose' = loose \cup (roster' \ roster)
        /\ End(t)
        /\ UNCHANGED <<team, convs, tasks, sessionVars, mutex, attaches, removed, dropped>>

-----------------------------------------------------------------------------
(* remove_agent.                                                            *)

\* Under the mutex the removal of the member begins, or is joined.
RemoveAgent(t) ==
    LET c == call[t]
        g == published
        r == reg[g]
        out == [c EXCEPT !.pc = "kill", !.gen = g, !.lease = 0]
    IN  /\ c.pc = "remove"
        /\ Free(c.mx)
        /\ IF team # "active" \/ c.slot \notin roster \ {Lead}
           THEN End(t) /\ DropLease(c) /\ UNCHANGED reg
           ELSE /\ UNCHANGED dropped
                /\ IF g = None THEN Set(t, out) /\ UNCHANGED reg
                   ELSE IF Removable(r, c.slot)
                   THEN /\ r.lastOp < MaxOps
                        /\ reg' = [reg EXCEPT ![g] = Removal(r, c.slot)]
                        /\ Set(t, [out EXCEPT !.lease = r.lastOp + 1])
                   ELSE /\ UNCHANGED reg
                        /\ IF r.entry[c.slot].kind = "Removing"
                           THEN Set(t, [out EXCEPT !.pc = "join", !.waits = {r.entry[c.slot].op}])
                           ELSE Set(t, out)
        /\ UNCHANGED <<rowVars, tasks, published, gens, sched, loops, mutex, attaches, removed, loose, unlocked>>

JoinRemoval(t) ==
    LET c == call[t]
    IN  /\ c.pc = "join"
        /\ \A o \in c.waits : reg[c.gen].outcome[o] # "Pending"
        /\ End(t)
        /\ UNCHANGED <<rowVars, tasks, sessionVars, mutex, attaches, history>>

\* Without the mutex: the loop is aborted, the task is killed.
KillMember(t) ==
    LET c == call[t]
    IN  /\ c.pc = "kill"
        /\ loops' = IF c.gen = None THEN loops ELSE [loops EXCEPT ![c.gen] = @ \ {c.slot}]
        /\ tasks' = tasks \ {c.slot}
        /\ Set(t, [c EXCEPT !.pc = "reload"])
        /\ UNCHANGED <<rowVars, published, gens, reg, sched, mutex, attaches, history>>

\* Under the same mutex again the row is loaded; without it the call returns
\* and leaves the member Removing.
ReloadRoster(t) ==
    LET c == call[t]
    IN  /\ c.pc = "reload"
        /\ Free(c.mx)
        /\ \/ /\ team = "active"
              /\ Set(t, [c EXCEPT !.pc = "unlist", !.holds = TRUE, !.snap = roster])
              /\ UNCHANGED dropped
           \/ team # "active" /\ End(t) /\ DropLease(c)
        /\ UNCHANGED <<rowVars, tasks, sessionVars, mutex, attaches, removed, loose, unlocked>>

\* Mutant: a removal whose write failed is not taken back.
UnlistForgets(t) ==
    LET c == call[t]
    IN  /\ c.pc = "unlist"
        /\ \/ /\ team # "deleted"
              /\ roster' = c.snap \ {c.slot}
              /\ Set(t, [Call(c.op, "retire", c.slot) EXCEPT !.gen = c.gen, !.lease = c.lease])
           \/ UNCHANGED roster /\ End(t)
        /\ UNCHANGED <<team, convs, tasks, sessionVars, mutex, attaches, history>>

\* The roster is written.  When the write fails the member must attach again.
UnlistMember(t) ==
    LET c == call[t]
    IN  /\ c.pc = "unlist"
        /\ \/ /\ team # "deleted"
              /\ roster' = c.snap \ {c.slot}
              /\ Set(t, [Call(c.op, "retire", c.slot) EXCEPT !.gen = c.gen, !.lease = c.lease])
              /\ UNCHANGED reg
           \/ /\ UNCHANGED roster
              /\ reg' = IF c.gen # None /\ Owns(reg[c.gen], c.lease, "Removing")
                        THEN [reg EXCEPT ![c.gen] = Ended(@, c.lease, Entry("Failed", c.lease), "Failed")]
                        ELSE reg
              /\ End(t)
        /\ UNCHANGED <<team, convs, tasks, published, gens, sched, loops, mutex, attaches, history>>

\* Mutant: only the session of the first step is cleaned up.
RetireCaptured(t) ==
    LET c == call[t]
    IN  /\ c.pc = "retire"
        /\ Set(t, [c EXCEPT !.pc = IF c.gen = published /\ c.gen # None THEN "detach" ELSE "delete"])
        /\ UNCHANGED <<rowVars, tasks, sessionVars, mutex, attaches, history>>

\* The session that is published by now: the removal goes on there, or begins
\* there if it is another one.
RetireMember(t) ==
    LET c == call[t]
        g == published
        r == reg[g]
        out == [c EXCEPT !.pc = "detach", !.gen = g, !.lease = 0]
    IN  /\ c.pc = "retire"
        /\ IF g = None THEN Set(t, Call(c.op, "delete", c.slot)) /\ UNCHANGED <<reg, loose>>
           ELSE IF g = c.gen
           THEN /\ Set(t, [c EXCEPT !.pc = "detach"])
                /\ loose' = IF c.lease = 0 THEN loose \cup {c.slot} ELSE loose
                /\ UNCHANGED reg
           ELSE IF Removable(r, c.slot)
           THEN /\ UNCHANGED loose
                /\ r.lastOp < MaxOps
                /\ reg' = [reg EXCEPT ![g] = Removal(r, c.slot)]
                /\ Set(t, [out EXCEPT !.lease = r.lastOp + 1])
           ELSE /\ UNCHANGED <<reg, loose>>
                /\ Set(t, IF r.entry[c.slot].kind = "Removing"
                          THEN [out EXCEPT !.waits = {r.entry[c.slot].op}] ELSE out)
        /\ UNCHANGED <<rowVars, tasks, published, gens, sched, loops, mutex, attaches, removed, dropped, unlocked>>

DetachMember(t) ==
    LET c == call[t]
    IN  /\ c.pc = "detach"
        /\ \A o \in c.waits : reg[c.gen].outcome[o] # "Pending"
        /\ loops' = [loops EXCEPT ![c.gen] = @ \ {c.slot}]
        /\ tasks' = tasks \ {c.slot}
        /\ sched' = [sched EXCEPT ![c.gen] = @ \ {c.slot}]
        /\ Set(t, [c EXCEPT !.pc = "finish"])
        /\ UNCHANGED <<rowVars, published, gens, reg, mutex, attaches, history>>

FinishRemove(t) ==
    LET c == call[t]
    IN  /\ c.pc = "finish"
        /\ reg' = IF Owns(reg[c.gen], c.lease, "Removing")
                  THEN [reg EXCEPT ![c.gen] = Ended(@, c.lease, Entry("Absent", 0), "Removed")]
                  ELSE reg
        /\ Set(t, Call(c.op, "delete", c.slot))
        /\ UNCHANGED <<rowVars, tasks, published, gens, sched, loops, mutex, attaches, history>>

\* delete_team_conversation and the notice to the lead.
DeleteConversation(t) ==
    LET c == call[t]
    IN  /\ c.pc = "delete"
        /\ convs' = convs \ {c.slot}
        /\ removed' = removed \cup {c.slot}
        /\ End(t)
        /\ UNCHANGED <<team, roster, tasks, sessionVars, mutex, attaches, loose, dropped, unlocked>>

-----------------------------------------------------------------------------
(* stop_session, archive_team, remove_team and the idle cleanup, none of    *)
(* which takes a mutex.                                                     *)

\* stop_session is over when the session is gone; the others kill its tasks.
AfterStop(t, c) == IF c.op = "stop" THEN End(t) ELSE Set(t, [c EXCEPT !.pc = "killAll"])

\* sessions.remove(team_id)
Unpublish(t) ==
    LET c == call[t]
    IN  /\ c.pc = "unpublish"
        /\ IF published = None THEN AfterStop(t, c)
           ELSE ~MapGuarded /\ Set(t, [c EXCEPT !.pc = "stop", !.gen = published])
        /\ published' = None
        /\ UNCHANGED <<rowVars, tasks, gens, reg, sched, loops, mutex, attaches, history>>

\* TeamSession::stop
StopSession(t) ==
    LET c == call[t]
    IN  /\ c.pc = "stop"
        /\ reg' = [reg EXCEPT ![c.gen] = StoppedReg(@)]
        /\ loops' = [loops EXCEPT ![c.gen] = {}]
        /\ AfterStop(t, c)
        /\ UNCHANGED <<rowVars, tasks, published, gens, sched, mutex, attaches, history>>

KillAll(t) ==
    LET c == call[t]
    IN  /\ c.pc = "killAll"
        /\ tasks' = tasks \ c.snap
        /\ IF c.op = "idle" THEN End(t) ELSE Set(t, [c EXCEPT !.pc = "close"])
        /\ UNCHANGED <<rowVars, sessionVars, mutex, attaches, history>>

\* archive_team of the repository, or the deletion of the conversations and of
\* the rows; the entry of the membership mutex is dropped.
CloseTeam(t) ==
    LET c == call[t]
    IN  /\ c.pc = "close"
        /\ IF team = "deleted" THEN UNCHANGED <<rowVars, mutex>>
           ELSE /\ mutex' = mutex + 1
                /\ IF c.op = "archive" THEN team' = "archived" /\ UNCHANGED <<roster, convs>>
                   ELSE team' = "deleted" /\ roster' = {} /\ convs' = convs \ c.snap
        /\ End(t)
        /\ UNCHANGED <<tasks, sessionVars, attaches, history>>

-----------------------------------------------------------------------------

EnsureStep(t) ==
    \/ LookUpMutex(t) \/ LoadTeam(t) \/ FindSession(t) \/ StartSession(t) \/ Settle(t)
    \/ ReserveStopped(t) \/ SpawnAttaches(t)
    \/ AbortStart(t) \/ SpawnEventLoops(t) \/ PublishSession(t) \/ Recover(t)
    \/ \E m \in Slots : LaunchJob(t, m) \/ EndJob(t, m) \/ SeedReady(t, m) \/ ReserveMember(t, m)

MemberStep(t) ==
    \/ EditRoster(t) \/ ProvisionAgent(t) \/ PersistAgents(t) \/ AdmitAgent(t) \/ WelcomeAgent(t)
    \/ WriteLastMessage(t)
    \/ RemoveAgent(t) \/ JoinRemoval(t) \/ KillMember(t) \/ ReloadRoster(t) \/ UnlistMember(t)
    \/ RetireMember(t) \/ DetachMember(t) \/ FinishRemove(t) \/ DeleteConversation(t)

StopStep(t) == Unpublish(t) \/ StopSession(t) \/ KillAll(t) \/ CloseTeam(t)

AttachStep(a) ==
    \/ AttachStart(a) \/ AttachWarm(a) \/ AttachCheck(a) \/ AttachRegister(a) \/ AttachCommit(a)
    \/ AttachAnnounce(a) \/ AttachClean(a) \/ AttachFailed(a) \/ AttachReport(a)

ServiceNext ==
    \/ \E m \in Slots : ProvisionInitial(m)
    \/ CreateTeam
    \/ CreateFails
    \/ \E t \in Callers : Begin(t) \/ CheckOwned(t) \/ EnsureStep(t) \/ MemberStep(t) \/ StopStep(t)
    \/ \E a \in attaches : AttachStep(a)

ServiceSpec == ServiceInit /\ [][ServiceNext]_serviceVars

-----------------------------------------------------------------------------

\* The generation a request works on has been started, an attach task holds a
\* lease that its registry has handed out, and a stopped session has no loops
\* (register_event_loop against TeamSession::stop).
ServiceTypeOK ==
    /\ team \in {"none", "active", "archived", "deleted"}
    /\ roster \subseteq Slots /\ convs \subseteq Slots /\ tasks \subseteq Slots
    /\ removed \subseteq Slots /\ unlocked \in BOOLEAN
    /\ gens \in 0..MaxGenerations /\ published \in 0..gens
    /\ \A t \in Callers : call[t].gen \in 0..gens /\ call[t].mx \in 0..mutex
    /\ \A a \in attaches : a.gen \in 1..gens /\ a.op \in 1..reg[a.gen].lastOp
    /\ \A g \in Generations : reg[g].stopped => loops[g] = {}

\* A session that was started is published, or its starter still works on it,
\* or it has been stopped: no session, with its tool server and its loops, is
\* left running where nobody can find it.  Rests on the second look under the
\* ensure mutex, because archive_team and remove_team let two requests hold
\* different membership mutexes.
NoOrphanSession ==
    \A g \in 1..gens : ~reg[g].stopped =>
        \/ published = g
        \/ \E t \in Callers : call[t].gen = g /\
              call[t].pc \in {"rebuild", "failing", "seed", "stop"}

\* Whoever waits for an attach or a removal (ensure_session, send_message,
\* remove_agent) waits for an operation that a task or a request still works on,
\* or whose session is about to be stopped, unless its lease was dropped by one
\* of the early returns of add_agent, spawn_agent and remove_agent.
NobodyWaitsForever ==
    \A g \in 1..gens : \A o \in 1..reg[g].lastOp : reg[g].outcome[o] = "Pending" =>
        \/ <<g, o>> \in dropped
        \/ \E a \in attaches : a.gen = g /\ a.op = o
        \/ \E t \in Callers : call[t].gen = g /\
              \/ call[t].pc = "stop"
              \/ call[t].pc = "reserve" /\ o \in call[t].owned
              \/ call[t].lease = o /\ call[t].pc \in {"welcome", "remove", "kill", "reload",
                                                      "unlist", "retire", "detach", "finish"}

\* A member of an active team whose removal has ended is on the roster no more,
\* and has no slot, no loop and no runtime in the published session, whichever
\* sessions were stopped and started in between, and whatever attach was going
\* on: if remove_agent had found a runtime to cancel, if no spawn_agent admits
\* the member after its removal, and if persist_agent_last_message has not
\* written an old roster.  (Another removal may still be going on.)
RemovedStaysGone ==
    team = "active" => \A m \in removed \ loose :
        /\ m \notin roster
        /\ published # None =>
              /\ m \notin sched[published]
              /\ m \in loops[published] =>
                    \E a \in attaches : a.gen = published /\ Member(a) = m /\ a.pc = "commit"
              /\ reg[published].entry[m].kind \notin {"Attaching", "Ready"}

\* Between reading the roster of an active team and writing it back, nobody has
\* written another one, so that no addition and no removal is lost, unless
\* persist_agent_last_message has written without the membership mutex.
RosterSerialized ==
    team = "active" /\ ~unlocked =>
        \A t \in Callers : call[t].pc \in {"provision", "persist", "unlist"} =>
            call[t].snap = roster

Reg(g) == INSTANCE MemberRuntime WITH
            Members <- Slots, MaxOperations <- MaxOps,
            entry <- reg[g].entry, lastOp <- reg[g].lastOp, leases <- reg[g].leases,
            outcome <- reg[g].outcome, stopped <- reg[g].stopped

\* The service uses the registry of every session as MemberRuntime specifies
\* it, so what is proved of the registry holds in the service.
RegistriesImplement ==
    /\ \A g \in Generations : Reg(g)!Init
    /\ [][\A g \in Generations : Reg(g)!Next \/ UNCHANGED reg[g]]_reg

=============================================================================
