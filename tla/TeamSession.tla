---------------------------- MODULE TeamSession ----------------------------
(***************************************************************************)
(* One team session: the work coordinator (SlotWork), the run manager      *)
(* (TeamRun), the mailbox table, one event loop per slot (event_loop.rs)   *)
(* and the calls that users and agents make (session.rs).                  *)
(*                                                                         *)
(* A task is a caller or an event loop.  A task's step ends where the code *)
(* releases the coordinator's lock or awaits the store or an agent, so     *)
(* other tasks run there.  What a task still has to do before its next     *)
(* decision is its list of pending effects: the coordinator computes run   *)
(* summaries under its lock and publishes them after the unlock, and a     *)
(* handler marks messages read, cancels turns and notifies loops last.     *)
(*                                                                         *)
(* External: the store (a write may fail; a read or a mark-read is atomic  *)
(* and succeeds) and the agent process.  The runtime of the lead is always *)
(* ready; that of a teammate may be attached again.  Left out here: task   *)
(* list, prompt text, projection into conversations, removal and stop.     *)
(***************************************************************************)
EXTENDS SlotWork, Sequences

LOCAL INSTANCE FiniteSets

CONSTANTS Callers,   \* tasks that serve calls of users and agents
          Lead,      \* the slot of the team lead
          Calls,     \* kinds of calls the callers of this instance make
          MaxSends,  \* bound: messages sent by callers (the rest are reports)
          Faults     \* kinds of failures of store and turn port

VARIABLES run,       \* the run record of TeamRun
          issued,    \* run ids handed out
          rows,      \* every mailbox row, in the order of writing; message m is rows[m]
          unread,    \* unread messages of each slot
          prompted,  \* messages handed to a turn in its prompt
          untold,    \* history: tasks that could not tell the lead of a settled teammate
          runtime,   \* what MemberRuntimeRegistry.snapshot would answer
          status,    \* TeammateStatus of each slot in the scheduler
          role,      \* needs_role_prompt of each slot in the scheduler
          deaf,      \* history: slots that a step left without a wake-up (SlotOpen)
          signal,    \* the slot's Notify holds a permit
          call,      \* where each task is in an enqueue or cancel call
          loop,      \* where each event loop is
          todo       \* pending effects of each task

M == INSTANCE TeamRun

Tasks == Callers \cup Slots

ASSUME SessionAssumption ==
    /\ Callers \cap Slots = {}
    /\ LeaseIds = Tasks
    /\ Sources = WorkSource
    /\ ConstraintInputs = Constraints
    /\ \A m \in Messages : m \in Nat \ {0} /\ 1..m \subseteq Messages
    /\ Lead \in Slots
    /\ MaxSends \in Nat
    /\ Calls \subseteq {"user", "agent", "cancel", "child", "pause", "attach"}
    /\ Faults \subseteq {"write", "tell", "tasks", "transport", "busy", "start", "turn"}

runVars     == <<run, issued>>
mailVars    == <<rows, unread, prompted, untold>>
memberVars  == <<runtime, status, role, deaf>>
taskVars    == <<signal, call, loop, todo>>
sessionVars == <<vars, runVars, mailVars, memberVars, taskVars>>

Idle == [at |-> "idle"]
At(pc) == [at |-> pc]

SessionInit ==
    /\ Init
    /\ M!Init
    /\ unread = [s \in Slots |-> {}]
    /\ rows = <<>>
    /\ prompted = {}
    /\ untold = {}
    /\ runtime = [s \in Slots |-> "Ready"]
    /\ status = [s \in Slots |-> "Idle"]
    /\ role = [s \in Slots |-> TRUE]
    /\ deaf = {}
    /\ signal = [s \in Slots |-> FALSE]
    /\ call = [t \in Tasks |-> Idle]
    /\ loop = [s \in Slots |-> At("wait")]
    /\ todo = [t \in Tasks |-> <<>>]

-----------------------------------------------------------------------------
(* Pending effects *)

\* An effect that is carried out once for each argument, in any order.
Effect(kind, args) == IF args = {} THEN <<>> ELSE << <<kind, args>> >>

\* publish_run_summaries: the summaries are those of the state at the unlock.
Publish(runs) == Effect("apply", {RunSummary(r)' : r \in runs \ {NoRun}})

\* mark_read_batch, which is skipped when there is nothing to mark.
MarkRead(msgs) == Effect("read", {msgs \ {NoMsg}} \ {{}})

MessagesOf(S) == {intents[i].msg : i \in S}

Free(t) == todo[t] = <<>>

Then(t, effects) == todo' = [todo EXCEPT ![t] = effects]

\* Task t has carried out its next effect for argument x, and got more to do.
Carried(t, x, more) ==
    LET h == Head(todo[t])
    IN  Then(t, more \o Effect(h[1], h[2] \ {x}) \o Tail(todo[t]))

\* Carrying out one pending effect of task t.
Apply(t, sum) ==
    /\ M!ApplyWorkSummary(sum)
    /\ Carried(t, sum, <<>>)
    /\ UNCHANGED <<vars, mailVars, memberVars, signal, call, loop>>

Unbind(t, r) ==
    /\ M!AbortBinding(r)
    /\ Carried(t, r, <<>>)
    /\ UNCHANGED <<vars, mailVars, memberVars, signal, call, loop>>

Read(t, msgs) ==
    /\ unread' = [s \in Slots |-> unread[s] \ msgs]
    /\ Carried(t, msgs, <<>>)
    /\ UNCHANGED <<vars, runVars, rows, prompted, untold, memberVars, signal, call, loop>>

\* Mutant: wakes a waiting loop, but stores no permit for a busy one.
NotifyWaiters(t, s) ==
    /\ signal' = [signal EXCEPT ![s] = @ \/ loop[s].at = "wait"]
    /\ Carried(t, s, <<>>)
    /\ UNCHANGED <<vars, runVars, mailVars, memberVars, call, loop>>

\* notify of the registry: notify_one stores a permit.
Notify(t, s) ==
    /\ signal' = [signal EXCEPT ![s] = TRUE]
    /\ Carried(t, s, <<>>)
    /\ UNCHANGED <<vars, runVars, mailVars, memberVars, call, loop>>

\* set_status
SetStatus(t, s, st) ==
    /\ status' = [status EXCEPT ![s] = st]
    /\ Carried(t, <<s, st>>, <<>>)
    /\ UNCHANGED <<vars, runVars, mailVars, runtime, role, deaf, signal, call, loop>>

\* A cancelled turn does not launch its agent, or interrupts it.
Stopped(phase) == IF phase = "started" THEN "unlaunched"
                  ELSE IF phase = "live" THEN "stopped" ELSE phase

\* cancel_agent_turn, for the turn of batch b.
StopTurn(t, b) ==
    LET s == batches[b].slot IN
    /\ loop' = IF loop[s].at = "turn" /\ loop[s].batch = b
               THEN [loop EXCEPT ![s].turn = Stopped(@)] ELSE loop
    /\ Carried(t, b, <<>>)
    /\ UNCHANGED <<vars, runVars, mailVars, memberVars, signal, call>>

\* complete_batch, fail_batch, cancel_batch; a stale handle changes nothing.
EndBatch(t, b, st) ==
    /\ \/ /\ TerminalizeBatch(b, st)
          /\ Carried(t, <<b, st>>, Publish(RunsOf(batches[b].members)))
       \/ ~IsCurrent(b) /\ Carried(t, <<b, st>>, <<>>) /\ UNCHANGED vars
    /\ UNCHANGED <<runVars, mailVars, memberVars, signal, call, loop>>

\* enqueue_user_message answers with current_payload.
Answer(t, r) ==
    /\ Carried(t, r, <<>>)
    /\ UNCHANGED <<vars, runVars, mailVars, memberVars, signal, call, loop>>

Continue(t) ==
    /\ todo[t] # <<>>
    /\ LET kind == Head(todo[t])[1] IN
       \E x \in Head(todo[t])[2] :
          \/ kind = "apply"  /\ Apply(t, x)
          \/ kind = "unbind" /\ Unbind(t, x)
          \/ kind = "read"   /\ Read(t, x)
          \/ kind = "notify" /\ Notify(t, x)
          \/ kind = "stop"   /\ StopTurn(t, x)
          \/ kind = "status" /\ SetStatus(t, x[1], x[2])
          \/ kind = "end"    /\ EndBatch(t, x[1], x[2])
          \/ kind = "answer" /\ Answer(t, x)

-----------------------------------------------------------------------------
(* Enqueueing: constraint, lease, mailbox row, commit *)

\* set_runtime_constraint with what its caller does with the answer.
Constrain(t, s, c, rest) ==
    LET ended == {i \in LiveOf(s) : c = "Failed" /\ intents[i].run # NoRun}
    IN  /\ SetRuntimeConstraint(s, c)
        /\ Then(t, Publish(RunsOf(ended)) \o MarkRead(MessagesOf(ended)) \o rest)

\* History: what was read in the registry is told to the coordinator later.  If
\* the runtime has become ready in between, this closes an open slot.
Misled(s, c) == IF runtime[s] = "Ready" /\ c # "Ready" THEN {s} ELSE {}

\* The first step of every enqueue reads the registry.  The binding is
\* UserVisible, ActiveRunOrBackground or the slot whose batch gives the run.
Request(t, s, source, binding, m) ==
    call' = [call EXCEPT ![t] =
        [at |-> "publish", slot |-> s, source |-> source, binding |-> binding,
         msg |-> m, saw |-> runtime[s]]]

MaySend == Cardinality({m \in DOMAIN rows : rows[m].kind = "message"}) < MaxSends

\* send_message, send_message_to_agent
UserMessage(c, s) ==
    /\ "user" \in Calls /\ Free(c) /\ call[c] = Idle /\ MaySend
    /\ Request(c, s, "UserMessage", "UserVisible", NoMsg)
    /\ UNCHANGED <<vars, runVars, mailVars, memberVars, signal, loop, todo>>

\* send_agent_message_from_agent, a tool call of the agent in slot f, which may
\* name itself.
AgentMessage(c, f, s) ==
    /\ "agent" \in Calls /\ Free(c) /\ call[c] = Idle /\ MaySend
    /\ Request(c, s, "McpSendMessage", f, NoMsg)
    /\ UNCHANGED <<vars, runVars, mailVars, memberVars, signal, loop, todo>>

\* publish_runtime_constraint, with what it read before.
PublishConstraint(t) ==
    LET q == call[t] IN
    /\ q.at = "publish" /\ Free(t)
    /\ Constrain(t, q.slot, q.saw, <<>>)
    /\ deaf' = deaf \cup Misled(q.slot, q.saw)
    /\ call' = [call EXCEPT ![t] =
         [at |-> "acquire", slot |-> q.slot, source |-> q.source,
          binding |-> q.binding, msg |-> q.msg]]
    /\ UNCHANGED <<runVars, mailVars, runtime, status, role, signal, loop>>

\* acquire_enqueue with the run the binding resolves to; a user message sent
\* while a run is active is an intervention.
Acquire(t) ==
    LET q == call[t]
        source == IF q.source = "UserMessage" /\ M!IsActive THEN "UserIntervention"
                  ELSE q.source
    IN  /\ q.at = "acquire" /\ Free(t)
        /\ \/ /\ ~AcceptsEnqueue(q.slot)
              /\ call' = [call EXCEPT ![t] = Idle]
              /\ UNCHANGED <<vars, runVars>>
           \/ \E r \in Runs \cup {NoRun} :
              /\ \/ q.binding = "UserVisible" /\ M!BindUserEnqueue(r)
                 \/ q.binding = "ActiveRunOrBackground" /\ r = M!CurrentActiveRun
                    /\ UNCHANGED runVars
                 \/ q.binding \in Slots /\ r = FirstRun(q.binding) /\ UNCHANGED runVars
              /\ AcquireEnqueue(t, q.slot, source, r)
              /\ call' = [call EXCEPT ![t] =
                   [at    |-> IF q.source # "IdleNotification" /\ q.msg = NoMsg
                              THEN "write" ELSE "commit",
                    lease |-> [id |-> t, slot |-> q.slot, source |-> source, run |-> r],
                    from  |-> IF q.binding \in Slots THEN q.binding ELSE "user",
                    msg   |-> q.msg]]
        /\ UNCHANGED <<mailVars, memberVars, signal, loop, todo>>

\* abort_enqueue followed by the rest of the caller's error path.
Abort(t, l, rest) ==
    \/ /\ AbortEnqueue(l)
       /\ Then(t, Effect("unbind", IF AbortEmptiesRun(l) THEN {l.run} ELSE {})
                  \o Publish({l.run}) \o rest)
    \/ l \notin leases /\ UNCHANGED vars /\ Then(t, rest)

\* Mutant: the message gets the id of the row before it.
WriteRowOffByOne(s, from, kind) ==
    /\ Len(rows) + 1 \in Messages
    /\ rows' = Append(rows, [from |-> from, kind |-> kind])
    /\ unread' = [unread EXCEPT ![s] = @ \cup {Len(rows)}]

\* write_with_files: a new row in the mailbox of slot s.
WriteRow(s, from, kind) ==
    /\ Len(rows) + 1 \in Messages
    /\ rows' = Append(rows, [from |-> from, kind |-> kind])
    /\ unread' = [unread EXCEPT ![s] = @ \cup {Len(rows')}]

WriteMessage(t) ==
    /\ call[t].at = "write" /\ Free(t)
    /\ WriteRow(call[t].lease.slot, call[t].from, "message")
    /\ call' = [call EXCEPT ![t].at = "commit", ![t].msg = Len(rows')]
    /\ UNCHANGED <<vars, runVars, prompted, untold, memberVars, signal, loop, todo>>

WriteFails(t) ==
    /\ "write" \in Faults
    /\ call[t].at = "write" /\ Free(t)
    /\ Abort(t, call[t].lease, <<>>)
    /\ call' = [call EXCEPT ![t] = Idle]
    /\ UNCHANGED <<runVars, mailVars, memberVars, signal, loop>>

\* commit_persisted_enqueue, or the commit of a signal; then notify the loop.  A
\* settle signal whose run was cancelled meanwhile is lost.
Commit(t) ==
    LET l == call[t].lease
        m == call[t].msg
    IN  /\ call[t].at = "commit" /\ Free(t)
        /\ \/ /\ CommitEnqueue(l, m)
              /\ Then(t, Publish({l.run}) \o Effect("notify", {l.slot})
                         \o Effect("answer", IF l.source \in ForegroundSources
                                             THEN {l.run} ELSE {}))
              /\ UNCHANGED untold
           \/ /\ l \notin leases \/ ~AcceptsEnqueue(l.slot)
              /\ Abort(t, l, MarkRead({m}))
              /\ untold' = untold \cup (IF l.source = "IdleNotification" THEN {t} ELSE {})
        /\ call' = [call EXCEPT ![t] = Idle]
        /\ UNCHANGED <<runVars, rows, unread, prompted, memberVars, signal, loop>>

-----------------------------------------------------------------------------
(* Cancelling *)

\* cancel_run of the session, first step: begin_cancel.
CancelRunBegin(c) ==
    /\ "cancel" \in Calls /\ Free(c) /\ call[c] = Idle
    /\ M!BeginCancel(run.id)
    /\ call' = [call EXCEPT ![c] = [at |-> "cancel", run |-> run.id]]
    /\ UNCHANGED <<vars, issued, mailVars, memberVars, signal, loop, todo>>

\* Its second step: cancel_run of the coordinator.  Turns that were not
\* reported as started are not cancelled here.
CancelRunWork(c) ==
    LET r == call[c].run IN
    /\ call[c].at = "cancel" /\ Free(c)
    /\ CancelRun(r)
    /\ Then(c, Publish({r})
               \o MarkRead(MessagesOf({i \in OfRun(r) : Live(i)}))
               \o Effect("stop", {active[s] : s \in {t \in SlotsRunning(r) : turn[t]}}))
    /\ call' = [call EXCEPT ![c] = Idle]
    /\ UNCHANGED <<runVars, mailVars, memberVars, signal, loop>>

Tell(s, source) == [at |-> "tell", from |-> s, source |-> source]

\* Cancelling the active batch of slot s: the turn first, then the batch; the
\* lead is told about an interrupted teammate.
Interrupt(c, s) ==
    /\ Then(c, Effect("stop", IF turn[s] THEN {active[s]} ELSE {})
               \o Effect("end", {<<active[s], "Cancelled">>}))
    /\ call' = [call EXCEPT ![c] = IF s = Lead THEN Idle ELSE Tell(s, "InterruptedNotification")]

\* cancel_child_turn
CancelChildTurn(c, s) ==
    /\ "child" \in Calls /\ Free(c) /\ call[c] = Idle
    /\ active[s] # 0
    /\ RunsOf(batches[active[s]].members) # {}
    /\ Interrupt(c, s)
    /\ UNCHANGED <<vars, runVars, mailVars, memberVars, signal, loop>>

\* pause_slot_work
PauseSlotWork(c, s) ==
    /\ "pause" \in Calls /\ Free(c) /\ call[c] = Idle
    /\ M!IsActive
    /\ PauseSlot(s)
    /\ IF active[s] # 0 THEN Interrupt(c, s) ELSE UNCHANGED <<call, todo>>
    /\ UNCHANGED <<runVars, mailVars, memberVars, signal, loop>>

\* notify_leader_child_interrupted, notify_leader_spawn_attach_failed: the row.
\* That the caller remembers it is history: the code drops the answer of write.
TellLead(c) ==
    /\ call[c].at = "tell" /\ Free(c)
    /\ WriteRow(Lead, call[c].from, "message")
    /\ call' = [call EXCEPT ![c] =
         [at |-> "told", from |-> call[c].from, source |-> call[c].source, row |-> Len(rows')]]
    /\ UNCHANGED <<vars, runVars, prompted, untold, memberVars, signal, loop, todo>>

\* The row cannot be written: the error ends the call, and nobody tells the lead.
TellFails(c) ==
    /\ "tell" \in Faults
    /\ call[c].at = "tell" /\ Free(c)
    /\ call' = [call EXCEPT ![c] = Idle]
    /\ UNCHANGED <<vars, runVars, mailVars, memberVars, signal, loop, todo>>

\* wake_leader_after_recovery_message: the newest unread row of that sender, which
\* need not be the row this caller wrote.
WakeLeader(c) ==
    LET found == {m \in unread[Lead] : rows[m].from = call[c].from} IN
    /\ call[c].at = "told" /\ Free(c)
    /\ \/ found = {} /\ call' = [call EXCEPT ![c] = Idle] /\ UNCHANGED deaf
       \/ \E m \in found : /\ \A n \in found : n <= m
                           /\ Request(c, Lead, call[c].source, call[c].from, m)
                           /\ deaf' = deaf \cup (IF call[c].row \in found \ {m} THEN {Lead} ELSE {})
    /\ UNCHANGED <<vars, runVars, mailVars, runtime, status, role, signal, loop, todo>>

-----------------------------------------------------------------------------
(* Attaching the runtime of a teammate *)

Attach(c, s, pc, to) == call' = [call EXCEPT ![c] = [at |-> pc, slot |-> s, to |-> to]]

\* reserve_repair of a ready runtime, reserve_attach of a failed one.
AttachBegin(c, s) ==
    /\ "attach" \in Calls /\ Free(c) /\ call[c] = Idle /\ s # Lead
    /\ runtime[s] \in {"Ready", "Failed"}
    /\ runtime' = [runtime EXCEPT ![s] = "Starting"]
    /\ Attach(c, s, "constrain", "Starting")
    /\ UNCHANGED <<vars, runVars, mailVars, status, role, deaf, signal, loop, todo>>

\* commit_ready or commit_failed; the lease cannot be lost without a removal.
\* A failure also sets the status of the member.
AttachEnds(c, to) ==
    LET s == call[c].slot IN
    /\ call[c].at = "attaching" /\ Free(c)
    /\ runtime' = [runtime EXCEPT ![s] = to]
    /\ Attach(c, s, "constrain", to)
    /\ Then(c, Effect("status", IF to = "Failed" THEN {<<s, "Error">>} ELSE {}))
    /\ UNCHANGED <<vars, runVars, mailVars, status, role, deaf, signal, loop>>

\* attach_member_runtime tells the coordinator, then the loop or the lead;
\* spawn_attach_agent_process_bg says Ready and notifies a second time.
AttachTold(c) ==
    LET s  == call[c].slot
        to == call[c].to
    IN  /\ call[c].at \in {"constrain", "again"} /\ Free(c)
        /\ Constrain(c, s, to, Effect("notify", IF to = "Ready" THEN {s} ELSE {}))
        /\ \/ to = "Starting" /\ Attach(c, s, "attaching", to)
           \/ to = "Failed" /\ call' = [call EXCEPT ![c] = Tell(s, "SpawnAttachFailure")]
           \/ to = "Ready" /\ call[c].at = "constrain" /\ Attach(c, s, "again", to)
           \/ to = "Ready" /\ call' = [call EXCEPT ![c] = Idle]
        /\ deaf' = deaf \cup Misled(s, to)
        /\ UNCHANGED <<runVars, mailVars, runtime, status, role, signal, loop>>

-----------------------------------------------------------------------------
(* The event loop of slot s *)

LoopAt(s, pc) == loop[s].at = pc /\ Free(s) /\ call[s] = Idle
Goto(s, state) == loop' = [loop EXCEPT ![s] = state]
BatchMessages(b) == MessagesOf(batches[b].members)

Wake(s) ==
    /\ LoopAt(s, "wait") /\ signal[s]
    /\ signal' = [signal EXCEPT ![s] = FALSE]
    /\ Goto(s, At("prepare"))
    /\ UNCHANGED <<vars, runVars, mailVars, memberVars, call, todo>>

\* prepare_next_batch reads the registry, then tells the coordinator.
Prepare(s) ==
    /\ LoopAt(s, "prepare")
    /\ Goto(s, [at |-> "constrain", saw |-> runtime[s]])
    /\ UNCHANGED <<vars, runVars, mailVars, memberVars, signal, call, todo>>

PrepareConstraint(s) ==
    /\ LoopAt(s, "constrain")
    /\ Constrain(s, s, loop[s].saw, <<>>)
    /\ deaf' = (deaf \ {s}) \cup Misled(s, loop[s].saw)
    /\ untold' = IF s = Lead THEN {} ELSE untold
    /\ Goto(s, At("peek"))
    /\ UNCHANGED <<runVars, rows, unread, prompted, runtime, status, role, signal, call>>

\* peek_unread without what the slot has sent to itself: the answer is kept across
\* the next two coordinator calls.
Peek(s) ==
    /\ LoopAt(s, "peek")
    /\ Goto(s, [at |-> "reconcile", seen |-> {m \in unread[s] : rows[m].from # s}])
    /\ UNCHANGED <<vars, runVars, mailVars, memberVars, signal, call, todo>>

Reconcile(s) ==
    /\ LoopAt(s, "reconcile")
    /\ ReconcileMailbox(s, loop[s].seen)
    /\ Goto(s, [at |-> "next", seen |-> loop[s].seen])
    /\ UNCHANGED <<runVars, mailVars, memberVars, signal, call, todo>>

\* next() returns Claim: the prompt gets the claimed messages that were peeked.
Claim(s) ==
    /\ LoopAt(s, "next")
    /\ ClaimNext(s)
    /\ Then(s, Publish(RunsOf(batches'[lastOp'].members)))
    /\ Goto(s, [at |-> "prompt", batch |-> lastOp',
                seen |-> loop[s].seen \cap BatchMessages(lastOp)'])
    /\ UNCHANGED <<runVars, mailVars, memberVars, signal, call>>

\* next() returns SettleSignals or nothing to do.
NoClaim(s) ==
    LET signals == SignalsToSettle(s) IN
    /\ LoopAt(s, "next")
    /\ \/ ~MayClaim(s)
       \/ \A p \in Priorities : ~Selected(s, p)
       \/ signals # {}
    /\ Goto(s, IF signals = {} THEN At("wait") ELSE [at |-> "settle", signals |-> signals])
    /\ UNCHANGED <<vars, runVars, mailVars, memberVars, signal, call, todo>>

\* handle_signal_intents
SettleSignals(s) ==
    LET signals == loop[s].signals IN
    /\ LoopAt(s, "settle")
    /\ \/ CompleteSignals(s, signals) /\ Then(s, Publish(RunsOf(signals)))
       \/ ~(signals \subseteq QueuedSignals(s)) /\ UNCHANGED <<vars, todo>>
    /\ Goto(s, At("prepare"))
    /\ UNCHANGED <<runVars, mailVars, memberVars, signal, call>>

\* retry_start by the loop of slot s, and what it does next.
GiveBack(s, rest) ==
    LET b == loop[s].batch IN
    /\ \/ RetryStart(b) /\ Then(s, Publish(RunsOf(batches[b].members)) \o rest)
       \/ ~IsCurrent(b) /\ UNCHANGED vars /\ Then(s, rest)
    /\ Goto(s, At("wait"))
    /\ UNCHANGED <<runVars, mailVars, memberVars, signal, call>>

\* list_tasks fails: the batch is queued again and the loop waits.
ListTasksFails(s) ==
    "tasks" \in Faults /\ LoopAt(s, "prompt") /\ GiveBack(s, <<>>)

\* take_needs_role_prompt: only the first prompt built for a slot has it.
TakeRolePrompt(s) == role' = [role EXCEPT ![s] = FALSE]

\* team_tool_transport_for_agent fails: the error leaves the batch claimed.
TransportFails(s) ==
    /\ "transport" \in Faults
    /\ LoopAt(s, "prompt") /\ role[s]
    /\ TakeRolePrompt(s)
    /\ Goto(s, At("wait"))
    /\ UNCHANGED <<vars, runVars, mailVars, runtime, status, deaf, signal, call, todo>>

\* The prompt is built; execute_and_finalize first marks the member working.
Execute(s) ==
    /\ LoopAt(s, "prompt")
    /\ TakeRolePrompt(s)
    /\ Then(s, Effect("status", {<<s, "Working">>}))
    /\ Goto(s, [at |-> "start", batch |-> loop[s].batch, seen |-> loop[s].seen])
    /\ UNCHANGED <<vars, runVars, mailVars, runtime, status, deaf, signal, call>>

\* is_retryable_start_skip: the port says that a turn is already running.
StartSkipped(s) ==
    /\ "busy" \in Faults /\ LoopAt(s, "start")
    /\ GiveBack(s, Effect("status", {<<s, "Idle">>}))

\* Mutants: the messages stay unread; the batch stays active.
SettleUnread(b, st) == Effect("end", {<<b, st>>})
SettleOnlyRead(b, st) == MarkRead(BatchMessages(b))

\* mark_batch_messages_read, then complete_batch or fail_batch.
Settle(b, st) == MarkRead(BatchMessages(b)) \o Effect("end", {<<b, st>>})

\* run_agent_turn reports the start (on_started).  A batch that was taken away
\* but not cancelled as a whole is StaleOwner: its turn just goes on.
StartTurn(s) ==
    LET b == loop[s].batch
        result == StartResult(b)
    IN  /\ LoopAt(s, "start")
        /\ \/ MarkStarted(b)
              /\ Then(s, Publish(RunsOf(batches[b].members))
                         \o Effect("end", IF result = "CancelImmediately"
                                          THEN {<<b, "Cancelled">>} ELSE {}))
           \/ ~IsCurrent(b) /\ UNCHANGED <<vars, todo>>
        /\ Goto(s, [at |-> "turn", batch |-> b, seen |-> loop[s].seen,
                    turn |-> IF result = "CancelImmediately" THEN "unlaunched" ELSE "started"])
        /\ UNCHANGED <<runVars, mailVars, memberVars, signal, call>>

\* run_agent_turn hands the prompt to the agent process.
Launch(s) ==
    /\ LoopAt(s, "turn") /\ loop[s].turn = "started"
    /\ prompted' = prompted \cup loop[s].seen
    /\ Goto(s, [loop[s] EXCEPT !.turn = "live"])
    /\ UNCHANGED <<vars, runVars, rows, unread, untold, memberVars, signal, call, todo>>

\* run_agent_turn returns an error, before or after it reported the start.
TurnErrs(s) ==
    /\ \/ "start" \in Faults /\ LoopAt(s, "start")
       \/ "turn" \in Faults /\ LoopAt(s, "turn") /\ loop[s].turn # "unlaunched"
    /\ Then(s, Settle(loop[s].batch, "Failed") \o Effect("status", {<<s, "Error">>}))
    /\ Goto(s, At("prepare"))
    /\ UNCHANGED <<vars, runVars, mailVars, memberVars, signal, call>>

\* run_agent_turn returns: only a cancelled turn fails, and a turn cancelled
\* after its launch may still have completed.
TurnEnds(s, st) ==
    /\ LoopAt(s, "turn")
    /\ loop[s].turn \in (IF st = "Failed" THEN {"unlaunched", "stopped"} ELSE {"live", "stopped"})
    /\ Then(s, Settle(loop[s].batch, st)
               \o Effect("status", IF st = "Failed" THEN {<<s, "Error">>} ELSE {}))
    /\ Goto(s, At("finalize"))
    /\ UNCHANGED <<vars, runVars, mailVars, memberVars, signal, call>>

\* finalize_turn, mark_idle
MarkIdle(s) ==
    /\ LoopAt(s, "finalize")
    /\ status' = [status EXCEPT ![s] = "Idle"]
    /\ Goto(s, At(IF s = Lead THEN "prepare" ELSE "report"))
    /\ UNCHANGED <<vars, runVars, mailVars, runtime, role, deaf, signal, call, todo>>

\* mark_idle of a teammate leaves a row for the lead, without enqueueing it.
ReportIdle(s) ==
    /\ LoopAt(s, "report")
    /\ WriteRow(Lead, s, "idle")
    /\ Goto(s, At("settled"))
    /\ UNCHANGED <<vars, runVars, prompted, untold, memberVars, signal, call, todo>>

\* The row cannot be written: mark_idle returns the error before it looks whether
\* all are settled, and the loop only logs it.
ReportFails(s) ==
    /\ "tell" \in Faults
    /\ LoopAt(s, "report")
    /\ untold' = untold \cup {s}
    /\ Goto(s, At("prepare"))
    /\ UNCHANGED <<vars, runVars, rows, unread, prompted, memberVars, signal, call, todo>>

\* Mutant: an idle teammate does not count as settled.
AllFinished == \A s \in Slots \ {Lead} : status[s] \in {"Completed", "Error"}

\* maybe_wake_leader_when_all_idle; the lead it returns gets a settle signal.
AllSettled == \A s \in Slots \ {Lead} : status[s] \in {"Idle", "Error"}

WakeSettledLead(s) ==
    /\ LoopAt(s, "settled")
    /\ IF AllSettled /\ status[Lead] = "Idle"
       THEN Request(s, Lead, "IdleNotification", "ActiveRunOrBackground", NoMsg)
       ELSE UNCHANGED call
    /\ Goto(s, At("prepare"))
    /\ UNCHANGED <<vars, runVars, mailVars, memberVars, signal, todo>>

-----------------------------------------------------------------------------

CallerBegins(c) ==
    \/ \E s \in Slots : UserMessage(c, s)
    \/ \E f, s \in Slots : AgentMessage(c, f, s)
    \/ CancelRunBegin(c)
    \/ \E s \in Slots : CancelChildTurn(c, s)
    \/ \E s \in Slots : PauseSlotWork(c, s)
    \/ \E s \in Slots : AttachBegin(c, s)

EnqueueStep(t) == PublishConstraint(t) \/ Acquire(t) \/ WriteMessage(t) \/ WriteFails(t) \/ Commit(t)

CallerStep(c) ==
    \/ EnqueueStep(c) \/ CancelRunWork(c) \/ TellLead(c) \/ TellFails(c) \/ WakeLeader(c)
    \/ \E to \in {"Ready", "Failed"} : AttachEnds(c, to)
    \/ AttachTold(c) \/ Continue(c)

LoopStep(s) ==
    \/ Wake(s) \/ Prepare(s) \/ PrepareConstraint(s) \/ Peek(s) \/ Reconcile(s)
    \/ Claim(s) \/ NoClaim(s) \/ SettleSignals(s) \/ ListTasksFails(s) \/ TransportFails(s)
    \/ Execute(s) \/ StartSkipped(s) \/ StartTurn(s) \/ Launch(s) \/ TurnErrs(s)
    \/ \E st \in {"Completed", "Failed"} : TurnEnds(s, st)
    \/ MarkIdle(s) \/ ReportIdle(s) \/ ReportFails(s) \/ WakeSettledLead(s)
    \/ EnqueueStep(s) \/ Continue(s)

SessionNext ==
    \/ \E c \in Callers : CallerBegins(c) \/ CallerStep(c)
    \/ \E s \in Slots : LoopStep(s)

SessionSpec == SessionInit /\ [][SessionNext]_sessionVars

\* The async runtime polls every task that can go on, and every turn ends.
FairSession ==
    /\ SessionSpec
    /\ \A c \in Callers : WF_sessionVars(CallerStep(c))
    /\ \A s \in Slots : WF_sessionVars(LoopStep(s))

-----------------------------------------------------------------------------
(* What holds *)

\* Runs are handed out before they are recorded, and every message that is
\* unread or was prompted is a row of the mailbox table.
SessionTypeOK ==
    /\ TypeOK
    /\ run \in [id : issued \cup {NoRun}, accepted : BOOLEAN,
               status : M!ActiveStatus \cup M!SettledStatus]
    /\ issued \subseteq Runs
    /\ rows \in Seq([from : Slots \cup {"user"}, kind : {"message", "idle"}])
    /\ unread \in [Slots -> SUBSET DOMAIN rows]
    /\ prompted \subseteq DOMAIN rows
    /\ untold \subseteq Tasks
    /\ runtime \in [Slots -> {"Ready", "Starting", "Failed"}]
    /\ status \in [Slots -> {"Idle", "Working", "Error"}]
    /\ role \in [Slots -> BOOLEAN]
    /\ deaf \subseteq Slots
    /\ signal \in [Slots -> BOOLEAN]
    /\ DOMAIN call = Tasks /\ DOMAIN loop = Slots /\ DOMAIN todo = Tasks

\* Its agent is ready, nobody paused it, and since its loop last drained it was not
\* left without a wake-up (deaf).  Two steps of the code do that:
\*   - publish_runtime_constraint tells the coordinator what it read before the
\*     runtime became ready, so the loop finds its slot closed and waits, and
\*     nobody notifies it when a later call opens the slot again;
\*   - wake_leader_after_recovery_message enqueues a newer row of the same sender
\*     instead of its own: that call or cancel_run may drop both.
SlotOpen(s) == /\ runtime[s] = "Ready"
               /\ ~paused[s]
               /\ s \notin deaf

\* No call is being served, every loop waits and none has a permit to go on:
\* nothing happens any more until somebody calls.
Resting == /\ \A t \in Tasks : Free(t) /\ call[t] = Idle
           /\ \A s \in Slots : loop[s].at = "wait" /\ ~signal[s]

\* A message that its loop is shown: a slot may send to itself, and peek leaves
\* such a row out, so that it is not prompted and may stay unread for ever.
Shown(m, s) == rows[m].from # s

\* No message that was enqueued is forgotten: whatever commits, cancels, starts
\* and attaches happened in which order, a session only comes to rest when every
\* open slot (SlotOpen) has read what others sent to it (the rows of mark_idle are not
\* enqueued by their writer: see LeadHearsSettledTeam).  The loop consumes its
\* permit before it peeks, and every commit notifies after it queued the work.
NoLostWakeup ==
    Resting => \A s \in Slots :
        SlotOpen(s) => \A m \in unread[s] : Shown(m, s) => rows[m].kind = "idle"

\* The lead of a resting session without errors has read every idle report:
\* either its loop was still draining when the report was written, or the last
\* teammate to settle found it idle and signalled it (mark_idle).  Since the lead
\* last drained, nobody may have failed to tell it (untold): a teammate whose report
\* cannot be written does not look whether all are settled, and cancel_run drops
\* the lease of a signal that is on its way.
LeadHearsSettledTeam ==
    Resting /\ SlotOpen(Lead) /\ untold = {} /\ (\A s \in Slots : status[s] = "Idle")
        => \A m \in unread[Lead] : ~Shown(m, Lead)

\* The loop of slot s hands its prompt to the agent.
Launches(s) == /\ loop[s].at = "turn" /\ loop[s].turn = "started"
               /\ loop'[s].at = "turn" /\ loop'[s].turn = "live"

\* No message is handed to an agent twice, although a message can be owned by a
\* committed intent and by a recovered one, and although batches are given back:
\* no launch has a message in its prompt that was in an earlier one.
PromptedOnce ==
    [][\A s \in Slots : Launches(s) => loop[s].seen \cap prompted = {}]_sessionVars

\* An active batch always has a loop that is about to start it, runs it or will
\* end it: a slot is never blocked by a batch that nobody owns.
BatchHasItsLoop ==
    \A s \in Slots : active[s] # 0 =>
        \/ loop[s].at \in {"prompt", "start", "turn"} /\ loop[s].batch = active[s]
        \/ \E k \in DOMAIN todo[s] : /\ todo[s][k][1] = "end"
                                    /\ active[s] \in {x[1] : x \in todo[s][k][2]}

\* A run is reported as failed only when a piece of its own work has failed,
\* in whatever order the summaries of concurrent calls arrive.
FailedIsEarned ==
    run.status = "Failed" => \E i \in OfRun(run.id) : intents[i].state = "Failed"

\* Every message that was written by another one is read in the end (by a turn, by
\* the cancellation of its run or because its commit was rejected).
EveryMessageIsRead ==
    \A m \in Messages, s \in Slots :
        m \in unread[s] /\ Shown(m, s) ~> m \notin unread[s]

-----------------------------------------------------------------------------
(* What the repository says and the code does not keep.                     *)

\* mailbox.rs, mark_read_batch: messages are marked read after they were
\* delivered in a prompt.  A message that is committed between reconcile_mailbox
\* and next is claimed, but it is not among the messages peeked before.
CompletedWorkWasPrompted ==
    \A i \in DOMAIN intents :
        intents[i].state = "Completed" /\ intents[i].msg # NoMsg
        /\ (\A s \in Slots : intents[i].msg \notin unread[s])
            => intents[i].msg \in prompted

=============================================================================
