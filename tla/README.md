# Team-Lite: a TLA+ model of the team runtime

Team-Lite orchestrates a team of coding agents: a user gives the *lead* a goal,
the lead hands work to *teammates*, and when everybody has settled the lead is
woken to look at the results.  The back end (`crates/team`, with `crates/acp` for
the agent processes, `crates/store` for the tables and `crates/app` for the
adapters between them) is a set of tokio tasks that share a few mutex-protected
state machines.  Almost everything that can go wrong there is a matter of order:
a lock is released before the result is used, a handle is kept across a turn of
many minutes, a process is launched while its member is removed, a row is read,
changed and written back while somebody else does the same.  That is what this
project models and checks.

## 1. The system

| component | state | operations | talks to |
|---|---|---|---|
| work coordinator (`work_coordinator/`) | per slot: three priority queues, the active batch, paused, runtime constraint, removed; all intents; enqueue leases; operation counter | acquire / commit / abort enqueue, reconcile_mailbox, next, complete_signals, mark_started, retry_start, complete / fail / cancel batch, cancel_run, pause_slot, set_runtime_constraint, remove_slot, stop | publishes run summaries to the run manager after its unlock |
| run manager (`team_run/`) | at most one run record | bind_user_enqueue, apply_work_summary, begin_cancel, abort_binding | broadcasts run events |
| session (`session.rs`) | the parts above, scheduler, mailbox, member registry, loops | user and agent messages, cancel run / child turn, pause, attach, shutdown, spawn, remove, stop | everything |
| event loop (`event_loop.rs`) | one `Notify` permit and one task per slot | wait, prepare batch, run turn, finalize | session, turn port, scheduler |
| mailbox (`mailbox.rs`) | rows with a read flag | write, peek_unread, mark_read_batch | store |
| scheduler (`scheduler/`) | status and needs_role_prompt per slot, roster | set_status, mark_idle, wake the settled lead, add / remove agent | mailbox, task board |
| member runtime registry (`member_runtime.rs`) | per member: Absent, Attaching, Ready, Failed, Removing; operation counter; stopped; one watch channel per operation | seed, reserve attach / repair, commit ready / failed, begin / finish / restore removal, stop | answers those who wait for an operation |
| task board (`task_board.rs`) | tasks with `blocked_by` and `blocks` | create_task, update_task, check_unblocks | store |
| tool server (`mcp/`, `tool_executor.rs`) | connections and who they speak for | task, message, shutdown, spawn, rename and listing tools | board, mailbox, projection, service |
| message projection (`message_projection.rs`) | – (writes conversation messages) | project a mailbox row for its sender and for its reader | conversation store |
| wake summary (`prompts/wake_summary.rs`) | – (pure) | select the tasks a prompt shows, count the rest | board |
| turn port and ACP client (`acp_turn_adapter.rs`, `crates/acp`) | running turns with cancel channels, tasks by conversation, processes | run / cancel turn, handshake, kill | agent process |
| team service (`service.rs`, `service/spawn_support.rs`) | sessions by team, membership mutex and ensure mutex per team, team row | create, ensure, stop, archive, delete, add / spawn / rename / remove agent, reconcile runtimes, idle cleanup, last message | session, registry, provisioning, processes |
| provisioning (`provisioning.rs`, `workspace.rs`, `adapters.rs`) | team row, `extra` of every member's conversation, directories | create initial and later members, resolve workspace, set session mode, patch runtime configuration, warm up | store, file system, ACP client |
| events, prompt texts, assembly, crash recovery, web client | – | see section 6 | |

Hard behaviours, and what correctness means for each part:

* *Coordinator*: callers use leases and batch handles long after they got them.
  Work must be neither lost nor queued twice, running work has exactly one owner,
  finished work never changes, a cancelled run is drained everywhere.
* *Run manager*: summaries arrive out of order; a run fails only if its own work
  failed.
* *Session and loops*: every message is read, and prompted at most once; no
  wake-up is lost; a claimed batch always has somebody who ends it; the lead hears
  of a settled team.
* *Registry*: attach, repair, removal and stop overtake each other.  The newest
  operation decides and everybody who waits is answered.
* *Service*: requests hold the membership mutex only for parts of their work, and
  archive and delete drop it from its map while others wait for it.  No session may
  be left running where nobody finds it, no membership change may be lost, a removed
  member stays gone, nobody waits for an operation that nobody works on.
* *Task board*: two rows describe one dependency, each written alone; a completed
  task blocks nobody that was linked to it in time.
* *Tool server*: connections outlive the accept loop, and a removal that was agreed
  to happens later; only those who agreed leave.  No agent runs on a message that its
  conversation does not show, although a batch may hold messages that were committed
  after its loop had looked.
* *Turn port*: cancel, answer, failure and timeout race; a turn ends once, a
  cancelled one is never stored as completed, nothing is left behind.
* *Provisioning*: directories disappear, patches of one conversation undo each other, and
  the client patches them too.  A process runs with the transport of its backend, members
  share the workspace of the team, and a request that writes the row takes no member off
  it that another has put there.

`PROJECT.json` lists the hazards with their lines and the properties that guard
them, or a note where none does.

## 2. Modules

| module | models | composes |
|---|---|---|
| `SlotWork` | the coordinator, one action per method (each holds the one mutex for its whole body) | |
| `TeamRun` | the run manager, one action per method | |
| `TeamSession` | callers, event loops, mailbox, scheduler states and the turn port of one session | EXTENDS `SlotWork` (refinement), INSTANCE `TeamRun` |
| `MemberRuntime` | the registry of member runtimes | |
| `TeamService` | requests to the service, session generations, attach tasks, roster | INSTANCE `MemberRuntime` per generation (refinement) |
| `Provisioning` | the making of members, workspaces, modes and runtime configuration | |
| `TaskBoard` | create and update of tasks, one step per row | |
| `WakeSummary` | the choice and the counts of a wake summary, as operators | |
| `ToolServer` | connections, tools, mailbox rows, projection, wakes, agreed removals | EXTENDS `TaskBoard`, `WakeSummary` |
| `TurnPort` | abstract: what an event loop relies on when it runs a turn | |
| `AcpTurn` | turns and handshakes with agent processes | INSTANCE `TurnPort` (refinement) |
| `*Proofs` | theorems and proofs | EXTEND the module they are about |
| `MC*` | TLC instances (symmetry, input sets) | |

**SlotWork.** Variables are the fields of `SlotState` and `CoordinatorState`.  A
queue is the *set* of its intents, because its order is visible only through the
first run id of a batch, and intent ids grow in creation order (`FirstRun`).
`batches` remembers every batch ever claimed, since a caller may use a handle at
any later time; a lease stays until it is committed, aborted or dropped by
`cancel_run` or `stop`.  On its own the coordinator accepts any run id and any
list of unread messages; `TeamSession` restricts both to what the program does.

**TeamSession.** A *task* is a caller or an event loop.  Its step ends where the
code releases the coordinator's lock or awaits, and what it still has to do before
its next decision is its list of pending effects `todo`: apply a summary, mark
rows read, notify a loop, stop a turn, end a batch, set a status, answer.  So the
summary computed under the lock (`Publish`) and its application (`Apply`) are two
steps, as in `publish_run_summaries`.  `call` is where a task is in an enqueue or
cancel call, `loop` where an event loop is.  The values a handler read before an
await (`saw`, `seen`, `batch`, `lease`) are kept in these records, so they may be
stale when used.  `signal` is the `Notify` permit, `prompted` a history of the
messages that were launched.  A store write may fail (`write`), the port may be
busy (`busy`), fail before or after the start callback (`start`, `turn`), the task
list and tool transport may fail (`tasks`, `transport`), and so may the row that tells
the lead of a settled or interrupted teammate or of a failed attach (`tell`), after which
`mark_idle` does not look whether all are settled.  Agents send to each other and to
themselves: `send_agent_message_from_agent` enqueues a message of a slot to itself like any
other, and `prepare_next_batch` leaves it out of what it peeks (`Shown`).

**MemberRuntime.** `entry` is the map of entries, `leases` every lease handed out,
`outcome` the value of every operation's watch channel.  Joining an operation
changes nothing: a waiter will see `outcome`.

**TeamService.** One team.  A request (`call`) is one operation of the service; its
steps are the pieces between two awaits.  A *generation* is one `TeamSession`: it
has a registry (`reg`), the slots its scheduler knows and its event loops.
`published` is the entry of the sessions map, `mutex` numbers the membership
mutexes that the map has held: a request keeps the one it looked up.  An attach
task is a member of `attaches`, with the lease it holds.  Processes are `tasks`.
Spawn and rename come from the tool server (`ExecSpawnAgent`, `ExecRenameAgent`),
and the rebuild of runtimes at session start runs at most three attaches at a time
(`RunJob`, `JoinNext`).

**Provisioning.** One team.  The row is updated field by field, the `extra` of a
conversation is read (`PatchRead`) and written as a whole (`PatchWrite`), with
nothing locked in between.  The agents of the row are a set of slots; `Profile` gives
every slot its backend and model: whether the model is routed to Claude, whether the
backend has the MCP transport or the shell fallback.  `add_agent` and
`persist_spawned_agent` write the list under the membership mutex,
`persist_agent_last_message` without it (`BeginLastMessage`, `WriteLastMessage`).  The web
client merges keys into an extra or replaces it (`ClientChanges`).  An attach writes the
configuration, kills the process and warms up another.  Directories may disappear and
come back.

**TaskBoard, ToolServer, WakeSummary.** A task's id is its position in `tasks`.
`create_task` inserts a row and then visits one dependency after the other,
`update_task` reads, writes, and visits the rows it read.  The tool server drives
the board from several connections and removes who sent `shutdown_approved`.  It also
writes mailbox rows: the sender projects its row into the conversation and then commits
it; a loop peeks, claims, and projects what it has both seen and claimed before its turn
runs.  Two calls commit a row that another one has written and may still be projecting:
`wake_leader_after_recovery_message` and the recovery drain (`CommitEarly`).  `WakeSummary` gives the set of *all* selections that the sort
by rank and time may give, because the properties do not depend on time stamps.

**AcpTurn, TurnPort.** An exchange is a turn or a handshake: it spawns a process,
talks to it, kills it, and waits for the end of its standard error.  The agent
answers, speaks, fails, hangs or forks a helper; on Unix the kill does not reach a
helper, on Windows it does.  `cancel`, the timers and the dropping of a future come
at any time.  `TurnPort` has no process: a turn runs and ends once.

Definitions marked *Mutant* are deliberately wrong variants of the definition that
follows them.  They are not part of any specification; substituting one must break
the property that guards against it (`PROJECT.json`, "mutants").

**History variables.** Some properties name their exceptions, each of which is
something the code does: `relinked` (an `update_task` replaced a dependency list
without recording it in the other row), `late` (a link was recorded when its
dependency was being, or had been, completed), `dropped` (an early return by `?`
dropped the lease of an operation others may wait for), `loose` (a removal found no
runtime to cancel, a spawn admitted the member after its removal, or
`persist_agent_last_message` wrote it back to the roster), `unlocked`
(`persist_agent_last_message` changed the roster without the membership mutex),
`lost` (a directory was missing), `edited` (the client has changed the extra of a member),
`undone` (a patch of an extra has taken back what another wrote after it had read),
`dropped` of `Provisioning` (members that a last message took off the row), `unshown` (rows
whose projection failed, or that another call committed before they were projected),
`untold` (tasks that could not tell the lead of a settled teammate) and `deaf` (a step left
a slot without a wake-up, see section 3).  They are set by the step that makes the
exception and by nothing else; a slot stops being `deaf` when its own loop tells the
coordinator what the registry says, `untold` is empty again when the lead's does, and a row
leaves `unshown` when it is projected after all.  That a caller in `told` remembers its `row` is history too: the
code drops the answer of `write`.

## 3. Runs

All runs allow a state without successor: the system may stop being used and the
bounds end every behaviour.  `NoLostWakeup`, `BatchHasItsLoop`,
`EveryMessageIsRead`, `NobodyWaitsForever` and `ExchangeEnds` say what must not be
left over then.

| run | instance | shows |
|---|---|---|
| SlotWork | 1 slot, 1 run, 1 message, a message and a signal source, 1 lease at a time, 2 intents, 2 batches, all constraints | `TypeOK`, `QueuesMatchIntents`, `ActiveBatchOwnsRunningWork`, `ClosedSlotsHoldNoRunWork`, `TerminalIsFinal`, `LostOwnershipIsFinal`, `CancelRunIsExact` |
| MemberRuntime | 2 members, 5 operations | `TypeOK`, `WaitersHaveAnOwner`, `NewestOperationDecides`, `OutcomeIsFinal`, `ReadyNeedsItsAttach` |
| SessionCallers | 1 slot, 2 callers, 2 runs, 2 messages; send, cancel, pause | `NoLostWakeup`, `BatchHasItsLoop`, `PromptedOnce` |
| SessionFaults | lead and teammate, 1 caller; user and agent messages, cancelled child turns; all faults but failing enqueues | `SessionTypeOK`, `FailedIsEarned` |
| SessionTeam | lead and teammate, 1 caller, 1 run, 3 rows (user messages and idle reports); send, cancel, failing reports | `LeadHearsSettledTeam` |
| SessionAttach | lead and teammate, 2 callers, 1 message; attach (also failing), send, failing writes | `NoLostWakeup` |
| SessionLiveness | 1 slot, 1 caller, 2 runs; user messages, messages of the agent to itself, cancel, failing writes; with fairness | `EveryMessageIsRead` |
| ToolServer | 2 connections, lead and teammate, 3 tasks, 1 mailbox row, 3 tool calls, summaries of 2 rows | `ToolsTypeOK`, `LinksRecorded`, `UnblockedOnCompletion`, `MessagesAreShown`, `OnlyVolunteersLeave`, `SummaryCountsAddUp`, `SummaryShowsWhatMatters` |
| AcpTurn | a turn and a handshake of one conversation, both platforms; with fairness | `AcpTypeOK`, `NothingLeftBehind`, `ImplementsTurnPort`, `ExchangeEnds` |
| TeamService | lead, a teammate and a new member; 3 requests, 2 sessions, 3 operations of a session | `ServiceTypeOK`, `NoOrphanSession`, `NobodyWaitsForever`, `RosterSerialized`, `RemovedStaysGone`, `RegistriesImplement` |
| Provisioning | 2 initial and 2 later members, 3 requests, 1 other mode, 1 lost directory, 3 client changes | `RunsAsConfigured`, `SharedWorkspace`, `OnlyRepliesDropMembers` |
| UnpromptedWork | 1 slot, 1 caller, 2 messages | violated: see section 5 |

**Bounds.** `MaxIntents`, `MaxOps`, `MaxSends`, `MaxOperations`, `MaxRequests`,
`MaxGenerations`, `MaxLosses` and the sizes of `Messages`, `Runs`, `LeaseIds`,
`Callers`, `Requests` bound what happens, not its order.  Every race of the hazard
list needs at most two callers and one loop, or one caller and two loops; two
batches are needed for a stale handle, two runs for a summary of an old run, and
five operations for attach, removal, attach, late commit and one more.  The
`SlotWork` instance is small because its theorems hold for all sizes.
`SessionTeam` has three rows (a message and its report, or two messages and a report)
and five intents, since a row can be recovered by the lead's loop and be signalled as
well; `cancel` is among its calls because it can drop the signal.  With
`MaxIntents` exhausted a task waits before its commit; such a state is not
`Resting`, so the resting properties say nothing about it.

In `ToolServer` three tasks make a chain and a fork of dependencies, and a summary
of two rows (the code shows 40) has room for an own task and one more, so that a blocker
has to be preferred to the third task, and three active tasks make it hide one.  One
mailbox row is enough because `MessagesAreShown` speaks of one row at a time: its sender,
an early commit, the peek, the claim and the projection race for it.  In `TeamService` one request wants a session, one changes the membership
or archives the team, and the third competes with either or stops the session: two
sessions suffice for "removed in one, attached in the next", three requests for the
two that hold different membership mutexes and the one that dropped the first.  In
`Provisioning` the three profiles (routed to MCP, the shell fallback, no transport) are
those that the code treats differently, and the client changes nothing that is modelled,
the workspace, or the whole extra.
Slots are not symmetric anywhere (one is the lead).

**Fairness.** `FairSession` (SessionLiveness): weak fairness of every task's steps,
without the beginning of a new call.  The tokio runtime polls every task that can go
on, the mutexes are held for short bodies without await, and turns end because the
ACP client has a turn timeout.  No fairness is assumed of callers, and the port does
not have to succeed.  `FairSpec` (AcpTurn): weak fairness of every exchange's own
steps, which include its timers.  Nothing is assumed of the agent: it may never
answer and its helper may never exit, so `ExchangeEnds` names the one case in which
an exchange does not return.

`NoLostWakeup` and `BatchHasItsLoop` are checked without the `busy`, `tasks` and
`transport` faults: after those the code gives a batch back and waits for the next
permit, or leaves the batch claimed, and with any one of them `NoLostWakeup` is violated in
the `SessionCallers` instance.  (That batches keep their loops is proved for all faults but
`transport`.)  The loop has a branch for each of them, but in the present sources no turn
port answers *busy* (only tests do) and the task list is a table in memory; `PROJECT.json`
therefore lists as hazards only what the present sources can meet.

`NoLostWakeup` and `LeadHearsSettledTeam` except what a slot has sent to itself: the call
enqueues it, no loop peeks it, and it stays unread for ever.  They speak of *open* slots
(`SlotOpen`): the runtime is ready, nobody paused the slot, and since its loop last looked
no step left it without a wake-up (`deaf`).  Two steps of the code do that, and without the
exception TLC finds the message that nobody reads:

* `publish_runtime_constraint` reads the registry and tells the coordinator in two
  steps, so a caller that read Failed (or Starting) can publish it after another caller
  attached the member and sent it a message.  The loop finds the slot closed and waits.
  The late caller's enqueue is refused, or its write fails, or a later call publishes
  Ready again and then fails: nobody notifies the loop when the slot opens.
* `wake_leader_after_recovery_message` enqueues the newest unread row of its sender,
  which need not be the row it wrote.  If that row is enqueued twice and the run is
  cancelled, its own row stays unread.

`LeadHearsSettledTeam` also excepts a lead that could not be told (`untold`), in two ways:

* `cancel_run` drops the lease of the signal that tells the lead of a settled team; the
  commit is refused and the caller gives up.  The idle report stays unread.
* The write of an idle report fails, and `mark_idle` returns before it looks whether all
  are settled.  The reports of the others stay unread.

In all four cases the row is read at the next call to the slot.  `SessionAttach` has
two callers and failing writes, `SessionTeam` cancels and failing reports, so that the
first and the last two happen in them.

## 4. Proofs

Everything below holds for every size of the constants, from the named assumptions
of the modules (`SlotWorkAssumption`, `SessionAssumption`, `MemberRuntimeAssumption`,
`BoardAssumption`, `ToolAssumption`, `SummaryAssumption`, `AcpAssumption`,
`ServiceAssumption`, `ProvisioningAssumption`), which say no more than that absent
values are none of the present ones, that inputs have the types of the code, that
initial and later members are different, and that bounds and limits are natural
numbers (and `Initial`, the agents of a create request, a finite set).

**SlotWorkProofs**: `TypeCorrect`, `QueuesCorrect`, `OwnershipCorrect`,
`ClosedSlotsCorrect` and the action properties `TerminalFinal`, `OwnershipFinal`,
`CancelExact`.  The inductive invariant `IInv` joins `TypeOK`, `QueuesMatchIntents`,
`ActiveBatchOwnsRunningWork` and `ClosedSlotsHoldNoRunWork`, none of which is
inductive alone: that a requeued batch is not in a queue already follows from the
ownership of its members, and that a claimed batch contains only queued work from
the queues.  `IntentsInKnownSlots` is added because `stop` walks only slots that
have an entry: without it, work in a slot without entry would survive as the member
of a batch that is gone.  There is one lemma per action; `MovedFacts` and
`SlotFrame` say once what a change of intents does and what leaves a slot
consistent.

**TeamSessionProofs**: `SessionUsesCoordinator` (every step of a session is a step of
the coordinator or leaves it alone, so all theorems of `SlotWorkProofs` carry over;
`SessionOwnership` is the one used below), `SessionTypeCorrect`, `FailureIsEarned`,
`BatchesHaveLoops`, `NothingIsPromptedTwice`, `WakeupsAreKept` and `LeadIsTold`, for any
number of slots, callers, runs and messages and any set of faults (`BatchesHaveLoops`
without `transport`, the last two also without `busy` and `tasks`, after which the code
does forget work; failing writes, starts and turns are allowed).

* What is decided under the coordinator's lock is done later, so the invariant
  `SessInv` is mostly about what tasks carry with them: `CallInv` types every stage of
  a call, `LoopInv` every stage of a loop, and `TodoInv` every pending effect.
  `FailedIsEarned` follows because a pending summary that says "failed" is true of its
  run, and a failed intent stays failed (`TerminalFinal`), however late it is applied.
* `BatchHasItsLoop`: a batch is claimed by the loop of its slot and is ended or given
  back either by that loop or by an effect that the loop has pending (`HasOwner`,
  `Owes`).  A cancel or pause from elsewhere takes the batch away, it never makes
  another batch active.
* `PromptedOnce` says that no launch has a message in its prompt that an earlier launch
  had, neither among new ones nor alone.  `PromptInv` says that a prompted message which is still unread
  belongs to the turn that goes on, or to a "read" that the loop does before it peeks
  again (`PromptOK`), and that different slots never hold one message (`Apart`).
* `NoLostWakeup` and `LeadHearsSettledTeam` speak only of a session that rests, so they
  are far from inductive.  `WatchInv` says of *every* state who still deals with an
  unread message of an open slot (`Hope`): a call on its way to enqueue it (`Brings`), a
  permit, or a notification or a Ready that somebody has yet to deliver (`Called`), the
  loop that has yet to peek, has it among what it peeked, or has it queued (`Sees`), or a
  pending mark-read (`ToRead`).  Writing, committing, notifying, waking, peeking and
  reconciling hand it from one to the next, and `CarriedKeeps` that no pending effect gets
  lost is the lemma all of them use.  An idle report has no writer that enqueues it; it has
  `Duty` instead: some member is not idle, or is about to report or to look whether all
  are settled, or the settle signal is on its way.  Whoever ends `Duty` wakes the lead.
  Three further conjuncts make this inductive: the slot of the lead refuses no enqueue
  (`LeadReady`); a loop that looks for work has no batch and nothing pending (`Quiet`, with
  `BatchesHaveLoops`), so that reconciling really queues what it peeked; and it finds its
  slot open unless the slot is `deaf` or about to be opened (`Steady`), so that it claims
  what is queued instead of waiting.  At rest there is no `Hope` (`RestingIsHopeless`).

**MemberRuntimeProofs**: all five properties of the registry, from `Inv` = `TypeOK`,
`OperationsAreNamed`, `NewestOperationDecides`, `WaitersHaveAnOwner`.
`OperationsAreNamed` (an entry names no operation exactly if it is absent or ready)
is needed so that a stale lease is never mistaken for operation 0.

**TaskBoardProofs**: `BoardTyped`, `LinksAreRecorded`, `CompletionUnblocks`, from
`BoardInv` = `BoardTypeOK`, `LinksRecorded`, `WillBeUnblocked`.
`UnblockedOnCompletion` speaks of calls that have returned, so it is not inductive:
`WillBeUnblocked` says of every link that was recorded in time that a call which is
about to complete the dependency has the dependent on its list, and that a completed
dependency has a caller that still has to visit it.

**ToolServerProofs**: `ToolServerImplementsBoard` (every step of the tool server is
a step of the board or leaves it alone), hence `ToolsKeepLinks` and `ToolsUnblock`;
`OnlyVolunteersEverLeave` from `LeaveInv` (a removal is scheduled only for who has
agreed), and `ToolsTyped` from `ToolInv`, which adds what connections and wakes have in
progress: a row they name has been written.  `MessagesAreAlwaysShown` follows from
`ShownInv`: a message that is committed, or about to be by its sender, is shown or
`unshown`, and one that a wake has claimed is shown, `unshown` or still to be projected by
the wake.
`SummariesAddUp` and `SummariesShowWhatMatters` need no invariant beyond the types of
the board.  They are facts about `WakeSummary` for every board, roster and limit,
where the run has boards of three tasks and a limit of two rows.  `FirstOnes` says what
"sort, then take n" gives, `Ranked` that own tasks rank before their blockers and these
before the rest, `FilterKeeps` that the filter by current members hides neither.

**AcpTurnProofs**: `AcpTyped`, `NothingIsLeftBehind` and `TurnPortImplemented`
(`AcpTurn` implements `TurnPort`), from `AcpInv`, which ties the state of an exchange
to its process, its entry in the map of active turns and what was decided.

**TeamServiceProofs**: all six properties of the service, for any number of requests,
members, sessions and operations.

* `ServiceInv` gives `ServiceTypes`, `SessionsHaveOwners`, `WaitersAreAnswered` and
  `ServiceUsesRegistries`.  It says what is true between two awaits: of the rows
  (`RowsOK`), of every session and its registry (`SessionsOK`), of every request by its
  stage (`CallsOK`) and of every attach task (`AttachOK`).  `NoOrphanSession` is a
  conjunct and not inductive alone: it rests on at most one request starting a session
  at a time, which the *ensure* mutex gives and the membership mutexes do not, since
  archive and delete put a new one in their place.  `NobodyWaitsForever` rests on
  registries in which a pending operation owns its member (`RegOK`) and on different
  requests holding different leases (`Apart`).
* The refinement is proved step by step: for every action, how it changes a registry
  is a step of `MemberRuntime`, or none.
* `RowInv` gives `RosterEditsAreSerialized`.  While a team is active there is one
  membership mutex, so two requests that read the roster under it exclude each other;
  `Listed` says which lists may still name a member that is gone.
* `CleanInv` gives `RemovedMembersStayGone`: once a removal is past `RetireMember`,
  nothing of its member is in the *published* session, which need not be the one the
  removal began with.  A loop may still be there if the attach task that registered it
  is about to take it back.  `persist_agent_last_message` may write a removed
  member back to the roster, after which the next session has it again; such a member is
  `loose`, and the theorem does not speak of it.

**ProvisioningProofs**: `MembersRunAsConfigured`, `MembersShareTheWorkspace` and the action
property `RepliesAloneDropMembers`, from `ProvisionInv`.  What a member's `extra`
may be must hold not only of the conversations but of every value that a patch has *read*
and may write back much later; the workspaces it may bring back are the present one or
one whose directory was missing, because `resolve_for_new_agent` leaves a workspace only
when it is missing.  A process has its configuration because the attach that warms it up
wrote it first (`AttachingOK`), and since then only a patch that was read before
(`undone`) or one of the client (`edited`) can have taken it away.
Whoever adds a member still has the roster it read, up to members that
a last message has dropped, because it holds the membership mutex; that is why
`persist_agents` loses nobody else.  That it may take off the row a member that a last
message has dropped and another has written back needs more than the three requests of
the run; the proof covers it.  `ProvisioningAssumption` asks of `ClientChanges` only that
an extra stays one of `Extras`.

Every invariant and action property that a passing run checks is proved.  Only
model-checked is liveness under fairness (`EveryMessageIsRead`, `ExchangeEnds`), which is
out of the prover's reach, like `ENABLED` and facts about recursive definitions for every
input (no module here uses `RECURSIVE`); and `CompletedWorkWasPrompted` is violated.
`TeamServiceProofs` and `TeamSessionProofs` take some ten minutes or more to check from
nothing, the others a minute or two each.

## 5. Where the code and its comments disagree

`UnpromptedWork` ends in a violation of what `mailbox.rs` says of `mark_read_batch`:
a message committed between the reconciliation and the claim is completed and marked
read without having been in the prompt (quoted in "findings").

Other disagreements met while modelling, which have no run of their own:

* `reconcile_mailbox` can complete the last intent of a run without publishing a
  summary, so the run stays active.
* A summary with running work that is applied after `begin_cancel` sets the run from
  Cancelling back to Running.
* `abort_enqueue` decides that a run is empty under the lock and forgets the run
  after it, so a caller that joined the run meanwhile loses its record.
* The comment at `service.rs:701` says that a request which ensures the session joins
  a removal that is under way; for a member without a runtime there is no entry to
  join, and it starts a new one.
* `persist_agent_last_message` writes the roster without the membership mutex,
  although the comment of the struct (`service.rs:222`) says that every change of the
  membership is serialised by it.  Its own comment (`service.rs:2291`) admits the race:
  it can drop a member that `add_agent` puts on the row between its read and its write.
  `RosterSerialized` and `OnlyRepliesDropMembers` name this exception.
* The tool server accepts a message of an agent to itself (`mcp/server.rs:666`) and enqueues
  it, but the loop leaves it out of every prompt (`session.rs:350`): its intent is completed
  by the next reconciliation and the row stays unread.
* An attach writes the full automatic mode of the backend into the conversation of a
  member, whatever session mode the team was given.
* After the four steps that section 3 lists, a message to a ready member or to the lead
  stays unread until the next call, and no comment mentions it.
* `build_team_extra` writes `teamId`, `lookup_team_binding` reads `team_id`.

## 6. Not modelled, and what is left

Not modelled:

* *Crash and restart*: every repository is a table in memory; nothing is persisted,
  so there is no state to recover.  Crash detection, crash recovery, the watchdog,
  `execute_action`, the wake locks and `on_agent_finish` have no caller outside tests.
* Prompt texts, events, the text of tool answers, launch arguments and the payloads of
  the protocol: generated or forwarded and never read back.
* Reading routes, assembly and seed data, the stdio bridge and the command line client
  (they forward), the web client (it shows what is broadcast), `vendor/` (a baseline
  copy) and `spike/`.
* Within the modelled parts: the active leases of `service.rs` (a count shown to the
  user), `WorkerTaskManager::clear` (shutdown of the application), `history` and
  `read_unread_and_mark` of the mailbox; removal and stop are in `TeamService` and
  `SlotWork`, not in `TeamSession`.

Limits of the properties, in the words of the code:

* `MessagesAreShown` speaks of what `team_send_message` sends.  `shutdown_request` and
  `shutdown_rejected` rows, and the notices of idle, interrupted and failed agents, are not
  projected by their writer; one that is committed between a peek and a claim is claimed
  without being shown.  The same goes for rows committed early (`unshown`).
* `FailedIsEarned` does not speak of a run that a late summary sets back to Running, nor
  does it doubt that a cancelled child turn should fail its run: its intent is Failed.
* `RunsAsConfigured` speaks of the transport; the session mode of a conversation may be
  either of those that section 5 mentions.
* The `AcpTurn` run has one turn and one handshake; two handshakes of a conversation that
  race in `get_or_build_task` are covered by the theorems only, because two take TLC too
  long.

Left to do, in this order:

1. An abstract specification of a session (a message is sent, delivered once,
   settled) implemented by `TeamSession`.
2. Removal and stop of a session inside `TeamSession`.
