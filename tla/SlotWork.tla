------------------------------ MODULE SlotWork ------------------------------
(***************************************************************************)
(* The slot work coordinator of a team session                             *)
(* (crates/team/src/work_coordinator).  Every method takes the single      *)
(* coordinator mutex for its whole body, so every method is one action.    *)
(*                                                                         *)
(* A caller first acquires an enqueue lease, persists a mailbox row and    *)
(* commits (or aborts) the lease, which creates a work intent.  Queued     *)
(* intents of one slot and one priority are claimed together as a batch;   *)
(* the caller that owns the batch reports that its turn started and how it *)
(* ended.  Callers keep batch handles across awaits, so a handle may be    *)
(* used at any later time, also after its batch has been taken away.       *)
(*                                                                         *)
(* Data left out: roles, timestamps, classification strings, the           *)
(* generation of the (single) session, known_unread_message_ids (written   *)
(* and never read).  A queue is the SET of its intents: intent ids grow in *)
(* creation order, and the order of a queue is visible only through the    *)
(* first run id of a batch, which is the run of the oldest run-bearing     *)
(* intent (see FirstRun).                                                  *)
(***************************************************************************)
EXTENDS Naturals

CONSTANTS Slots,       \* slot ids of the team
          Runs,        \* ids the run manager may hand out
          NoRun,       \* Option<team_run_id>::None
          Messages,    \* mailbox message ids
          NoMsg,       \* Option<mailbox_message_id>::None
          Sources,     \* the work sources the callers of this instance use
          ConstraintInputs, \* the runtime constraints they report
          LeaseIds,    \* bound: leases held at the same time
          MaxIntents,  \* bound: intents ever created
          MaxOps       \* bound: batches ever claimed

-----------------------------------------------------------------------------
(* WorkSource and WorkPriority *)

ForegroundSources == {"UserMessage", "UserIntervention"}
ControlSources    == {"McpShutdownRequest", "ShutdownRejected"}
BackgroundSources == {"McpSendMessage", "SpawnWelcome", "TeamMembershipChanged",
                      "SpawnAttachFailure", "IdleNotification",
                      "InterruptedNotification", "RecoveryDrain"}
WorkSource        == ForegroundSources \cup ControlSources \cup BackgroundSources

Priorities == {"Foreground", "Control", "Background"}

Priority(source) == IF source \in ForegroundSources THEN "Foreground"
                    ELSE IF source \in ControlSources THEN "Control" ELSE "Background"

ResumesPausedSlot(source) == source \in ForegroundSources

RequiresMailboxMessage(source) ==
    source \notin {"TeamMembershipChanged", "IdleNotification"}

Constraints == {"Ready", "Starting", "Failed", "Removing", "SessionStopped"}

ASSUME SlotWorkAssumption ==
    /\ NoRun \notin Runs
    /\ NoMsg \notin Messages
    /\ Sources \subseteq WorkSource
    /\ ConstraintInputs \subseteq Constraints
    /\ MaxIntents \in Nat
    /\ MaxOps \in Nat

-----------------------------------------------------------------------------

Terminal    == {"Completed", "Failed", "Cancelled"}
IntentState == {"Queued", "Starting", "Running"} \cup Terminal

Ids == 1..MaxIntents
Ops == 1..MaxOps

Intent == [slot : Slots, source : WorkSource, msg : Messages \cup {NoMsg},
           run : Runs \cup {NoRun}, state : IntentState, batch : 0..MaxOps]
Lease  == [id : LeaseIds, slot : Slots, source : WorkSource, run : Runs \cup {NoRun}]
Batch  == [slot : Slots, members : SUBSET Ids, priority : Priorities]

VARIABLES
    slots,       \* slots with an entry in CoordinatorState.slots
    queue,       \* SlotState.{foreground, control, background}
    active,      \* operation id of SlotState.active, 0 when None
    turn,        \* ActiveBatch.turn_id is Some
    paused,      \* SlotState.paused
    constraint,  \* SlotState.runtime_constraint
    removed,     \* SlotState.removed
    intents,     \* CoordinatorState.intents; terminal intents are kept
    leases,      \* CoordinatorState.enqueue_leases
    batches,     \* every WorkBatch ever claimed: the handles callers may hold
    lastOp       \* CoordinatorState.next_operation_id

slotVars == <<slots, queue, active, turn, paused, constraint, removed>>
vars == <<slots, queue, active, turn, paused, constraint, removed,
          intents, leases, batches, lastOp>>

EmptyQueues == [p \in Priorities |-> {}]

Init ==
    /\ slots = {}
    /\ queue = [s \in Slots |-> EmptyQueues]
    /\ active = [s \in Slots |-> 0]
    /\ turn = [s \in Slots |-> FALSE]
    /\ paused = [s \in Slots |-> FALSE]
    /\ constraint = [s \in Slots |-> "Starting"]
    /\ removed = [s \in Slots |-> FALSE]
    /\ intents = [i \in {} |-> {}]
    /\ leases = {}
    /\ batches = [b \in {} |-> {}]
    /\ lastOp = 0

-----------------------------------------------------------------------------
(* Helpers *)

Live(i) == intents[i].state \notin Terminal

\* The non-terminal intents of a slot.
LiveOf(s) == {i \in DOMAIN intents : intents[i].slot = s /\ Live(i)}

\* The intents that carry a run id.
OfRun(r) == {i \in DOMAIN intents : intents[i].run = r}

\* An intent with another state; batch is 0 unless it is starting or running.
InState(x, st, b) == [slot |-> x.slot, source |-> x.source, msg |-> x.msg,
                      run |-> x.run, state |-> st, batch |-> b]

\* intents with the members of S moved to state st, owned by batch b.
Moved(S, st, b) ==
    [i \in DOMAIN intents |->
        IF i \in S THEN InState(intents[i], st, b) ELSE intents[i]]

\* Mutant: an id may be handed out twice.
FreshOrUsed(S) == S \subseteq Ids

\* Ids for new intents: unused, and the next ones in creation order.
Fresh(S) == /\ S \subseteq Ids \ DOMAIN intents
            /\ \A k \in S : \A j \in 1..k : j \in DOMAIN intents \cup S

\* Mutant: any active batch of the slot will do.
HasActive(b) == active[batches[b].slot] # 0

\* is_current_batch: the handle b is the active batch of its slot.
IsCurrent(b) == active[batches[b].slot] = b

\* Mutant: the runtime constraint is not looked at again.
AcceptsUnlessRemoved(s) == ~removed[s]

\* validate_enqueue_constraint
AcceptsEnqueue(s) == ~removed[s] /\ constraint[s] \in {"Ready", "Starting"}

\* batch.team_run_ids.first() of the slot's active batch.
FirstRun(s) ==
    LET bearing == IF active[s] = 0 THEN {}
                   ELSE {i \in batches[active[s]].members : intents[i].run # NoRun}
    IN  IF bearing = {} THEN NoRun
        ELSE intents[CHOOSE i \in bearing : \A j \in bearing : i <= j].run

\* Mutant: cancelled work counts as failed.
CancelledCountsAsFailed(r) ==
    [run     |-> r,
     work    |-> (\E i \in OfRun(r) : Live(i)) \/ (\E l \in leases : l.run = r),
     running |-> \E i \in OfRun(r) : intents[i].state = "Running",
     failed  |-> \E i \in OfRun(r) : intents[i].state \in {"Failed", "Cancelled"}]

\* run_summary_locked, as far as a consumer tests it: each count only against
\* zero, and queued, starting, running, leased and paused work only together.
RunSummary(r) ==
    [run     |-> r,
     work    |-> (\E i \in OfRun(r) : Live(i)) \/ (\E l \in leases : l.run = r),
     running |-> \E i \in OfRun(r) : intents[i].state = "Running",
     failed  |-> \E i \in OfRun(r) : intents[i].state = "Failed"]

-----------------------------------------------------------------------------
(* Enqueue protocol *)

\* acquire_enqueue: run is what the causal binding resolves to.
AcquireEnqueue(id, s, source, run) ==
    /\ \A l \in leases : l.id # id
    /\ AcceptsEnqueue(s)
    /\ slots' = slots \cup {s}
    /\ leases' = leases \cup {[id |-> id, slot |-> s, source |-> source, run |-> run]}
    /\ UNCHANGED <<queue, active, turn, paused, constraint, removed, intents, batches, lastOp>>

\* commit_enqueue: a lease that is gone, a missing message or a constraint that
\* changed since the lease was acquired rejects the commit and changes nothing.
CommitEnqueue(l, m) ==
    /\ l \in leases
    /\ RequiresMailboxMessage(l.source) => m # NoMsg
    /\ l.slot \in slots
    /\ AcceptsEnqueue(l.slot)
    /\ leases' = leases \ {l}
    /\ \E i \in Ids :
        /\ Fresh({i})
        /\ intents' = [j \in DOMAIN intents \cup {i} |->
             IF j = i THEN [slot |-> l.slot, source |-> l.source, msg |-> m,
                            run |-> l.run, state |-> "Queued", batch |-> 0]
             ELSE intents[j]]
        /\ queue' = [queue EXCEPT ![l.slot][Priority(l.source)] = @ \cup {i}]
    /\ paused' = [paused EXCEPT ![l.slot] = @ /\ ~ResumesPausedSlot(l.source)]
    /\ UNCHANGED <<slots, active, turn, constraint, removed, batches, lastOp>>

\* abort_enqueue: a lease that is gone is StaleOwner and changes nothing.
AbortEnqueue(l) ==
    /\ l \in leases
    /\ leases' = leases \ {l}
    /\ UNCHANGED <<slotVars, intents, batches, lastOp>>

\* abort_enqueue's remove_empty_run, for the lease it takes away.
AbortEmptiesRun(l) ==
    /\ l.run # NoRun
    /\ OfRun(l.run) = {}
    /\ \A k \in leases \ {l} : k.run # l.run

-----------------------------------------------------------------------------
(* Mailbox reconciliation and claiming *)

\* The unread messages of the slot that no live intent of the slot owns.
Unowned(s, unread) ==
    {m \in unread : \A i \in LiveOf(s) : intents[i].msg # m}

\* Queued intents whose message is no longer unread.
StaleQueued(s, unread) ==
    {i \in DOMAIN intents : /\ \E p \in Priorities : i \in queue[s][p]
                            /\ intents[i].msg \notin unread \cup {NoMsg}}

\* reconcile_mailbox: complete stale queued intents, then create one
\* RecoveryDrain intent (background, without a run) per unowned message.
ReconcileMailbox(s, unread) ==
    LET stale == StaleQueued(s, unread)
        fresh == Unowned(s, unread)
    IN  /\ slots' = slots \cup {s}
        /\ \E id \in [fresh -> Ids] :
            LET new == {id[m] : m \in fresh} IN
            /\ \A m, n \in fresh : id[m] = id[n] => m = n
            /\ Fresh(new)
            /\ intents' = [j \in DOMAIN intents \cup new |->
                 IF j \in new
                 THEN [slot |-> s, source |-> "RecoveryDrain",
                       msg |-> CHOOSE m \in fresh : id[m] = j,
                       run |-> NoRun, state |-> "Queued", batch |-> 0]
                 ELSE IF j \in stale THEN InState(intents[j], "Completed", 0)
                 ELSE intents[j]]
            /\ queue' = [queue EXCEPT ![s] =
                 [p \in Priorities |->
                    (@[p] \ stale) \cup (IF p = "Background" THEN new ELSE {})]]
        /\ UNCHANGED <<active, turn, paused, constraint, removed, leases, batches, lastOp>>

\* The queue next() looks at: the first non-empty one in priority order.
Selected(s, p) ==
    /\ queue[s][p] # {}
    /\ p \in {"Control", "Background"} => queue[s]["Foreground"] = {}
    /\ p = "Background" => queue[s]["Control"] = {}

\* next() gets past its early returns.
MayClaim(s) == s \in slots /\ active[s] = 0 /\ constraint[s] = "Ready" /\ ~paused[s]

MessageIntents(s, p) == {i \in queue[s][p] : intents[i].msg # NoMsg}

\* next() returning Claim: every message intent of the selected queue.
ClaimNext(s) ==
    /\ MayClaim(s)
    /\ lastOp < MaxOps
    /\ lastOp' = lastOp + 1
    /\ \E p \in Priorities :
        /\ Selected(s, p)
        /\ MessageIntents(s, p) # {}
        /\ batches' = [b \in DOMAIN batches \cup {lastOp'} |->
             IF b = lastOp' THEN [slot |-> s, members |-> MessageIntents(s, p), priority |-> p]
             ELSE batches[b]]
        /\ intents' = Moved(MessageIntents(s, p), "Starting", lastOp')
        /\ queue' = [queue EXCEPT ![s][p] = @ \ MessageIntents(s, p)]
    /\ active' = [active EXCEPT ![s] = lastOp']
    /\ turn' = [turn EXCEPT ![s] = FALSE]
    /\ UNCHANGED <<slots, paused, constraint, removed, leases>>

\* next() returning SettleSignals: the selected queue holds signals only.
SignalsToSettle(s) ==
    {i \in DOMAIN intents :
        MayClaim(s) /\ \E p \in Priorities :
            Selected(s, p) /\ MessageIntents(s, p) = {} /\ i \in queue[s][p]}

\* Signals a caller of complete_signals may still settle.
QueuedSignals(s) ==
    {i \in DOMAIN intents : /\ intents[i].slot = s
                            /\ intents[i].msg = NoMsg
                            /\ intents[i].state = "Queued"}

\* complete_signals: rejected unless all are queued signals of the slot.
CompleteSignals(s, signals) ==
    /\ signals \subseteq QueuedSignals(s)
    /\ intents' = Moved(signals, "Completed", 0)
    /\ queue' = [queue EXCEPT ![s] = [p \in Priorities |-> @[p] \ signals]]
    /\ UNCHANGED <<slots, active, turn, paused, constraint, removed, leases, batches, lastOp>>

-----------------------------------------------------------------------------
(* Batch protocol *)

\* What mark_started answers the owner of batch b.
StartResult(b) ==
    LET s == batches[b].slot IN
    IF IsCurrent(b)
    THEN IF paused[s] \/ constraint[s] # "Ready" THEN "CancelImmediately" ELSE "Accepted"
    ELSE IF \A i \in batches[b].members : intents[i].state = "Cancelled"
         THEN "CancelImmediately" ELSE "StaleOwner"

\* Mutant: a late start takes its slot back.
MarkStartedReclaims(b) ==
    /\ intents' = Moved(batches[b].members, "Running", b)
    /\ active' = [active EXCEPT ![batches[b].slot] = b]
    /\ turn' = [turn EXCEPT ![batches[b].slot] = TRUE]
    /\ UNCHANGED <<slots, queue, paused, constraint, removed, leases, batches, lastOp>>

\* mark_started: only the current batch changes state.
MarkStarted(b) ==
    /\ IsCurrent(b)
    /\ intents' = Moved(batches[b].members, "Running", b)
    /\ turn' = [turn EXCEPT ![batches[b].slot] = TRUE]
    /\ UNCHANGED <<slots, queue, active, paused, constraint, removed, leases, batches, lastOp>>

\* Mutant: the batch is released and its intents are not queued again.
RetryStartForgets(b) ==
    /\ IsCurrent(b)
    /\ intents' = Moved(batches[b].members, "Queued", 0)
    /\ active' = [active EXCEPT ![batches[b].slot] = 0]
    /\ turn' = [turn EXCEPT ![batches[b].slot] = FALSE]
    /\ UNCHANGED <<slots, queue, paused, constraint, removed, leases, batches, lastOp>>

\* retry_start: the batch goes back to the front of its queue.
RetryStart(b) ==
    LET s == batches[b].slot IN
    /\ IsCurrent(b)
    /\ intents' = Moved(batches[b].members, "Queued", 0)
    /\ queue' = [queue EXCEPT ![s][batches[b].priority] = @ \cup batches[b].members]
    /\ active' = [active EXCEPT ![s] = 0]
    /\ turn' = [turn EXCEPT ![s] = FALSE]
    /\ UNCHANGED <<slots, paused, constraint, removed, leases, batches, lastOp>>

\* terminalize_batch: complete_batch, fail_batch and cancel_batch.
TerminalizeBatch(b, st) ==
    LET s == batches[b].slot IN
    /\ IsCurrent(b)
    /\ intents' = Moved(batches[b].members, st, 0)
    /\ active' = [active EXCEPT ![s] = 0]
    /\ turn' = [turn EXCEPT ![s] = FALSE]
    /\ UNCHANGED <<slots, queue, paused, constraint, removed, leases, batches, lastOp>>

-----------------------------------------------------------------------------
(* Cancellation, pause, runtime constraints, removal, stop *)

\* Mutant: only batches that have started.
SlotsStarted(r) ==
    {s \in Slots : turn[s] /\ batches[active[s]].members \cap OfRun(r) # {}}

\* Slots whose active batch holds an intent of run r.
SlotsRunning(r) ==
    {s \in Slots : active[s] # 0 /\ batches[active[s]].members \cap OfRun(r) # {}}

\* cancel_run: the run's share of every active batch is cancelled and the rest
\* of that batch is queued again; its queued intents and leases are dropped.
CancelRun(r) ==
    LET hit    == SlotsRunning(r)
        held   == {i \in DOMAIN intents : \E s \in hit : i \in batches[active[s]].members}
        back   == held \ OfRun(r)
        dead   == (held \cap OfRun(r)) \cup {i \in OfRun(r) : intents[i].state = "Queued"}
    IN  /\ intents' = [i \in DOMAIN intents |->
             IF i \in dead THEN InState(intents[i], "Cancelled", 0)
             ELSE IF i \in back THEN InState(intents[i], "Queued", 0)
             ELSE intents[i]]
        /\ queue' = [s \in Slots |-> [p \in Priorities |->
             (queue[s][p] \ dead) \cup
             {i \in back : intents[i].slot = s /\ Priority(intents[i].source) = p}]]
        /\ active' = [s \in Slots |-> IF s \in hit THEN 0 ELSE active[s]]
        /\ turn' = [s \in Slots |-> IF s \in hit THEN FALSE ELSE turn[s]]
        /\ leases' = {l \in leases : l.run # r}
        /\ UNCHANGED <<slots, paused, constraint, removed, batches, lastOp>>

\* pause_slot: the active batch is only reported; its owner cancels it later.
PauseSlot(s) ==
    /\ slots' = slots \cup {s}
    /\ paused' = [paused EXCEPT ![s] = TRUE]
    /\ UNCHANGED <<queue, active, turn, constraint, removed, intents, leases, batches, lastOp>>

\* set_runtime_constraint: Failed fails the work of runs and queues the rest
\* again; SessionStopped cancels everything; the others only set the field.
SetRuntimeConstraint(s, c) ==
    /\ slots' = slots \cup {s}
    /\ constraint' = [constraint EXCEPT ![s] = c]
    /\ \/ /\ c \notin {"Failed", "SessionStopped"}
          /\ UNCHANGED <<intents, queue, active, turn>>
       \/ /\ c \in {"Failed", "SessionStopped"}
          /\ LET back == {i \in LiveOf(s) : c = "Failed" /\ intents[i].run = NoRun}
                 end  == IF c = "Failed" THEN "Failed" ELSE "Cancelled"
             IN  /\ intents' = [i \in DOMAIN intents |->
                      IF i \in back THEN InState(intents[i], "Queued", 0)
                      ELSE IF i \in LiveOf(s) THEN InState(intents[i], end, 0)
                      ELSE intents[i]]
                 /\ queue' = [queue EXCEPT ![s] = [p \in Priorities |->
                      {i \in back : Priority(intents[i].source) = p}]]
          /\ active' = [active EXCEPT ![s] = 0]
          /\ turn' = [turn EXCEPT ![s] = FALSE]
    /\ UNCHANGED <<paused, removed, leases, batches, lastOp>>

\* The runs whose summary set_runtime_constraint or remove_slot publishes.
RunsOf(S) == {intents[i].run : i \in S} \ {NoRun}

\* Mutant: the queues of the slot are thrown away instead of emptied.
RemoveSlotDropsQueues(s) ==
    /\ intents' = Moved(LiveOf(s), "Cancelled", 0)
    /\ queue' = [queue EXCEPT ![s] = [p \in {} |-> {}]]
    /\ active' = [active EXCEPT ![s] = 0]
    /\ turn' = [turn EXCEPT ![s] = FALSE]
    /\ removed' = [removed EXCEPT ![s] = TRUE]
    /\ UNCHANGED <<slots, paused, constraint, leases, batches, lastOp>>

\* remove_slot: everything placed in the slot, and every other live intent of
\* it, is cancelled; a slot without an entry is not marked removed.
RemoveSlot(s) ==
    LET placed == {i \in DOMAIN intents :
                     \/ \E p \in Priorities : i \in queue[s][p]
                     \/ active[s] # 0 /\ i \in batches[active[s]].members}
    IN  /\ intents' = Moved(placed \cup LiveOf(s), "Cancelled", 0)
        /\ queue' = [queue EXCEPT ![s] = EmptyQueues]
        /\ active' = [active EXCEPT ![s] = 0]
        /\ turn' = [turn EXCEPT ![s] = FALSE]
        /\ removed' = [removed EXCEPT ![s] = @ \/ s \in slots]
        /\ UNCHANGED <<slots, paused, constraint, leases, batches, lastOp>>

\* stop: slots without an entry are left as they are.
Stop ==
    /\ intents' = Moved({i \in DOMAIN intents : Live(i)}, "Cancelled", 0)
    /\ queue' = [s \in Slots |-> IF s \in slots THEN EmptyQueues ELSE queue[s]]
    /\ active' = [s \in Slots |-> IF s \in slots THEN 0 ELSE active[s]]
    /\ turn' = [s \in Slots |-> turn[s] /\ s \notin slots]
    /\ constraint' = [s \in Slots |-> IF s \in slots THEN "SessionStopped" ELSE constraint[s]]
    /\ leases' = {}
    /\ UNCHANGED <<slots, paused, removed, batches, lastOp>>

-----------------------------------------------------------------------------

\* The causal binding of a lease resolves to no run, to FirstRun of a caller's
\* slot, or to the run manager's answer; on its own the coordinator cannot tell
\* which run ids those are, so every run is possible.
Next ==
    \/ \E id \in LeaseIds, s \in Slots, source \in Sources, run \in Runs \cup {NoRun} :
          AcquireEnqueue(id, s, source, run)
    \/ \E l \in leases, m \in Messages \cup {NoMsg} : CommitEnqueue(l, m)
    \/ \E l \in leases : AbortEnqueue(l)
    \/ \E s \in Slots, unread \in SUBSET Messages : ReconcileMailbox(s, unread)
    \/ \E s \in Slots : ClaimNext(s)
    \/ \E s \in Slots : \E signals \in SUBSET QueuedSignals(s) :
          signals # {} /\ CompleteSignals(s, signals)
    \/ \E b \in DOMAIN batches : MarkStarted(b)
    \/ \E b \in DOMAIN batches : RetryStart(b)
    \/ \E b \in DOMAIN batches, st \in Terminal : TerminalizeBatch(b, st)
    \/ \E r \in Runs : CancelRun(r)
    \/ \E s \in Slots : PauseSlot(s)
    \/ \E s \in Slots, c \in ConstraintInputs : SetRuntimeConstraint(s, c)
    \/ \E s \in Slots : RemoveSlot(s)
    \/ Stop

Spec == Init /\ [][Next]_vars

-----------------------------------------------------------------------------
(* Properties *)

\* Every variable of the coordinator has the shape its Rust type gives it.
TypeOK ==
    /\ slots \subseteq Slots
    /\ queue \in [Slots -> [Priorities -> SUBSET Ids]]
    /\ active \in [Slots -> 0..MaxOps]
    /\ turn \in [Slots -> BOOLEAN]
    /\ paused \in [Slots -> BOOLEAN]
    /\ constraint \in [Slots -> Constraints]
    /\ removed \in [Slots -> BOOLEAN]
    /\ DOMAIN intents \subseteq Ids
    /\ intents \in [DOMAIN intents -> Intent]
    /\ leases \subseteq Lease
    /\ lastOp \in 0..MaxOps
    /\ batches \in [1..lastOp -> Batch]

\* Every queue holds exactly the queued intents of its slot and priority, so
\* requeueing (retry_start, cancel_run, a failed runtime) never loses a piece
\* of work and never queues it twice.
QueuesMatchIntents ==
    \A s \in Slots, p \in Priorities :
        /\ queue[s][p] \subseteq DOMAIN intents
        /\ \A i \in DOMAIN intents :
             i \in queue[s][p] <=> /\ intents[i].slot = s
                                  /\ Priority(intents[i].source) = p
                                  /\ intents[i].state = "Queued"

BusyIn(i, s) == intents[i].slot = s /\ intents[i].state \in {"Starting", "Running"}

OwnsItsWork(s) ==
    /\ active[s] = 0 => ~turn[s] /\ \A i \in DOMAIN intents : ~BusyIn(i, s)
    /\ active[s] # 0 =>
         /\ active[s] \in DOMAIN batches
         /\ batches[active[s]].slot = s
         /\ batches[active[s]].members \subseteq DOMAIN intents
         /\ \A i \in DOMAIN intents :
              /\ BusyIn(i, s) <=> i \in batches[active[s]].members
              /\ BusyIn(i, s) =>
                   /\ Priority(intents[i].source) = batches[active[s]].priority
                   /\ intents[i].batch = active[s]
                   /\ intents[i].state = (IF turn[s] THEN "Running" ELSE "Starting")

\* The starting and running intents of a slot are exactly the members of its
\* one active batch, they name that batch, and they are running if and only if
\* the turn of the batch has been recorded by mark_started.
ActiveBatchOwnsRunningWork == \A s \in Slots : OwnsItsWork(s)

\* A slot that cannot run (runtime failed, session stopped, slot removed) never
\* holds live work of a run, whatever leases were handed out before it closed:
\* a run never waits for work nobody will execute.
ClosedSlotsHoldNoRunWork ==
    \A s \in Slots :
        removed[s] \/ constraint[s] \in {"Failed", "SessionStopped"}
            => \A i \in LiveOf(s) : intents[i].run = NoRun

\* A completed, failed or cancelled intent never changes again: late results of
\* a batch that was cancelled, failed or removed meanwhile are rejected.
TerminalIsFinal ==
    [][\A i \in DOMAIN intents :
          intents[i].state \in Terminal => i \in DOMAIN intents' /\ intents'[i] = intents[i]]_vars

\* A batch that lost its slot never becomes the active batch again.
LostOwnershipIsFinal ==
    [][\A s \in Slots : active'[s] # active[s] => active'[s] \notin DOMAIN batches]_vars

\* cancel_run leaves neither live work nor a lease of the cancelled run in any
\* slot, and ends no work of any other run.
CancelRunIsExact ==
    [][\A r \in Runs : CancelRun(r) =>
          /\ \A l \in leases' : l.run # r
          /\ \A i \in DOMAIN intents :
               Live(i) => (Live(i)' <=> intents[i].run # r)]_vars

=============================================================================
