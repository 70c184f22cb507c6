--------------------------- MODULE SlotWorkProofs ---------------------------
(***************************************************************************)
(* Proofs about SlotWork, for every number of slots, runs, messages and    *)
(* leases and every bound.                                                 *)
(***************************************************************************)
EXTENDS SlotWork, TLAPS

\* Intents and active batches only ever belong to slots the coordinator has an
\* entry for, so stop(), which walks the entries, misses none.
IntentsInKnownSlots ==
    /\ \A i \in DOMAIN intents : intents[i].slot \in slots
    /\ \A s \in Slots : active[s] # 0 => s \in slots

\* The inductive invariant.
IInv == /\ TypeOK
        /\ QueuesMatchIntents
        /\ ActiveBatchOwnsRunningWork
        /\ IntentsInKnownSlots
        /\ ClosedSlotsHoldNoRunWork

-----------------------------------------------------------------------------
(* Facts about the operators *)

\* Every source has one of the three priorities.
LEMMA PriorityType == ASSUME NEW src PROVE Priority(src) \in Priorities
  BY DEF Priority, Priorities

\* What Moved changes and what it leaves alone.
LEMMA MovedFacts ==
  ASSUME TypeOK, NEW S, NEW st \in IntentState, NEW b \in 0..MaxOps
  PROVE  /\ Moved(S, st, b) \in [DOMAIN intents -> Intent]
         /\ DOMAIN Moved(S, st, b) = DOMAIN intents
         /\ \A i \in DOMAIN intents :
              /\ Moved(S, st, b)[i].slot = intents[i].slot
              /\ Moved(S, st, b)[i].source = intents[i].source
              /\ Moved(S, st, b)[i].msg = intents[i].msg
              /\ Moved(S, st, b)[i].run = intents[i].run
              /\ i \in S => /\ Moved(S, st, b)[i].state = st
                            /\ Moved(S, st, b)[i].batch = b
              /\ i \notin S => Moved(S, st, b)[i] = intents[i]
  <1>1. \A i \in DOMAIN intents : intents[i] \in Intent
    BY DEF TypeOK
  <1>. QED
    BY <1>1 DEF Moved, InState, Intent

\* A step that leaves a slot's active batch and its busy intents alone keeps
\* the slot consistent.
LEMMA SlotFrame ==
  ASSUME IInv, NEW t \in Slots,
         active'[t] = active[t], turn'[t] = turn[t],
         \A b \in DOMAIN batches : b \in DOMAIN batches' /\ batches'[b] = batches[b],
         DOMAIN intents \subseteq DOMAIN intents',
         \A i \in DOMAIN intents : BusyIn(i, t) \/ BusyIn(i, t)' => intents'[i] = intents[i],
         \A i \in DOMAIN intents' : i \notin DOMAIN intents => ~BusyIn(i, t)'
  PROVE  OwnsItsWork(t)'
  <1>1. OwnsItsWork(t)
    BY DEF IInv, ActiveBatchOwnsRunningWork
  <1>2. \A i \in DOMAIN intents : BusyIn(i, t)' <=> BusyIn(i, t)
    BY DEF BusyIn
  <1>3. CASE active[t] = 0
    BY <1>1, <1>2, <1>3 DEF OwnsItsWork
  <1>4. CASE active[t] # 0
    <2>. DEFINE B == batches[active[t]]
    <2>1. active'[t] \in DOMAIN batches' /\ batches'[active'[t]] = B
      BY <1>1, <1>4 DEF OwnsItsWork
    <2>2. B.slot = t /\ B.members \subseteq DOMAIN intents
      BY <1>1, <1>4 DEF OwnsItsWork
    <2>3. \A i \in DOMAIN intents' :
            /\ BusyIn(i, t)' <=> i \in B.members
            /\ BusyIn(i, t)' =>
                 /\ Priority(intents'[i].source) = B.priority
                 /\ intents'[i].batch = active'[t]
                 /\ intents'[i].state = (IF turn'[t] THEN "Running" ELSE "Starting")
      BY <1>1, <1>2, <1>4, <2>2 DEF OwnsItsWork
    <2>. QED BY <1>4, <2>1, <2>2, <2>3 DEF OwnsItsWork
  <1>. QED BY <1>3, <1>4

\* A step that leaves a slot without an active batch and without busy intents
\* keeps the slot consistent.
LEMMA SlotIdle ==
  ASSUME NEW t \in Slots, active'[t] = 0, ~turn'[t],
         \A i \in DOMAIN intents' : ~BusyIn(i, t)'
  PROVE  OwnsItsWork(t)'
  BY DEF OwnsItsWork

-----------------------------------------------------------------------------
(* Each action preserves the inductive invariant *)

\* A lease can only be added to a slot that accepts work; no intent changes.
LEMMA AcquireEnqueueInv ==
  ASSUME IInv, NEW id \in LeaseIds, NEW s \in Slots, NEW source \in Sources,
         NEW run \in Runs \cup {NoRun}, AcquireEnqueue(id, s, source, run)
  PROVE  IInv'
  <1>1. TypeOK'
    BY SlotWorkAssumption DEF IInv, TypeOK, AcquireEnqueue, Lease
  <1>2. QueuesMatchIntents' /\ ActiveBatchOwnsRunningWork' /\ ClosedSlotsHoldNoRunWork'
    BY DEF IInv, QueuesMatchIntents, BusyIn, ActiveBatchOwnsRunningWork, OwnsItsWork, BusyIn, ClosedSlotsHoldNoRunWork,
           LiveOf, Live, AcquireEnqueue
  <1>3. IntentsInKnownSlots'
    BY DEF IInv, IntentsInKnownSlots, AcquireEnqueue
  <1>. QED BY <1>1, <1>2, <1>3 DEF IInv

\* A committed intent enters exactly one queue, and only of an open slot.
LEMMA CommitEnqueueInv ==
  ASSUME IInv, NEW l \in leases, NEW m \in Messages \cup {NoMsg}, CommitEnqueue(l, m)
  PROVE  IInv'
  <1>. DEFINE new(i) == [slot |-> l.slot, source |-> l.source, msg |-> m,
                         run |-> l.run, state |-> "Queued", batch |-> 0]
  <1>1. PICK i \in Ids :
          /\ i \notin DOMAIN intents
          /\ intents' = [j \in DOMAIN intents \cup {i} |-> IF j = i THEN new(i) ELSE intents[j]]
          /\ queue' = [queue EXCEPT ![l.slot][Priority(l.source)] = @ \cup {i}]
    BY DEF CommitEnqueue, Fresh
  <1>2. l \in Lease /\ AcceptsEnqueue(l.slot) /\ l.slot \in slots
    BY DEF IInv, TypeOK, CommitEnqueue
  <1>3. new(i) \in Intent
    BY <1>2, SlotWorkAssumption DEF Lease, Intent, IntentState
  <1>4. l.slot \in Slots /\ Priority(l.source) \in Priorities
    BY <1>2, PriorityType DEF Lease
  <1>5. /\ DOMAIN intents' = DOMAIN intents \cup {i}
        /\ intents'[i] = new(i)
        /\ \A j \in DOMAIN intents : intents'[j] = intents[j] /\ j # i
    BY <1>1
  <1>6. TypeOK'
    <2>1. intents' \in [DOMAIN intents' -> Intent] /\ DOMAIN intents' \subseteq Ids
      BY <1>1, <1>3, <1>5 DEF IInv, TypeOK
    <2>2. queue' \in [Slots -> [Priorities -> SUBSET Ids]]
      BY <1>1, <1>4 DEF IInv, TypeOK
    <2>3. paused' \in [Slots -> BOOLEAN]
      BY <1>4 DEF IInv, TypeOK, CommitEnqueue
    <2>. QED BY <2>1, <2>2, <2>3 DEF IInv, TypeOK, CommitEnqueue
  <1>7. QueuesMatchIntents'
    <2>. SUFFICES ASSUME NEW s \in Slots, NEW p \in Priorities
                  PROVE  /\ queue'[s][p] \subseteq DOMAIN intents'
                         /\ \A j \in DOMAIN intents' :
                              j \in queue'[s][p] <=> /\ intents'[j].slot = s
                                                     /\ Priority(intents'[j].source) = p
                                                     /\ intents'[j].state = "Queued"
      BY DEF QueuesMatchIntents
    <2>1. queue'[s][p] = IF s = l.slot /\ p = Priority(l.source)
                         THEN queue[s][p] \cup {i} ELSE queue[s][p]
      BY <1>1, <1>4 DEF IInv, TypeOK
    <2>. QED BY <2>1, <1>5 DEF IInv, QueuesMatchIntents, BusyIn
  <1>8. ActiveBatchOwnsRunningWork'
    BY <1>5 DEF IInv, ActiveBatchOwnsRunningWork, OwnsItsWork, BusyIn, CommitEnqueue
  <1>9. IntentsInKnownSlots'
    BY <1>2, <1>5 DEF IInv, IntentsInKnownSlots, CommitEnqueue
  <1>10. ClosedSlotsHoldNoRunWork'
    BY <1>2, <1>5 DEF IInv, ClosedSlotsHoldNoRunWork, LiveOf, Live, AcceptsEnqueue, CommitEnqueue
  <1>. QED BY <1>6, <1>7, <1>8, <1>9, <1>10 DEF IInv

\* Dropping a lease touches no slot and no intent.
LEMMA AbortEnqueueInv ==
  ASSUME IInv, NEW l \in leases, AbortEnqueue(l)
  PROVE  IInv'
  BY DEF IInv, TypeOK, QueuesMatchIntents, ActiveBatchOwnsRunningWork, OwnsItsWork, BusyIn, IntentsInKnownSlots,
         ClosedSlotsHoldNoRunWork, LiveOf, Live, AbortEnqueue, slotVars

\* Pausing leaves queues and the active batch alone.
LEMMA PauseSlotInv ==
  ASSUME IInv, NEW s \in Slots, PauseSlot(s)
  PROVE  IInv'
  BY DEF IInv, TypeOK, QueuesMatchIntents, ActiveBatchOwnsRunningWork, OwnsItsWork, BusyIn, IntentsInKnownSlots,
         ClosedSlotsHoldNoRunWork, LiveOf, Live, PauseSlot

\* Moving members of a slot's active batch out of it: what TerminalizeBatch,
\* RetryStart and MarkStarted have in common.
LEMMA CurrentBatchFacts ==
  ASSUME IInv, NEW b \in DOMAIN batches, IsCurrent(b)
  PROVE  /\ b \in 1..MaxOps
         /\ batches[b].slot \in Slots
         /\ batches[b].priority \in Priorities
         /\ active[batches[b].slot] = b
         /\ batches[b].members \subseteq DOMAIN intents
         /\ \A i \in DOMAIN intents : i \in batches[b].members <=> BusyIn(i, batches[b].slot)
         /\ \A i \in batches[b].members :
               Priority(intents[i].source) = batches[b].priority
  <1>1. b \in 1..MaxOps /\ batches[b] \in Batch
    BY SlotWorkAssumption DEF IInv, TypeOK
  <1>2. batches[b].slot \in Slots /\ batches[b].priority \in Priorities
    BY <1>1 DEF Batch
  <1>3. active[batches[b].slot] = b /\ b # 0
    BY <1>1, SlotWorkAssumption DEF IsCurrent
  <1>. QED BY <1>1, <1>2, <1>3 DEF IInv, ActiveBatchOwnsRunningWork, OwnsItsWork

\* Starting the current batch moves exactly its members to Running.
LEMMA MarkStartedInv ==
  ASSUME IInv, NEW b \in DOMAIN batches, MarkStarted(b)
  PROVE  IInv'
  <1>. DEFINE s == batches[b].slot
              M == batches[b].members
  <1>1. IsCurrent(b) /\ intents' = Moved(M, "Running", b)
    BY DEF MarkStarted
  <1>2. /\ b \in 1..MaxOps /\ s \in Slots /\ active[s] = b
        /\ M \subseteq DOMAIN intents
        /\ \A i \in DOMAIN intents : i \in M <=> BusyIn(i, s)
    BY <1>1, CurrentBatchFacts DEF BusyIn
  <1>3. b \in 0..MaxOps /\ b # 0
    BY <1>2, SlotWorkAssumption
  <1>4. /\ intents' \in [DOMAIN intents -> Intent]
        /\ DOMAIN intents' = DOMAIN intents
        /\ \A i \in DOMAIN intents :
             /\ intents'[i].slot = intents[i].slot
             /\ intents'[i].source = intents[i].source
             /\ intents'[i].run = intents[i].run
             /\ i \in M => intents'[i].state = "Running" /\ intents'[i].batch = b
             /\ i \notin M => intents'[i] = intents[i]
    BY <1>1, <1>3, MovedFacts DEF IInv, IntentState
  <1>5. TypeOK'
    BY <1>2, <1>4 DEF IInv, TypeOK, MarkStarted
  <1>6. QueuesMatchIntents'
    BY <1>2, <1>4 DEF IInv, QueuesMatchIntents, BusyIn, MarkStarted
  <1>7. ActiveBatchOwnsRunningWork'
    <2>1. active' = active /\ batches' = batches /\ turn' = [turn EXCEPT ![s] = TRUE]
      BY DEF MarkStarted
    <2>2. \A t \in Slots : turn'[t] = IF t = s THEN TRUE ELSE turn[t]
      BY <1>2, <2>1 DEF IInv, TypeOK
    <2>3. \A i \in DOMAIN intents, t \in Slots : BusyIn(i, t)' <=> BusyIn(i, t)
      BY <1>2, <1>4 DEF BusyIn
    <2>4. ASSUME NEW t \in Slots, t # s PROVE OwnsItsWork(t)'
      <3>1. \A i \in DOMAIN intents : BusyIn(i, t) \/ BusyIn(i, t)' => intents'[i] = intents[i]
        BY <1>2, <1>4, <2>3, <2>4 DEF BusyIn
      <3>. QED BY <1>4, <2>1, <2>2, <2>4, <3>1, SlotFrame
    <2>5. ASSUME NEW t \in Slots, t = s PROVE OwnsItsWork(t)'
      <3>1. OwnsItsWork(t) /\ active[t] = b
        BY <1>2, <2>5 DEF IInv, ActiveBatchOwnsRunningWork
      <3>2. active'[t] = b /\ turn'[t] /\ batches'[b] = batches[b]
        BY <1>2, <2>1, <2>2, <2>5
      <3>3. \A i \in DOMAIN intents :
              /\ BusyIn(i, t)' <=> i \in M
              /\ i \in M => /\ Priority(intents'[i].source) = batches[b].priority
                            /\ intents'[i].batch = b /\ intents'[i].state = "Running"
        BY <1>2, <1>3, <1>4, <2>3, <2>5, <3>1 DEF OwnsItsWork
      <3>. QED BY <1>2, <1>3, <1>4, <2>1, <2>5, <3>2, <3>3 DEF OwnsItsWork
    <2>. QED BY <2>4, <2>5 DEF ActiveBatchOwnsRunningWork
  <1>8. IntentsInKnownSlots'
    BY <1>4 DEF IInv, IntentsInKnownSlots, MarkStarted
  <1>9. ClosedSlotsHoldNoRunWork'
    BY <1>2, <1>4 DEF IInv, ClosedSlotsHoldNoRunWork, LiveOf, Live, Terminal, BusyIn, MarkStarted
  <1>. QED BY <1>5, <1>6, <1>7, <1>8, <1>9 DEF IInv

\* The members of a batch that is given back return to the queue they came from.
LEMMA RetryStartInv ==
  ASSUME IInv, NEW b \in DOMAIN batches, RetryStart(b)
  PROVE  IInv'
  <1>. DEFINE s == batches[b].slot
              M == batches[b].members
  <1>1. /\ IsCurrent(b) /\ intents' = Moved(M, "Queued", 0)
        /\ queue' = [queue EXCEPT ![s][batches[b].priority] = @ \cup M]
        /\ active' = [active EXCEPT ![s] = 0] /\ turn' = [turn EXCEPT ![s] = FALSE]
    BY DEF RetryStart
  <1>2. /\ s \in Slots /\ active[s] = b /\ batches[b].priority \in Priorities
        /\ M \subseteq DOMAIN intents
        /\ \A i \in DOMAIN intents : i \in M <=> BusyIn(i, s)
        /\ \A i \in M : Priority(intents[i].source) = batches[b].priority
    BY <1>1, CurrentBatchFacts DEF BusyIn
  <1>4. /\ intents' \in [DOMAIN intents -> Intent]
        /\ DOMAIN intents' = DOMAIN intents
        /\ \A i \in DOMAIN intents :
             /\ intents'[i].slot = intents[i].slot
             /\ intents'[i].source = intents[i].source
             /\ intents'[i].run = intents[i].run
             /\ i \in M => intents'[i].state = "Queued"
             /\ i \notin M => intents'[i] = intents[i]
    BY <1>1, MovedFacts, SlotWorkAssumption DEF IInv, IntentState
  <1>5. TypeOK'
    <2>1. M \subseteq Ids
      BY <1>2 DEF IInv, TypeOK
    <2>2. queue' \in [Slots -> [Priorities -> SUBSET Ids]]
      BY <1>1, <1>2, <2>1 DEF IInv, TypeOK
    <2>. QED BY <1>1, <1>2, <1>4, <2>2, SlotWorkAssumption DEF IInv, TypeOK, RetryStart
  <1>6. QueuesMatchIntents'
    <2>. SUFFICES ASSUME NEW t \in Slots, NEW p \in Priorities
                  PROVE  /\ queue'[t][p] \subseteq DOMAIN intents'
                         /\ \A j \in DOMAIN intents' :
                              j \in queue'[t][p] <=> /\ intents'[j].slot = t
                                                     /\ Priority(intents'[j].source) = p
                                                     /\ intents'[j].state = "Queued"
      BY DEF QueuesMatchIntents
    <2>1. queue'[t][p] = IF t = s /\ p = batches[b].priority
                         THEN queue[t][p] \cup M ELSE queue[t][p]
      BY <1>1, <1>2 DEF IInv, TypeOK
    <2>. QED BY <1>2, <1>4, <2>1 DEF IInv, QueuesMatchIntents, BusyIn
  <1>7. ActiveBatchOwnsRunningWork'
    <2>1. \A t \in Slots : /\ active'[t] = IF t = s THEN 0 ELSE active[t]
                           /\ turn'[t] = IF t = s THEN FALSE ELSE turn[t]
      BY <1>1, <1>2 DEF IInv, TypeOK
    <2>2. batches' = batches
      BY DEF RetryStart
    <2>3. ASSUME NEW t \in Slots PROVE OwnsItsWork(t)'
      <3>1. CASE t = s
        <4>1. \A i \in DOMAIN intents' : ~BusyIn(i, t)'
          BY <1>2, <1>4, <3>1 DEF BusyIn
        <4>. QED BY <2>1, <3>1, <4>1, SlotIdle
      <3>2. CASE t # s
        <4>1. \A i \in DOMAIN intents : BusyIn(i, t) \/ BusyIn(i, t)' => intents'[i] = intents[i]
          BY <1>2, <1>4, <3>2 DEF BusyIn
        <4>. QED BY <1>4, <2>1, <2>2, <3>2, <4>1, SlotFrame
      <3>. QED BY <3>1, <3>2
    <2>. QED BY <2>3 DEF ActiveBatchOwnsRunningWork
  <1>8. IntentsInKnownSlots'
    BY <1>1, <1>4 DEF IInv, TypeOK, IntentsInKnownSlots, RetryStart
  <1>9. ClosedSlotsHoldNoRunWork'
    BY <1>2, <1>4 DEF IInv, ClosedSlotsHoldNoRunWork, LiveOf, Live, Terminal, BusyIn, RetryStart
  <1>. QED BY <1>5, <1>6, <1>7, <1>8, <1>9 DEF IInv

\* Ending a batch ends exactly the busy work of its slot.
LEMMA TerminalizeBatchInv ==
  ASSUME IInv, NEW b \in DOMAIN batches, NEW st \in Terminal, TerminalizeBatch(b, st)
  PROVE  IInv'
  <1>. DEFINE s == batches[b].slot
              M == batches[b].members
  <1>1. /\ IsCurrent(b) /\ intents' = Moved(M, st, 0)
        /\ active' = [active EXCEPT ![s] = 0] /\ turn' = [turn EXCEPT ![s] = FALSE]
    BY DEF TerminalizeBatch
  <1>2. /\ s \in Slots /\ active[s] = b
        /\ M \subseteq DOMAIN intents
        /\ \A i \in DOMAIN intents : i \in M <=> BusyIn(i, s)
    BY <1>1, CurrentBatchFacts DEF BusyIn
  <1>4. /\ intents' \in [DOMAIN intents -> Intent]
        /\ DOMAIN intents' = DOMAIN intents
        /\ \A i \in DOMAIN intents :
             /\ intents'[i].slot = intents[i].slot
             /\ intents'[i].source = intents[i].source
             /\ intents'[i].run = intents[i].run
             /\ i \in M => intents'[i].state = st
             /\ i \notin M => intents'[i] = intents[i]
    <2>1. st \in IntentState /\ 0 \in 0..MaxOps
      BY SlotWorkAssumption DEF IntentState
    <2>. QED BY <1>1, <2>1, MovedFacts DEF IInv
  <1>5. TypeOK'
    BY <1>1, <1>2, <1>4, SlotWorkAssumption DEF IInv, TypeOK, TerminalizeBatch
  <1>6. QueuesMatchIntents'
    BY <1>2, <1>4 DEF IInv, QueuesMatchIntents, BusyIn, Terminal, TerminalizeBatch
  <1>7. ActiveBatchOwnsRunningWork'
    <2>1. \A t \in Slots : /\ active'[t] = IF t = s THEN 0 ELSE active[t]
                           /\ turn'[t] = IF t = s THEN FALSE ELSE turn[t]
      BY <1>1, <1>2 DEF IInv, TypeOK
    <2>2. batches' = batches
      BY DEF TerminalizeBatch
    <2>3. ASSUME NEW t \in Slots PROVE OwnsItsWork(t)'
      <3>1. CASE t = s
        <4>1. \A i \in DOMAIN intents' : ~BusyIn(i, t)'
          BY <1>2, <1>4, <3>1 DEF BusyIn, Terminal
        <4>. QED BY <2>1, <3>1, <4>1, SlotIdle
      <3>2. CASE t # s
        <4>1. \A i \in DOMAIN intents : BusyIn(i, t) \/ BusyIn(i, t)' => intents'[i] = intents[i]
          BY <1>2, <1>4, <3>2 DEF BusyIn
        <4>. QED BY <1>4, <2>1, <2>2, <3>2, <4>1, SlotFrame
      <3>. QED BY <3>1, <3>2
    <2>. QED BY <2>3 DEF ActiveBatchOwnsRunningWork
  <1>8. IntentsInKnownSlots'
    BY <1>1, <1>4 DEF IInv, TypeOK, IntentsInKnownSlots, TerminalizeBatch
  <1>9. ClosedSlotsHoldNoRunWork'
    BY <1>2, <1>4 DEF IInv, ClosedSlotsHoldNoRunWork, LiveOf, Live, Terminal, BusyIn, TerminalizeBatch
  <1>. QED BY <1>5, <1>6, <1>7, <1>8, <1>9 DEF IInv

\* A claimed batch takes its members out of one queue of an idle slot.
LEMMA ClaimNextInv ==
  ASSUME IInv, NEW s \in Slots, ClaimNext(s)
  PROVE  IInv'
  <1>. DEFINE o == lastOp + 1
  <1>1. PICK p \in Priorities :
          /\ MessageIntents(s, p) # {}
          /\ batches' = [b \in DOMAIN batches \cup {o} |->
               IF b = o THEN [slot |-> s, members |-> MessageIntents(s, p), priority |-> p]
               ELSE batches[b]]
          /\ intents' = Moved(MessageIntents(s, p), "Starting", o)
          /\ queue' = [queue EXCEPT ![s][p] = @ \ MessageIntents(s, p)]
    BY DEF ClaimNext
  <1>. DEFINE M == MessageIntents(s, p)
  <1>2. /\ MayClaim(s) /\ lastOp < MaxOps /\ lastOp' = o
        /\ active' = [active EXCEPT ![s] = o] /\ turn' = [turn EXCEPT ![s] = FALSE]
    BY DEF ClaimNext
  <1>3. /\ lastOp \in Nat /\ o \in 1..MaxOps /\ o \in 0..MaxOps /\ o # 0
        /\ o \notin DOMAIN batches /\ DOMAIN batches = 1..lastOp /\ DOMAIN batches \cup {o} = 1..o
    BY <1>2, SlotWorkAssumption DEF IInv, TypeOK
  <1>4. /\ M \subseteq DOMAIN intents
        /\ \A i \in M : /\ intents[i].slot = s /\ intents[i].state = "Queued"
                        /\ Priority(intents[i].source) = p
    BY DEF IInv, QueuesMatchIntents, MessageIntents
  <1>5. /\ intents' \in [DOMAIN intents -> Intent]
        /\ DOMAIN intents' = DOMAIN intents
        /\ \A i \in DOMAIN intents :
             /\ intents'[i].slot = intents[i].slot
             /\ intents'[i].source = intents[i].source
             /\ intents'[i].run = intents[i].run
             /\ i \in M => intents'[i].state = "Starting" /\ intents'[i].batch = o
             /\ i \notin M => intents'[i] = intents[i]
    <2>1. "Starting" \in IntentState
      BY DEF IntentState
    <2>2. intents' = Moved(M, "Starting", o)
      BY <1>1
    <2>. HIDE DEF M, o
    <2>. QED BY <1>3, <2>1, <2>2, MovedFacts DEF IInv
  <1>6. /\ DOMAIN batches' = DOMAIN batches \cup {o}
        /\ batches'[o] = [slot |-> s, members |-> M, priority |-> p]
        /\ \A b \in DOMAIN batches : batches'[b] = batches[b]
    BY <1>1, <1>3
  <1>7. TypeOK'
    <2>1. [slot |-> s, members |-> M, priority |-> p] \in Batch
      BY <1>4 DEF IInv, TypeOK, Batch
    <2>2. \A b \in DOMAIN batches : batches[b] \in Batch
      BY DEF IInv, TypeOK
    <2>3. batches' \in [1..lastOp' -> Batch]
      BY <1>1, <1>2, <1>3, <2>1, <2>2
    <2>4. queue' \in [Slots -> [Priorities -> SUBSET Ids]]
      BY <1>1 DEF IInv, TypeOK
    <2>5. lastOp' \in 0..MaxOps
      BY <1>2, <1>3
    <2>. QED BY <1>2, <1>3, <1>5, <2>3, <2>4, <2>5 DEF IInv, TypeOK, ClaimNext
  <1>8. QueuesMatchIntents'
    <2>. SUFFICES ASSUME NEW t \in Slots, NEW q \in Priorities
                  PROVE  /\ queue'[t][q] \subseteq DOMAIN intents'
                         /\ \A j \in DOMAIN intents' :
                              j \in queue'[t][q] <=> /\ intents'[j].slot = t
                                                     /\ Priority(intents'[j].source) = q
                                                     /\ intents'[j].state = "Queued"
      BY DEF QueuesMatchIntents
    <2>1. queue'[t][q] = IF t = s /\ q = p THEN queue[t][q] \ M ELSE queue[t][q]
      BY <1>1 DEF IInv, TypeOK
    <2>. QED BY <1>4, <1>5, <2>1 DEF IInv, QueuesMatchIntents
  <1>9. ActiveBatchOwnsRunningWork'
    <2>1. \A t \in Slots : /\ active'[t] = IF t = s THEN o ELSE active[t]
                           /\ turn'[t] = IF t = s THEN FALSE ELSE turn[t]
      BY <1>2 DEF IInv, TypeOK
    <2>2. ASSUME NEW t \in Slots, t # s PROVE OwnsItsWork(t)'
      <3>1. \A i \in DOMAIN intents : BusyIn(i, t) \/ BusyIn(i, t)' => intents'[i] = intents[i]
        BY <1>4, <1>5, <2>2 DEF BusyIn
      <3>. QED BY <1>5, <1>6, <2>1, <2>2, <3>1, SlotFrame
    <2>3. OwnsItsWork(s)'
      <3>1. \A i \in DOMAIN intents : ~BusyIn(i, s)
        BY <1>2 DEF IInv, ActiveBatchOwnsRunningWork, OwnsItsWork, MayClaim
      <3>2. \A i \in DOMAIN intents : BusyIn(i, s)' <=> i \in M
        BY <1>4, <1>5, <3>1 DEF BusyIn
      <3>3. active'[s] = o /\ ~turn'[s]
        BY <2>1
      <3>. QED BY <1>3, <1>4, <1>5, <1>6, <3>2, <3>3 DEF OwnsItsWork
    <2>. QED BY <2>2, <2>3 DEF ActiveBatchOwnsRunningWork
  <1>10. IntentsInKnownSlots'
    <2>1. slots' = slots /\ s \in slots
      BY <1>2 DEF ClaimNext, MayClaim
    <2>2. \A t \in Slots : t # s => active'[t] = active[t]
      BY <1>2 DEF IInv, TypeOK
    <2>. QED BY <1>5, <2>1, <2>2 DEF IInv, IntentsInKnownSlots
  <1>11. ClosedSlotsHoldNoRunWork'
    BY <1>4, <1>5 DEF IInv, ClosedSlotsHoldNoRunWork, LiveOf, Live, Terminal, ClaimNext
  <1>. QED BY <1>7, <1>8, <1>9, <1>10, <1>11 DEF IInv

\* Settled signals leave the queues of their slot.
LEMMA CompleteSignalsInv ==
  ASSUME IInv, NEW s \in Slots, NEW S \in SUBSET QueuedSignals(s), CompleteSignals(s, S)
  PROVE  IInv'
  <1>1. /\ intents' = Moved(S, "Completed", 0)
        /\ queue' = [queue EXCEPT ![s] = [p \in Priorities |-> queue[s][p] \ S]]
    BY DEF CompleteSignals, IInv, TypeOK
  <1>2. \A i \in S : i \in DOMAIN intents /\ intents[i].slot = s /\ intents[i].state = "Queued"
    BY DEF QueuedSignals
  <1>3. /\ intents' \in [DOMAIN intents -> Intent]
        /\ DOMAIN intents' = DOMAIN intents
        /\ \A i \in DOMAIN intents :
             /\ intents'[i].slot = intents[i].slot
             /\ intents'[i].source = intents[i].source
             /\ intents'[i].run = intents[i].run
             /\ i \in S => intents'[i].state = "Completed"
             /\ i \notin S => intents'[i] = intents[i]
    <2>1. "Completed" \in IntentState /\ 0 \in 0..MaxOps
      BY SlotWorkAssumption DEF IntentState, Terminal
    <2>. QED BY <1>1, <2>1, MovedFacts DEF IInv
  <1>4. \A t \in Slots, q \in Priorities :
          queue'[t][q] = IF t = s THEN queue[t][q] \ S ELSE queue[t][q]
    BY <1>1 DEF IInv, TypeOK
  <1>5. TypeOK'
    <2>1. queue' \in [Slots -> [Priorities -> SUBSET Ids]]
      BY <1>1 DEF IInv, TypeOK
    <2>. QED BY <1>3, <2>1 DEF IInv, TypeOK, CompleteSignals
  <1>6. QueuesMatchIntents'
    <2>. SUFFICES ASSUME NEW t \in Slots, NEW q \in Priorities
                  PROVE  /\ queue'[t][q] \subseteq DOMAIN intents'
                         /\ \A j \in DOMAIN intents' :
                              j \in queue'[t][q] <=> /\ intents'[j].slot = t
                                                     /\ Priority(intents'[j].source) = q
                                                     /\ intents'[j].state = "Queued"
      BY DEF QueuesMatchIntents
    <2>1. queue'[t][q] = IF t = s THEN queue[t][q] \ S ELSE queue[t][q]
      BY <1>4
    <2>. QED BY <1>2, <1>3, <2>1 DEF IInv, QueuesMatchIntents
  <1>7. ActiveBatchOwnsRunningWork'
    <2>1. ASSUME NEW t \in Slots PROVE OwnsItsWork(t)'
      <3>1. \A i \in DOMAIN intents : BusyIn(i, t) \/ BusyIn(i, t)' => intents'[i] = intents[i]
        BY <1>2, <1>3 DEF BusyIn
      <3>2. active' = active /\ turn' = turn /\ batches' = batches
        BY DEF CompleteSignals
      <3>. QED BY <1>3, <3>1, <3>2, SlotFrame
    <2>. QED BY <2>1 DEF ActiveBatchOwnsRunningWork
  <1>8. IntentsInKnownSlots'
    BY <1>3 DEF IInv, IntentsInKnownSlots, CompleteSignals
  <1>9. ClosedSlotsHoldNoRunWork'
    BY <1>2, <1>3 DEF IInv, ClosedSlotsHoldNoRunWork, LiveOf, Live, Terminal, CompleteSignals
  <1>. QED BY <1>5, <1>6, <1>7, <1>8, <1>9 DEF IInv

\* stop() ends all live work, because it all is in slots with an entry.
LEMMA StopInv ==
  ASSUME IInv, Stop
  PROVE  IInv'
  <1>. DEFINE S == {i \in DOMAIN intents : Live(i)}
  <1>1. /\ intents' \in [DOMAIN intents -> Intent]
        /\ DOMAIN intents' = DOMAIN intents
        /\ \A i \in DOMAIN intents :
             /\ intents'[i].slot = intents[i].slot
             /\ intents'[i].state \in Terminal
    <2>1. "Cancelled" \in Terminal /\ "Cancelled" \in IntentState /\ 0 \in 0..MaxOps
      BY SlotWorkAssumption DEF IntentState, Terminal
    <2>2. intents' = Moved(S, "Cancelled", 0)
      BY DEF Stop
    <2>. QED BY <2>1, <2>2, MovedFacts DEF IInv, Live
  <1>2. \A t \in Slots, p \in Priorities : queue'[t][p] = {}
    <2>. SUFFICES ASSUME NEW t \in Slots, NEW p \in Priorities PROVE queue'[t][p] = {}
      OBVIOUS
    <2>1. CASE t \in slots
      BY <2>1 DEF Stop, EmptyQueues
    <2>2. CASE t \notin slots
      <3>1. queue'[t][p] = queue[t][p]
        BY <2>2 DEF Stop
      <3>2. \A i \in queue[t][p] : i \in DOMAIN intents /\ intents[i].slot = t
        BY DEF IInv, QueuesMatchIntents
      <3>3. \A i \in DOMAIN intents : intents[i].slot \in slots
        BY DEF IInv, IntentsInKnownSlots
      <3>. QED BY <2>2, <3>1, <3>2, <3>3
    <2>. QED BY <2>1, <2>2
  <1>3. \A t \in Slots : active'[t] = 0 /\ ~turn'[t]
    <2>. SUFFICES ASSUME NEW t \in Slots PROVE active'[t] = 0 /\ ~turn'[t]
      OBVIOUS
    <2>1. CASE t \in slots
      BY <2>1 DEF Stop
    <2>2. CASE t \notin slots
      <3>1. active[t] = 0 /\ OwnsItsWork(t)
        BY <2>2 DEF IInv, IntentsInKnownSlots, ActiveBatchOwnsRunningWork
      <3>. QED BY <2>2, <3>1 DEF Stop, OwnsItsWork
    <2>. QED BY <2>1, <2>2
  <1>4. TypeOK'
    <2>1. queue' \in [Slots -> [Priorities -> SUBSET Ids]]
      BY DEF IInv, TypeOK, Stop, EmptyQueues
    <2>2. turn' \in [Slots -> BOOLEAN]
      BY DEF IInv, TypeOK, Stop
    <2>3. active' \in [Slots -> 0..MaxOps] /\ constraint' \in [Slots -> Constraints]
      BY SlotWorkAssumption DEF IInv, TypeOK, Stop, Constraints
    <2>. QED BY <1>1, <2>1, <2>2, <2>3 DEF IInv, TypeOK, Stop
  <1>5. QueuesMatchIntents'
    BY <1>1, <1>2 DEF QueuesMatchIntents, Terminal
  <1>6. ActiveBatchOwnsRunningWork'
    <2>1. ASSUME NEW t \in Slots PROVE OwnsItsWork(t)'
      <3>1. \A i \in DOMAIN intents' : ~BusyIn(i, t)'
        BY <1>1 DEF BusyIn, Terminal
      <3>. QED BY <1>3, <3>1, SlotIdle
    <2>. QED BY <2>1 DEF ActiveBatchOwnsRunningWork
  <1>7. IntentsInKnownSlots'
    BY <1>1, <1>3 DEF IInv, IntentsInKnownSlots, Stop
  <1>8. ClosedSlotsHoldNoRunWork'
    BY <1>1 DEF ClosedSlotsHoldNoRunWork, LiveOf, Live
  <1>. QED BY <1>4, <1>5, <1>6, <1>7, <1>8 DEF IInv

\* Recovered intents are new and carry no run; stale ones leave their queue.
LEMMA ReconcileMailboxInv ==
  ASSUME IInv, NEW s \in Slots, NEW unread \in SUBSET Messages, ReconcileMailbox(s, unread)
  PROVE  IInv'
  <1>. DEFINE stale == StaleQueued(s, unread)
              fresh == Unowned(s, unread)
  <1>1. PICK id \in [fresh -> Ids] :
          LET new == {id[m] : m \in fresh} IN
          /\ Fresh(new)
          /\ intents' = [j \in DOMAIN intents \cup new |->
               IF j \in new
               THEN [slot |-> s, source |-> "RecoveryDrain",
                     msg |-> CHOOSE m \in fresh : id[m] = j,
                     run |-> NoRun, state |-> "Queued", batch |-> 0]
               ELSE IF j \in stale THEN InState(intents[j], "Completed", 0)
               ELSE intents[j]]
          /\ queue' = [queue EXCEPT ![s] =
               [p \in Priorities |->
                  (queue[s][p] \ stale) \cup (IF p = "Background" THEN new ELSE {})]]
    BY DEF ReconcileMailbox
  <1>. DEFINE new == {id[m] : m \in fresh}
  <1>2. new \subseteq Ids /\ new \cap DOMAIN intents = {}
    BY <1>1 DEF Fresh
  <1>3. \A j \in new : (CHOOSE m \in fresh : id[m] = j) \in Messages
    <2>. SUFFICES ASSUME NEW j \in new PROVE (CHOOSE m \in fresh : id[m] = j) \in Messages
      OBVIOUS
    <2>1. \E m \in fresh : id[m] = j
      OBVIOUS
    <2>2. fresh \subseteq Messages
      BY DEF Unowned
    <2>. QED BY <2>1, <2>2
  <1>4. \A j \in stale : j \in DOMAIN intents /\ intents[j].slot = s /\ intents[j].state = "Queued"
    BY DEF StaleQueued, IInv, QueuesMatchIntents
  <1>5. /\ DOMAIN intents' = DOMAIN intents \cup new
        /\ \A j \in new : /\ intents'[j].slot = s /\ intents'[j].source = "RecoveryDrain"
                          /\ intents'[j].run = NoRun /\ intents'[j].state = "Queued"
                          /\ j \notin DOMAIN intents
        /\ \A j \in DOMAIN intents :
             /\ j \notin new
             /\ intents'[j].slot = intents[j].slot
             /\ intents'[j].source = intents[j].source
             /\ intents'[j].run = intents[j].run
             /\ j \in stale => intents'[j].state = "Completed"
             /\ j \notin stale => intents'[j] = intents[j]
    BY <1>1, <1>2 DEF InState
  <1>6. \A t \in Slots, q \in Priorities : queue'[t][q] =
          IF t = s THEN (queue[t][q] \ stale) \cup (IF q = "Background" THEN new ELSE {})
          ELSE queue[t][q]
    BY <1>1 DEF IInv, TypeOK
  <1>7. TypeOK'
    <2>1. queue' \in [Slots -> [Priorities -> SUBSET Ids]]
      BY <1>1, <1>2 DEF IInv, TypeOK
    <2>2. intents' \in [DOMAIN intents' -> Intent]
      <3>1. \A j \in DOMAIN intents : intents[j] \in Intent
        BY DEF IInv, TypeOK
      <3>2. \A j \in DOMAIN intents : InState(intents[j], "Completed", 0) \in Intent
        BY <3>1, SlotWorkAssumption DEF InState, Intent, IntentState, Terminal
      <3>3. \A j \in new : [slot |-> s, source |-> "RecoveryDrain",
                            msg |-> CHOOSE m \in fresh : id[m] = j,
                            run |-> NoRun, state |-> "Queued", batch |-> 0] \in Intent
        BY <1>3, SlotWorkAssumption DEF Intent, IntentState, WorkSource, BackgroundSources
      <3>. HIDE DEF new, stale
      <3>. QED BY <1>1, <1>2, <1>5, <3>1, <3>2, <3>3 DEF new
    <2>. QED BY <1>2, <1>5, <2>1, <2>2 DEF IInv, TypeOK, ReconcileMailbox
  <1>8. QueuesMatchIntents'
    <2>. SUFFICES ASSUME NEW t \in Slots, NEW q \in Priorities
                  PROVE  /\ queue'[t][q] \subseteq DOMAIN intents'
                         /\ \A j \in DOMAIN intents' :
                              j \in queue'[t][q] <=> /\ intents'[j].slot = t
                                                     /\ Priority(intents'[j].source) = q
                                                     /\ intents'[j].state = "Queued"
      BY DEF QueuesMatchIntents
    <2>1. Priority("RecoveryDrain") = "Background"
      BY DEF Priority, ForegroundSources, ControlSources
    <2>2. queue'[t][q] =
          IF t = s THEN (queue[t][q] \ stale) \cup (IF q = "Background" THEN new ELSE {})
          ELSE queue[t][q]
      BY <1>6
    <2>. HIDE DEF new, stale
    <2>. QED BY <1>4, <1>5, <2>1, <2>2 DEF IInv, QueuesMatchIntents
  <1>9. ActiveBatchOwnsRunningWork'
    <2>1. ASSUME NEW t \in Slots PROVE OwnsItsWork(t)'
      <3>. HIDE DEF new, stale
      <3>1. \A i \in DOMAIN intents : BusyIn(i, t) \/ BusyIn(i, t)' => intents'[i] = intents[i]
        BY <1>4, <1>5 DEF BusyIn
      <3>2. \A i \in DOMAIN intents' : i \notin DOMAIN intents => ~BusyIn(i, t)'
        BY <1>5 DEF BusyIn
      <3>3. active' = active /\ turn' = turn /\ batches' = batches
        BY DEF ReconcileMailbox
      <3>. QED BY <1>5, <3>1, <3>2, <3>3, SlotFrame
    <2>. QED BY <2>1 DEF ActiveBatchOwnsRunningWork
  <1>10. IntentsInKnownSlots'
    <2>1. slots' = slots \cup {s} /\ active' = active
      BY DEF ReconcileMailbox
    <2>. HIDE DEF new, stale
    <2>. QED BY <1>5, <2>1 DEF IInv, IntentsInKnownSlots
  <1>11. ClosedSlotsHoldNoRunWork'
    <2>1. removed' = removed /\ constraint' = constraint
      BY DEF ReconcileMailbox
    <2>. HIDE DEF new, stale
    <2>. QED BY <1>4, <1>5, <2>1 DEF IInv, ClosedSlotsHoldNoRunWork, LiveOf, Live, Terminal
  <1>. QED BY <1>7, <1>8, <1>9, <1>10, <1>11 DEF IInv

\* Removing a slot ends everything it holds.
LEMMA RemoveSlotInv ==
  ASSUME IInv, NEW s \in Slots, RemoveSlot(s)
  PROVE  IInv'
  <1>. DEFINE placed == {i \in DOMAIN intents :
                            \/ \E p \in Priorities : i \in queue[s][p]
                            \/ active[s] # 0 /\ i \in batches[active[s]].members}
              S == placed \cup LiveOf(s)
  <1>1. /\ intents' = Moved(S, "Cancelled", 0)
        /\ queue' = [queue EXCEPT ![s] = EmptyQueues]
        /\ active' = [active EXCEPT ![s] = 0] /\ turn' = [turn EXCEPT ![s] = FALSE]
    BY DEF RemoveSlot
  <1>2. S = LiveOf(s)
    <2>1. \A i \in placed : intents[i].slot = s /\ intents[i].state \in {"Queued", "Starting", "Running"}
      BY DEF IInv, QueuesMatchIntents, ActiveBatchOwnsRunningWork, OwnsItsWork, BusyIn
    <2>. QED BY <2>1 DEF LiveOf, Live, Terminal
  <1>. HIDE DEF S, placed
  <1>3. /\ intents' \in [DOMAIN intents -> Intent]
        /\ DOMAIN intents' = DOMAIN intents
        /\ \A i \in DOMAIN intents :
             /\ intents'[i].slot = intents[i].slot
             /\ intents'[i].source = intents[i].source
             /\ intents'[i].run = intents[i].run
             /\ i \in S => intents'[i].state = "Cancelled"
             /\ i \notin S => intents'[i] = intents[i]
    <2>1. "Cancelled" \in IntentState /\ 0 \in 0..MaxOps
      BY SlotWorkAssumption DEF IntentState, Terminal
    <2>. QED BY <1>1, <2>1, MovedFacts DEF IInv
  <1>4. \A i \in DOMAIN intents :
          /\ intents[i].slot # s => intents'[i] = intents[i]
          /\ intents[i].slot = s => intents'[i].state \in Terminal
    BY <1>2, <1>3 DEF LiveOf, Live, Terminal
  <1>5. \A t \in Slots : /\ queue'[t] = IF t = s THEN EmptyQueues ELSE queue[t]
                         /\ active'[t] = IF t = s THEN 0 ELSE active[t]
                         /\ turn'[t] = IF t = s THEN FALSE ELSE turn[t]
    BY <1>1 DEF IInv, TypeOK
  <1>6. TypeOK'
    <2>1. EmptyQueues \in [Priorities -> SUBSET Ids]
      BY DEF EmptyQueues
    <2>2. queue' \in [Slots -> [Priorities -> SUBSET Ids]]
      BY <1>1, <2>1 DEF IInv, TypeOK
    <2>3. removed' \in [Slots -> BOOLEAN]
      BY DEF IInv, TypeOK, RemoveSlot
    <2>4. turn' \in [Slots -> BOOLEAN] /\ active' \in [Slots -> 0..MaxOps]
      BY <1>1, SlotWorkAssumption DEF IInv, TypeOK
    <2>. QED BY <1>3, <2>2, <2>3, <2>4 DEF IInv, TypeOK, RemoveSlot
  <1>7. QueuesMatchIntents'
    <2>1. \A t \in Slots, p \in Priorities : queue'[t][p] = IF t = s THEN {} ELSE queue[t][p]
      BY <1>5 DEF EmptyQueues
    <2>. QED BY <1>3, <1>4, <2>1 DEF IInv, QueuesMatchIntents, Terminal
  <1>8. ActiveBatchOwnsRunningWork'
    <2>1. ASSUME NEW t \in Slots PROVE OwnsItsWork(t)'
      <3>1. CASE t = s
        <4>1. \A i \in DOMAIN intents' : ~BusyIn(i, t)'
          BY <1>3, <1>4, <3>1 DEF BusyIn, Terminal
        <4>. QED BY <1>5, <3>1, <4>1, SlotIdle
      <3>2. CASE t # s
        <4>1. \A i \in DOMAIN intents : BusyIn(i, t) \/ BusyIn(i, t)' => intents'[i] = intents[i]
          BY <1>3, <1>4, <3>2 DEF BusyIn
        <4>2. batches' = batches
          BY DEF RemoveSlot
        <4>. QED BY <1>3, <1>5, <3>2, <4>1, <4>2, SlotFrame
      <3>. QED BY <3>1, <3>2
    <2>. QED BY <2>1 DEF ActiveBatchOwnsRunningWork
  <1>9. IntentsInKnownSlots'
    BY <1>3, <1>5 DEF IInv, IntentsInKnownSlots, RemoveSlot
  <1>10. ClosedSlotsHoldNoRunWork'
    <2>1. constraint' = constraint /\ \A t \in Slots : t # s => removed'[t] = removed[t]
      BY DEF IInv, TypeOK, RemoveSlot
    <2>. QED BY <1>3, <1>4, <2>1 DEF IInv, ClosedSlotsHoldNoRunWork, LiveOf, Live
  <1>. QED BY <1>6, <1>7, <1>8, <1>9, <1>10 DEF IInv

\* A failed runtime keeps only work without a run, and keeps it queued.
LEMMA SetRuntimeConstraintInv ==
  ASSUME IInv, NEW s \in Slots, NEW c \in ConstraintInputs, SetRuntimeConstraint(s, c)
  PROVE  IInv'
  <1>1. /\ c \in Constraints /\ slots' = slots \cup {s}
        /\ \A t \in Slots : constraint'[t] = IF t = s THEN c ELSE constraint[t]
        /\ constraint' \in [Slots -> Constraints]
        /\ removed' = removed /\ batches' = batches /\ lastOp' = lastOp
        /\ leases' = leases /\ paused' = paused
    BY SlotWorkAssumption DEF IInv, TypeOK, SetRuntimeConstraint
  <1>2. CASE c \notin {"Failed", "SessionStopped"}
    <2>1. UNCHANGED <<intents, queue, active, turn>>
      BY <1>2 DEF SetRuntimeConstraint
    <2>2. TypeOK' /\ QueuesMatchIntents' /\ IntentsInKnownSlots' /\ ClosedSlotsHoldNoRunWork'
      BY <1>1, <1>2, <2>1 DEF IInv, TypeOK, QueuesMatchIntents, IntentsInKnownSlots,
                              ClosedSlotsHoldNoRunWork, LiveOf, Live
    <2>3. ActiveBatchOwnsRunningWork'
      BY <1>1, <2>1 DEF IInv, ActiveBatchOwnsRunningWork, OwnsItsWork, BusyIn
    <2>. QED BY <2>2, <2>3 DEF IInv
  <1>3. CASE c \in {"Failed", "SessionStopped"}
    <2>. DEFINE back == {i \in LiveOf(s) : c = "Failed" /\ intents[i].run = NoRun}
                end  == IF c = "Failed" THEN "Failed" ELSE "Cancelled"
    <2>1. /\ intents' = [i \in DOMAIN intents |->
               IF i \in back THEN InState(intents[i], "Queued", 0)
               ELSE IF i \in LiveOf(s) THEN InState(intents[i], end, 0) ELSE intents[i]]
          /\ queue' = [queue EXCEPT ![s] = [p \in Priorities |->
               {i \in back : Priority(intents[i].source) = p}]]
          /\ active' = [active EXCEPT ![s] = 0] /\ turn' = [turn EXCEPT ![s] = FALSE]
      BY <1>3 DEF SetRuntimeConstraint
    <2>2. end \in Terminal
      BY DEF Terminal
    <2>3. /\ back \subseteq LiveOf(s) /\ LiveOf(s) \subseteq DOMAIN intents
          /\ \A i \in back : intents[i].run = NoRun
          /\ \A i \in DOMAIN intents : i \in LiveOf(s) <=>
                intents[i].slot = s /\ intents[i].state \notin Terminal
      BY DEF LiveOf, Live
    <2>. HIDE DEF back, end
    <2>4. /\ DOMAIN intents' = DOMAIN intents
          /\ \A i \in DOMAIN intents :
               /\ intents'[i].slot = intents[i].slot
               /\ intents'[i].source = intents[i].source
               /\ intents'[i].run = intents[i].run
               /\ i \in back => intents'[i].state = "Queued"
               /\ intents[i].slot = s /\ i \notin back => intents'[i].state \in Terminal
               /\ intents[i].slot # s => intents'[i] = intents[i]
      BY <2>1, <2>2, <2>3 DEF InState
    <2>5. \A t \in Slots : /\ active'[t] = IF t = s THEN 0 ELSE active[t]
                           /\ turn'[t] = IF t = s THEN FALSE ELSE turn[t]
                           /\ \A p \in Priorities : queue'[t][p] =
                                IF t = s THEN {i \in back : Priority(intents[i].source) = p}
                                ELSE queue[t][p]
      BY <2>1 DEF IInv, TypeOK
    <2>6. TypeOK'
      <3>1. \A i \in DOMAIN intents : intents[i] \in Intent
        BY DEF IInv, TypeOK
      <3>2. "Queued" \in IntentState /\ end \in IntentState /\ 0 \in 0..MaxOps
        BY <2>2, SlotWorkAssumption DEF IntentState
      <3>3. \A i \in DOMAIN intents, st \in IntentState : InState(intents[i], st, 0) \in Intent
        BY <3>1, <3>2 DEF InState, Intent
      <3>4. intents' \in [DOMAIN intents -> Intent]
        BY <2>1, <3>1, <3>2, <3>3
      <3>5. \A p \in Priorities : {i \in back : Priority(intents[i].source) = p} \in SUBSET Ids
        BY <2>3 DEF IInv, TypeOK
      <3>6. queue' \in [Slots -> [Priorities -> SUBSET Ids]]
        BY <2>1, <3>5 DEF IInv, TypeOK
      <3>7. turn' \in [Slots -> BOOLEAN] /\ active' \in [Slots -> 0..MaxOps]
        BY <2>1, SlotWorkAssumption DEF IInv, TypeOK
      <3>. QED BY <1>1, <2>4, <3>4, <3>6, <3>7 DEF IInv, TypeOK
    <2>7. QueuesMatchIntents'
      <3>. SUFFICES ASSUME NEW t \in Slots, NEW p \in Priorities
                    PROVE  /\ queue'[t][p] \subseteq DOMAIN intents'
                           /\ \A j \in DOMAIN intents' :
                                j \in queue'[t][p] <=> /\ intents'[j].slot = t
                                                       /\ Priority(intents'[j].source) = p
                                                       /\ intents'[j].state = "Queued"
        BY DEF QueuesMatchIntents
      <3>0. queue'[t][p] = IF t = s THEN {i \in back : Priority(intents[i].source) = p}
                           ELSE queue[t][p]
        BY <2>5
      <3>1. CASE t = s
        BY <2>3, <2>4, <3>0, <3>1 DEF Terminal
      <3>2. CASE t # s
        BY <2>4, <3>0, <3>2 DEF IInv, QueuesMatchIntents
      <3>. QED BY <3>1, <3>2
    <2>8. ActiveBatchOwnsRunningWork'
      <3>1. ASSUME NEW t \in Slots PROVE OwnsItsWork(t)'
        <4>1. CASE t = s
          <5>1. \A i \in DOMAIN intents' : ~BusyIn(i, t)'
            BY <2>4, <4>1 DEF BusyIn, Terminal
          <5>. QED BY <2>5, <4>1, <5>1, SlotIdle
        <4>2. CASE t # s
          <5>1. \A i \in DOMAIN intents : BusyIn(i, t) \/ BusyIn(i, t)' => intents'[i] = intents[i]
            BY <2>4, <4>2 DEF BusyIn
          <5>. QED BY <1>1, <2>4, <2>5, <4>2, <5>1, SlotFrame
        <4>. QED BY <4>1, <4>2
      <3>. QED BY <3>1 DEF ActiveBatchOwnsRunningWork
    <2>9. IntentsInKnownSlots'
      BY <1>1, <2>4, <2>5 DEF IInv, IntentsInKnownSlots
    <2>10. ClosedSlotsHoldNoRunWork'
      BY <1>1, <2>3, <2>4 DEF IInv, ClosedSlotsHoldNoRunWork, LiveOf, Live
    <2>. QED BY <2>6, <2>7, <2>8, <2>9, <2>10 DEF IInv
  <1>. QED BY <1>2, <1>3

\* What cancel_run does to every single intent.
LEMMA CancelRunFacts ==
  ASSUME IInv, NEW r \in Runs, CancelRun(r)
  PROVE  /\ DOMAIN intents' = DOMAIN intents
         /\ \A i \in DOMAIN intents :
              /\ intents'[i].slot = intents[i].slot
              /\ intents'[i].source = intents[i].source
              /\ intents'[i].run = intents[i].run
              /\ Live(i) /\ intents[i].run = r => intents'[i].state = "Cancelled"
              /\ ~Live(i) => intents'[i] = intents[i]
              /\ Live(i) /\ intents[i].run # r =>
                   IF intents[i].state # "Queued" /\ intents[i].slot \in SlotsRunning(r)
                   THEN intents'[i].state = "Queued" ELSE intents'[i] = intents[i]
         /\ \A s \in Slots, p \in Priorities, i \in Ids :
              i \in queue'[s][p] <=> /\ i \in DOMAIN intents
                                     /\ intents'[i].slot = s
                                     /\ Priority(intents'[i].source) = p
                                     /\ intents'[i].state = "Queued"
         /\ intents' \in [DOMAIN intents -> Intent]
         /\ queue' \in [Slots -> [Priorities -> SUBSET Ids]]
  <1>. DEFINE hit  == SlotsRunning(r)
              held == {i \in DOMAIN intents : \E s \in hit : i \in batches[active[s]].members}
              back == held \ OfRun(r)
              dead == (held \cap OfRun(r)) \cup {i \in OfRun(r) : intents[i].state = "Queued"}
  <1>1. /\ intents' = [i \in DOMAIN intents |->
             IF i \in dead THEN InState(intents[i], "Cancelled", 0)
             ELSE IF i \in back THEN InState(intents[i], "Queued", 0) ELSE intents[i]]
        /\ queue' = [s \in Slots |-> [p \in Priorities |->
             (queue[s][p] \ dead) \cup
             {i \in back : intents[i].slot = s /\ Priority(intents[i].source) = p}]]
    BY DEF CancelRun
  <1>2. \A i \in DOMAIN intents : intents[i] \in Intent
    BY DEF IInv, TypeOK
  <1>3. \A i \in DOMAIN intents : i \in held <=>
          intents[i].state \in {"Starting", "Running"} /\ intents[i].slot \in hit
    <2>1. \A s \in hit : s \in Slots /\ active[s] # 0 /\ OwnsItsWork(s)
      BY DEF SlotsRunning, IInv, ActiveBatchOwnsRunningWork
    <2>2. \A s \in hit, i \in DOMAIN intents :
             i \in batches[active[s]].members <=> BusyIn(i, s)
      BY <2>1 DEF OwnsItsWork
    <2>. QED BY <2>2 DEF BusyIn
  <1>4. \A i \in DOMAIN intents : intents[i].run = r /\ intents[i].state \in {"Starting", "Running"}
           => intents[i].slot \in hit
    <2>. SUFFICES ASSUME NEW i \in DOMAIN intents, intents[i].run = r,
                         intents[i].state \in {"Starting", "Running"}
                  PROVE  intents[i].slot \in hit
      OBVIOUS
    <2>1. intents[i].slot \in Slots
      BY <1>2 DEF Intent
    <2>2. OwnsItsWork(intents[i].slot) /\ BusyIn(i, intents[i].slot)
      BY <2>1 DEF IInv, ActiveBatchOwnsRunningWork, BusyIn
    <2>3. /\ active[intents[i].slot] # 0
          /\ i \in batches[active[intents[i].slot]].members
      BY <2>2 DEF OwnsItsWork
    <2>. QED BY <2>1, <2>3 DEF SlotsRunning, OfRun
  <1>5. \A i \in DOMAIN intents : intents[i].state \in IntentState
    BY <1>2 DEF Intent
  <1>6. \A i \in DOMAIN intents :
          /\ i \in dead <=> Live(i) /\ intents[i].run = r
          /\ i \in back <=> /\ intents[i].run # r /\ intents[i].slot \in hit
                            /\ intents[i].state \in {"Starting", "Running"}
    <2>1. \A i \in DOMAIN intents : Live(i) <=> intents[i].state \in {"Queued", "Starting", "Running"}
      BY <1>5 DEF Live, IntentState, Terminal
    <2>. QED BY <1>3, <1>4, <2>1 DEF OfRun
  <1>7. dead \subseteq DOMAIN intents /\ back \subseteq DOMAIN intents
    BY DEF OfRun
  <1>. HIDE DEF dead, back, held, hit
  <1>8. /\ DOMAIN intents' = DOMAIN intents
        /\ \A i \in DOMAIN intents :
             /\ intents'[i].slot = intents[i].slot
             /\ intents'[i].source = intents[i].source
             /\ intents'[i].run = intents[i].run
             /\ i \in dead => intents'[i].state = "Cancelled"
             /\ i \in back => intents'[i].state = "Queued"
             /\ i \notin dead /\ i \notin back => intents'[i] = intents[i]
    BY <1>1, <1>6 DEF InState
  <1>9. intents' \in [DOMAIN intents -> Intent]
    <2>1. "Queued" \in IntentState /\ "Cancelled" \in IntentState /\ 0 \in 0..MaxOps
      BY SlotWorkAssumption DEF IntentState, Terminal
    <2>2. \A i \in DOMAIN intents, st \in IntentState : InState(intents[i], st, 0) \in Intent
      BY <1>2, <2>1 DEF InState, Intent
    <2>. QED BY <1>1, <1>2, <2>1, <2>2
  <1>10. \A s \in Slots, p \in Priorities : queue'[s][p] = (queue[s][p] \ dead) \cup
             {i \in back : intents[i].slot = s /\ Priority(intents[i].source) = p}
    BY <1>1
  <1>11. \A s \in Slots, p \in Priorities : queue'[s][p] \subseteq Ids
    BY <1>7, <1>10 DEF IInv, TypeOK
  <1>12. queue' \in [Slots -> [Priorities -> SUBSET Ids]]
    BY <1>1, <1>7 DEF IInv, TypeOK
  <1>13. ASSUME NEW s \in Slots, NEW p \in Priorities, NEW i \in Ids
         PROVE  i \in queue'[s][p] <=> /\ i \in DOMAIN intents
                                       /\ intents'[i].slot = s
                                       /\ Priority(intents'[i].source) = p
                                       /\ intents'[i].state = "Queued"
    <2>1. i \in queue[s][p] => i \in DOMAIN intents
      BY DEF IInv, QueuesMatchIntents
    <2>2. CASE i \notin DOMAIN intents
      BY <1>7, <1>10, <2>1, <2>2
    <2>3. CASE i \in DOMAIN intents
      <3>1. i \in queue[s][p] <=> /\ intents[i].slot = s
                                  /\ Priority(intents[i].source) = p
                                  /\ intents[i].state = "Queued"
        BY <2>3 DEF IInv, QueuesMatchIntents
      <3>. QED BY <1>6, <1>8, <1>10, <2>3, <3>1 DEF Live, Terminal
    <2>. QED BY <2>2, <2>3
  <1>14. \A i \in DOMAIN intents :
              /\ Live(i) /\ intents[i].run = r => intents'[i].state = "Cancelled"
              /\ ~Live(i) => intents'[i] = intents[i]
              /\ Live(i) /\ intents[i].run # r =>
                   IF intents[i].state # "Queued" /\ intents[i].slot \in SlotsRunning(r)
                   THEN intents'[i].state = "Queued" ELSE intents'[i] = intents[i]
    BY <1>5, <1>6, <1>8 DEF Live, IntentState, Terminal, hit
  <1>. QED BY <1>8, <1>9, <1>12, <1>13, <1>14

\* Cancelling a run puts the rest of a mixed batch back into its queues.
LEMMA CancelRunInv ==
  ASSUME IInv, NEW r \in Runs, CancelRun(r)
  PROVE  IInv'
  <1>1. /\ \A s \in Slots : /\ active'[s] = IF s \in SlotsRunning(r) THEN 0 ELSE active[s]
                            /\ turn'[s] = IF s \in SlotsRunning(r) THEN FALSE ELSE turn[s]
        /\ active' \in [Slots -> 0..MaxOps] /\ turn' \in [Slots -> BOOLEAN]
    <2>1. active' = [s \in Slots |-> IF s \in SlotsRunning(r) THEN 0 ELSE active[s]]
      BY DEF CancelRun
    <2>2. turn' = [s \in Slots |-> IF s \in SlotsRunning(r) THEN FALSE ELSE turn[s]]
      BY DEF CancelRun
    <2>3. 0 \in 0..MaxOps
      BY SlotWorkAssumption
    <2>4. active' \in [Slots -> 0..MaxOps]
      BY <2>1, <2>3 DEF IInv, TypeOK
    <2>5. turn' \in [Slots -> BOOLEAN]
      BY <2>2 DEF IInv, TypeOK
    <2>6. \A s \in Slots : active'[s] = IF s \in SlotsRunning(r) THEN 0 ELSE active[s]
      BY <2>1
    <2>7. \A s \in Slots : turn'[s] = IF s \in SlotsRunning(r) THEN FALSE ELSE turn[s]
      BY <2>2
    <2>. QED BY <2>4, <2>5, <2>6, <2>7
  <1>2. \A i \in DOMAIN intents : intents[i].state \in IntentState
    BY DEF IInv, TypeOK, Intent
  <1>3. TypeOK'
    BY <1>1, CancelRunFacts DEF IInv, TypeOK, CancelRun
  <1>4. QueuesMatchIntents'
    BY CancelRunFacts DEF QueuesMatchIntents, IInv, TypeOK
  <1>5. ActiveBatchOwnsRunningWork'
    <2>1. ASSUME NEW t \in Slots PROVE OwnsItsWork(t)'
      <3>1. CASE t \in SlotsRunning(r)
        <4>1. \A i \in DOMAIN intents' : ~BusyIn(i, t)'
          BY <1>2, <3>1, CancelRunFacts DEF BusyIn, Live, Terminal, IntentState
        <4>. QED BY <1>1, <3>1, <4>1, SlotIdle
      <3>2. CASE t \notin SlotsRunning(r)
        <4>1. \A i \in DOMAIN intents : BusyIn(i, t) => intents[i].run # r
          <5>. SUFFICES ASSUME NEW i \in DOMAIN intents, BusyIn(i, t), intents[i].run = r
                        PROVE  FALSE
            OBVIOUS
          <5>1. OwnsItsWork(t)
            BY DEF IInv, ActiveBatchOwnsRunningWork
          <5>. QED BY <3>2, <5>1 DEF OwnsItsWork, SlotsRunning, OfRun
        <4>2. \A i \in DOMAIN intents : BusyIn(i, t) \/ BusyIn(i, t)' => intents'[i] = intents[i]
          BY <3>2, <4>1, CancelRunFacts DEF BusyIn, Live, Terminal
        <4>3. batches' = batches
          BY DEF CancelRun
        <4>. QED BY <1>1, <3>2, <4>2, <4>3, CancelRunFacts, SlotFrame
      <3>. QED BY <3>1, <3>2
    <2>. QED BY <2>1 DEF ActiveBatchOwnsRunningWork
  <1>6. IntentsInKnownSlots'
    <2>1. slots' = slots /\ \A s \in Slots : active'[s] # 0 => active[s] # 0
      BY <1>1 DEF CancelRun
    <2>2. \A i \in DOMAIN intents' : i \in DOMAIN intents /\ intents'[i].slot = intents[i].slot
      BY CancelRunFacts
    <2>. QED BY <2>1, <2>2 DEF IInv, IntentsInKnownSlots
  <1>7. ClosedSlotsHoldNoRunWork'
    <2>1. removed' = removed /\ constraint' = constraint
      BY DEF CancelRun
    <2>2. \A i \in DOMAIN intents' :
            /\ i \in DOMAIN intents /\ intents'[i].slot = intents[i].slot
            /\ intents'[i].run = intents[i].run
            /\ intents'[i].state \notin Terminal => intents[i].state \notin Terminal
      BY CancelRunFacts DEF Live
    <2>. QED BY <2>1, <2>2 DEF IInv, ClosedSlotsHoldNoRunWork, LiveOf, Live
  <1>. QED BY <1>3, <1>4, <1>5, <1>6, <1>7 DEF IInv

\* The empty coordinator satisfies the invariant.
LEMMA InitInv == ASSUME Init PROVE IInv
  BY SlotWorkAssumption
  DEF Init, EmptyQueues, IInv, TypeOK, Constraints, QueuesMatchIntents,
      ActiveBatchOwnsRunningWork, OwnsItsWork, IntentsInKnownSlots, ClosedSlotsHoldNoRunWork, LiveOf

\* Every operation of the coordinator preserves the invariant.
LEMMA NextInv == ASSUME IInv, [Next]_vars PROVE IInv'
  <1>1. CASE Next
    BY <1>1, AcquireEnqueueInv, CommitEnqueueInv, AbortEnqueueInv, ReconcileMailboxInv,
       ClaimNextInv, CompleteSignalsInv, MarkStartedInv, RetryStartInv, TerminalizeBatchInv,
       CancelRunInv, PauseSlotInv, SetRuntimeConstraintInv, RemoveSlotInv, StopInv
    DEF Next
  <1>2. CASE UNCHANGED vars
    BY <1>2 DEF vars, IInv, TypeOK, QueuesMatchIntents, ActiveBatchOwnsRunningWork, OwnsItsWork,
                BusyIn, IntentsInKnownSlots, ClosedSlotsHoldNoRunWork, LiveOf, Live
  <1>. QED BY <1>1, <1>2

\* The invariant holds in every reachable state.
LEMMA SpecInv == Spec => []IInv
  BY InitInv, NextInv, PTL DEF Spec

-----------------------------------------------------------------------------
(* Theorems *)

\* The coordinator's state always has the shape its Rust types promise.
THEOREM TypeCorrect == Spec => []TypeOK
  <1>1. IInv => TypeOK
    BY DEF IInv
  <1>. QED BY <1>1, SpecInv, PTL

\* No operation of the coordinator loses a queued intent or queues it twice.
THEOREM QueuesCorrect == Spec => []QueuesMatchIntents
  <1>1. IInv => QueuesMatchIntents
    BY DEF IInv
  <1>. QED BY <1>1, SpecInv, PTL

\* The running work of every slot is exactly its active batch.
THEOREM OwnershipCorrect == Spec => []ActiveBatchOwnsRunningWork
  <1>1. IInv => ActiveBatchOwnsRunningWork
    BY DEF IInv
  <1>. QED BY <1>1, SpecInv, PTL

\* A failed, stopped or removed slot never holds live work of a run.
THEOREM ClosedSlotsCorrect == Spec => []ClosedSlotsHoldNoRunWork
  <1>1. IInv => ClosedSlotsHoldNoRunWork
    BY DEF IInv
  <1>. QED BY <1>1, SpecInv, PTL

\* Moving only live intents leaves every terminal intent alone.
LEMMA MovedKeepsTerminal ==
  ASSUME NEW S, NEW st, NEW b, intents' = Moved(S, st, b),
         \A i \in S : i \in DOMAIN intents => Live(i)
  PROVE  \A i \in DOMAIN intents :
            ~Live(i) => i \in DOMAIN intents' /\ intents'[i] = intents[i]
  BY DEF Moved

\* No step changes a terminal intent.
LEMMA TerminalStep ==
  ASSUME IInv, [Next]_vars
  PROVE  \A i \in DOMAIN intents :
            ~Live(i) => i \in DOMAIN intents' /\ intents'[i] = intents[i]
  <1>. DEFINE Kept == \A i \in DOMAIN intents :
                        ~Live(i) => i \in DOMAIN intents' /\ intents'[i] = intents[i]
  <1>0. \A b \in DOMAIN batches : IsCurrent(b) =>
           \A i \in batches[b].members : i \in DOMAIN intents => Live(i)
    BY CurrentBatchFacts DEF BusyIn, Live, Terminal
  <1>1. ASSUME NEW id \in LeaseIds, NEW s \in Slots, NEW source \in Sources,
               NEW run \in Runs \cup {NoRun}, AcquireEnqueue(id, s, source, run)
        PROVE  Kept
    BY <1>1 DEF AcquireEnqueue
  <1>2. ASSUME NEW l \in leases, NEW m \in Messages \cup {NoMsg}, CommitEnqueue(l, m)
        PROVE  Kept
    BY <1>2 DEF CommitEnqueue, Fresh
  <1>3. ASSUME NEW l \in leases, AbortEnqueue(l) PROVE Kept
    BY <1>3 DEF AbortEnqueue
  <1>4. ASSUME NEW s \in Slots, NEW unread \in SUBSET Messages, ReconcileMailbox(s, unread)
        PROVE  Kept
    <2>1. \A i \in StaleQueued(s, unread) : i \in DOMAIN intents => Live(i)
      BY DEF StaleQueued, IInv, QueuesMatchIntents, Live, Terminal
    <2>. QED BY <1>4, <2>1 DEF ReconcileMailbox, Fresh
  <1>5. ASSUME NEW s \in Slots, ClaimNext(s) PROVE Kept
    <2>1. \A p \in Priorities : \A i \in MessageIntents(s, p) : i \in DOMAIN intents => Live(i)
      BY DEF MessageIntents, IInv, QueuesMatchIntents, Live, Terminal
    <2>2. PICK p \in Priorities : intents' = Moved(MessageIntents(s, p), "Starting", lastOp')
      BY <1>5 DEF ClaimNext
    <2>. QED BY <2>1, <2>2, MovedKeepsTerminal
  <1>6. ASSUME NEW s \in Slots, NEW S \in SUBSET QueuedSignals(s), CompleteSignals(s, S)
        PROVE  Kept
    <2>1. \A i \in S : i \in DOMAIN intents => Live(i)
      BY DEF QueuedSignals, Live, Terminal
    <2>2. intents' = Moved(S, "Completed", 0)
      BY <1>6 DEF CompleteSignals
    <2>. QED BY <2>1, <2>2, MovedKeepsTerminal
  <1>7. ASSUME NEW b \in DOMAIN batches, MarkStarted(b) PROVE Kept
    <2>1. IsCurrent(b) /\ intents' = Moved(batches[b].members, "Running", b)
      BY <1>7 DEF MarkStarted
    <2>. QED BY <1>0, <2>1, MovedKeepsTerminal
  <1>8. ASSUME NEW b \in DOMAIN batches, RetryStart(b) PROVE Kept
    <2>1. IsCurrent(b) /\ intents' = Moved(batches[b].members, "Queued", 0)
      BY <1>8 DEF RetryStart
    <2>. QED BY <1>0, <2>1, MovedKeepsTerminal
  <1>9. ASSUME NEW b \in DOMAIN batches, NEW st \in Terminal, TerminalizeBatch(b, st) PROVE Kept
    <2>1. IsCurrent(b) /\ intents' = Moved(batches[b].members, st, 0)
      BY <1>9 DEF TerminalizeBatch
    <2>. QED BY <1>0, <2>1, MovedKeepsTerminal
  <1>10. ASSUME NEW r \in Runs, CancelRun(r) PROVE Kept
    BY <1>10, CancelRunFacts
  <1>11. ASSUME NEW s \in Slots, PauseSlot(s) PROVE Kept
    BY <1>11 DEF PauseSlot
  <1>12. ASSUME NEW s \in Slots, NEW c \in ConstraintInputs, SetRuntimeConstraint(s, c)
         PROVE  Kept
    BY <1>12 DEF SetRuntimeConstraint, LiveOf
  <1>13. ASSUME NEW s \in Slots, RemoveSlot(s) PROVE Kept
    <2>. DEFINE placed == {i \in DOMAIN intents :
                             \/ \E p \in Priorities : i \in queue[s][p]
                             \/ active[s] # 0 /\ i \in batches[active[s]].members}
    <2>1. \A i \in placed : Live(i)
      BY DEF IInv, QueuesMatchIntents, ActiveBatchOwnsRunningWork, OwnsItsWork, BusyIn, Live, Terminal
    <2>2. \A i \in placed \cup LiveOf(s) : i \in DOMAIN intents => Live(i)
      BY <2>1 DEF LiveOf
    <2>3. intents' = Moved(placed \cup LiveOf(s), "Cancelled", 0)
      BY <1>13 DEF RemoveSlot
    <2>. HIDE DEF placed
    <2>. QED BY <2>2, <2>3, MovedKeepsTerminal
  <1>14. ASSUME Stop PROVE Kept
    <2>1. intents' = Moved({i \in DOMAIN intents : Live(i)}, "Cancelled", 0)
      BY <1>14 DEF Stop
    <2>. QED BY <2>1, MovedKeepsTerminal
  <1>15. CASE UNCHANGED vars
    BY <1>15 DEF vars
  <1>. HIDE DEF Kept
  <1>. QED BY <1>1, <1>2, <1>3, <1>4, <1>5, <1>6, <1>7, <1>8, <1>9, <1>10, <1>11, <1>12, <1>13,
              <1>14, <1>15 DEF Next, Kept

\* A slot's active batch only ever changes to none or to a batch that did not
\* exist before the step.
LEMMA OwnershipStep ==
  ASSUME IInv, [Next]_vars
  PROVE  \A s \in Slots : active'[s] # active[s] => active'[s] \notin DOMAIN batches
  <1>. DEFINE Kept == \A s \in Slots : active'[s] # active[s] => active'[s] \notin DOMAIN batches
  <1>0. 0 \notin DOMAIN batches /\ lastOp + 1 \notin DOMAIN batches
    BY SlotWorkAssumption DEF IInv, TypeOK
  <1>1. ASSUME NEW s \in Slots, ClaimNext(s) PROVE Kept
    BY <1>0, <1>1 DEF ClaimNext, IInv, TypeOK
  <1>2. ASSUME NEW b \in DOMAIN batches, RetryStart(b) PROVE Kept
    BY <1>0, <1>2 DEF RetryStart, IInv, TypeOK
  <1>3. ASSUME NEW b \in DOMAIN batches, NEW st \in Terminal, TerminalizeBatch(b, st) PROVE Kept
    BY <1>0, <1>3 DEF TerminalizeBatch, IInv, TypeOK
  <1>4. ASSUME NEW r \in Runs, CancelRun(r) PROVE Kept
    BY <1>0, <1>4 DEF CancelRun
  <1>5. ASSUME NEW s \in Slots, NEW c \in ConstraintInputs, SetRuntimeConstraint(s, c)
        PROVE  Kept
    BY <1>0, <1>5 DEF SetRuntimeConstraint, IInv, TypeOK
  <1>6. ASSUME NEW s \in Slots, RemoveSlot(s) PROVE Kept
    BY <1>0, <1>6 DEF RemoveSlot, IInv, TypeOK
  <1>7. ASSUME Stop PROVE Kept
    BY <1>0, <1>7 DEF Stop
  <1>8. ASSUME active' = active PROVE Kept
    BY <1>8
  <1>. HIDE DEF Kept
  <1>. QED
    BY <1>1, <1>2, <1>3, <1>4, <1>5, <1>6, <1>7, <1>8
    DEF Next, vars, Kept, AcquireEnqueue, CommitEnqueue, AbortEnqueue, slotVars, ReconcileMailbox,
        CompleteSignals, MarkStarted, PauseSlot

\* A terminal intent never changes again, whichever stale handles are used.
THEOREM TerminalFinal == Spec => TerminalIsFinal
  <1>1. IInv /\ [Next]_vars =>
          [\A i \in DOMAIN intents :
             intents[i].state \in Terminal => i \in DOMAIN intents' /\ intents'[i] = intents[i]]_vars
    BY TerminalStep DEF Live
  <1>. QED BY <1>1, SpecInv, PTL DEF Spec, TerminalIsFinal

\* A batch that lost its slot never owns it again.
THEOREM OwnershipFinal == Spec => LostOwnershipIsFinal
  <1>1. IInv /\ [Next]_vars =>
          [\A s \in Slots : active'[s] # active[s] => active'[s] \notin DOMAIN batches]_vars
    BY OwnershipStep
  <1>. QED BY <1>1, SpecInv, PTL DEF Spec, LostOwnershipIsFinal

\* cancel_run drains the cancelled run completely and ends nothing else.
THEOREM CancelExact == Spec => CancelRunIsExact
  <1>1. ASSUME IInv, NEW r \in Runs, CancelRun(r)
        PROVE  /\ \A l \in leases' : l.run # r
               /\ \A i \in DOMAIN intents : Live(i) => (Live(i)' <=> intents[i].run # r)
    <2>1. \A l \in leases' : l.run # r
      BY <1>1 DEF CancelRun
    <2>2. \A i \in DOMAIN intents : Live(i) => (Live(i)' <=> intents[i].run # r)
      BY <1>1, CancelRunFacts DEF Live, Terminal
    <2>. QED BY <2>1, <2>2
  <1>2. IInv =>
          [\A r \in Runs : CancelRun(r) =>
             /\ \A l \in leases' : l.run # r
             /\ \A i \in DOMAIN intents : Live(i) => (Live(i)' <=> intents[i].run # r)]_vars
    BY <1>1
  <1>. QED BY <1>2, SpecInv, PTL DEF Spec, CancelRunIsExact
=============================================================================
