------------------------- MODULE TeamSessionProofs -------------------------
(***************************************************************************)
(* Proofs about TeamSession, for every number of slots, callers, runs and  *)
(* messages, every bound and every set of faults: a session uses its       *)
(* coordinator as SlotWork specifies, no run is reported as failed that    *)
(* has not failed, no batch is left without a loop, no message is prompted *)
(* twice, and no message that was enqueued is left unread in a session     *)
(* that rests.                                                             *)
(***************************************************************************)
EXTENDS TeamSession, SlotWorkProofs, SequenceTheorems

-----------------------------------------------------------------------------
(* The invariant: what calls, loops and pending effects carry with them.    *)

Runtimes == {"Ready", "Starting", "Failed"}
Statuses == {"Idle", "Working", "Error"}
MsgOrNone == Messages \cup {NoMsg}

\* The statuses a pending effect may set: only a start that is skipped sets Idle.
LaterStatuses == IF "busy" \in Faults THEN Statuses ELSE {"Working", "Error"}

\* Some work of run r has failed.
HasFailed(r) == \E i \in OfRun(r) : intents[i].state = "Failed"

\* The summaries that say of a run that it has failed only if it has.
TrueSummaries ==
    {x \in [run : Runs, work : BOOLEAN, running : BOOLEAN, failed : BOOLEAN] :
        x.failed => HasFailed(x.run)}

\* The batches task t may end: a loop only those of its slot.
BatchesOf(t) == {b \in DOMAIN batches : t \in Slots => batches[b].slot = t}

\* The effects a task may have pending, if sums are the true summaries and mine
\* the batches it may end.
EffectSet(sums, mine) ==
    ({"apply"} \X SUBSET sums)
      \cup ({"unbind", "answer"} \X SUBSET (Runs \cup {NoRun}))
      \cup ({"read"} \X SUBSET (SUBSET Messages))
      \cup ({"notify"} \X SUBSET Slots)
      \cup ({"stop"} \X SUBSET (0..MaxOps))
      \cup ({"status"} \X SUBSET (Slots \X LaterStatuses))
      \cup ({"end"} \X SUBSET (mine \X Terminal))

IdleCalls    == [at : {"idle"}]
PublishCalls == [at : {"publish"}, slot : Slots, source : WorkSource,
                 binding : {"UserVisible", "ActiveRunOrBackground"} \cup Slots,
                 msg : MsgOrNone, saw : Runtimes]
AcquireCalls == [at : {"acquire"}, slot : Slots, source : WorkSource,
                 binding : {"UserVisible", "ActiveRunOrBackground"} \cup Slots,
                 msg : MsgOrNone]
LeaseCalls   == [at : {"write", "commit"}, lease : Lease, from : Slots \cup {"user"},
                 msg : MsgOrNone]
CancelCalls  == [at : {"cancel"}, run : Runs]
TellSources  == {"InterruptedNotification", "SpawnAttachFailure"}
TellCalls    == [at : {"tell"}, from : Slots, source : TellSources]
                  \cup [at : {"told"}, from : Slots, source : TellSources, row : Messages]
AttachCalls  == [at : {"constrain", "attaching", "again"}, slot : Slots, to : Runtimes]

CallStates == IdleCalls \cup PublishCalls \cup AcquireCalls \cup LeaseCalls
                \cup CancelCalls \cup TellCalls \cup AttachCalls

\* Where a loop may be, if mine are the batches of its slot and msgs the rows
\* of the mailbox.
PlainLoops(mine, msgs)  == [at : {"wait", "prepare", "peek", "finalize", "report", "settled"}]
SawLoops(mine, msgs)    == [at : {"constrain"}, saw : Runtimes]
SeenLoops(mine, msgs)   == [at : {"reconcile", "next"}, seen : SUBSET msgs]
SettleLoops(mine, msgs) == [at : {"settle"}, signals : (SUBSET Ids) \ {{}}]
BatchLoops(mine, msgs)  == [at : {"prompt", "start"}, batch : mine, seen : SUBSET msgs]
TurnLoops(mine, msgs)   == [at : {"turn"}, batch : mine, seen : SUBSET msgs,
                            turn : {"started", "live", "unlaunched", "stopped"}]

LoopStates(mine, msgs) ==
    PlainLoops(mine, msgs) \cup SawLoops(mine, msgs) \cup SeenLoops(mine, msgs)
      \cup SettleLoops(mine, msgs) \cup BatchLoops(mine, msgs) \cup TurnLoops(mine, msgs)

RunInv ==
    /\ run \in [id : issued \cup {NoRun}, accepted : BOOLEAN,
                status : M!ActiveStatus \cup M!SettledStatus]
    /\ issued \subseteq Runs
    /\ M!IsActive => run.id \in Runs
    /\ FailedIsEarned

MailInv ==
    /\ rows \in Seq([from : Slots \cup {"user"}, kind : {"message", "idle"}])
    /\ DOMAIN rows \subseteq Messages
    /\ unread \in [Slots -> SUBSET DOMAIN rows]
    /\ prompted \subseteq DOMAIN rows
    /\ untold \subseteq Tasks

MemberInv ==
    /\ runtime \in [Slots -> Runtimes]
    /\ status \in [Slots -> Statuses]
    /\ role \in [Slots -> BOOLEAN]
    /\ deaf \subseteq Slots
    /\ signal \in [Slots -> BOOLEAN]

CallInv == call \in [Tasks -> CallStates]

LoopInv == /\ DOMAIN loop = Slots
           /\ loop = [s \in Slots |-> loop[s]]
           /\ \A s \in Slots : loop[s] \in LoopStates(BatchesOf(s), DOMAIN rows)

TodoInv == /\ DOMAIN todo = Tasks
           /\ todo = [t \in Tasks |-> todo[t]]
           /\ \A t \in Tasks : todo[t] \in Seq(EffectSet(TrueSummaries, BatchesOf(t)))

\* The members of every batch ever claimed are intents.
MembersExist == \A b \in DOMAIN batches : batches[b].members \subseteq DOMAIN intents

SessInv == IInv /\ MembersExist /\ RunInv /\ MailInv /\ MemberInv /\ CallInv /\ LoopInv /\ TodoInv

-----------------------------------------------------------------------------
(* Facts about effects, calls and loops                                     *)

\* An effect without arguments is no effect.
LEMMA EffectSeq ==
  ASSUME NEW S, NEW kind, NEW args, <<kind, args>> \in S
  PROVE  Effect(kind, args) \in Seq(S)
  <1>1. << <<kind, args>> >> \in Seq(S)
    OBVIOUS
  <1>2. <<>> \in Seq(S)
    OBVIOUS
  <1>. QED BY <1>1, <1>2 DEF Effect

\* What the argument of a pending effect of each kind is.
LEMMA EffectKinds ==
  ASSUME NEW sums, NEW mine, NEW e \in EffectSet(sums, mine)
  PROVE  /\ e = <<e[1], e[2]>>
         /\ e[1] = "apply" => e[2] \subseteq sums
         /\ e[1] = "status" => e[2] \subseteq Slots \X LaterStatuses
         /\ e[1] = "end" => e[2] \subseteq mine \X Terminal
  BY DEF EffectSet

\* Members of EffectSet.
LEMMA EffectIntro ==
  ASSUME NEW sums, NEW mine, NEW args
  PROVE  /\ args \subseteq sums => <<"apply", args>> \in EffectSet(sums, mine)
         /\ args \subseteq Runs \cup {NoRun} => /\ <<"unbind", args>> \in EffectSet(sums, mine)
                                            /\ <<"answer", args>> \in EffectSet(sums, mine)
         /\ args \subseteq SUBSET Messages => <<"read", args>> \in EffectSet(sums, mine)
         /\ args \subseteq Slots => <<"notify", args>> \in EffectSet(sums, mine)
         /\ args \subseteq 0..MaxOps => <<"stop", args>> \in EffectSet(sums, mine)
         /\ args \subseteq Slots \X LaterStatuses => <<"status", args>> \in EffectSet(sums, mine)
         /\ args \subseteq mine \X Terminal => <<"end", args>> \in EffectSet(sums, mine)
  BY DEF EffectSet

\* Fewer arguments of the same kind.
LEMMA EffectShrinks ==
  ASSUME NEW sums, NEW mine, NEW e \in EffectSet(sums, mine), NEW x
  PROVE  <<e[1], e[2] \ {x}>> \in EffectSet(sums, mine)
  BY DEF EffectSet

\* More summaries and more batches allow more effects.
LEMMA EffectsGrow ==
  ASSUME NEW S1, NEW S2, NEW B1, NEW B2, S1 \subseteq S2, B1 \subseteq B2
  PROVE  Seq(EffectSet(S1, B1)) \subseteq Seq(EffectSet(S2, B2))
  <1>1. EffectSet(S1, B1) \subseteq EffectSet(S2, B2)
    BY DEF EffectSet
  <1>. QED BY <1>1, SeqMonotonic

\* More batches and more rows allow more loop states.
LEMMA LoopsGrow ==
  ASSUME NEW B1, NEW B2, NEW M1, NEW M2, B1 \subseteq B2, M1 \subseteq M2
  PROVE  LoopStates(B1, M1) \subseteq LoopStates(B2, M2)
  <1>1. SUBSET M1 \subseteq SUBSET M2
    OBVIOUS
  <1>2. BatchLoops(B1, M1) \subseteq BatchLoops(B2, M2)
    BY <1>1 DEF BatchLoops
  <1>3. TurnLoops(B1, M1) \subseteq TurnLoops(B2, M2)
    BY <1>1 DEF TurnLoops
  <1>4. SeenLoops(B1, M1) \subseteq SeenLoops(B2, M2)
    BY <1>1 DEF SeenLoops
  <1>. QED BY <1>2, <1>3, <1>4 DEF LoopStates, PlainLoops, SawLoops, SettleLoops

\* What a call carries, by where it is.
LEMMA CallKinds ==
  ASSUME NEW q \in CallStates
  PROVE  /\ q.at = "publish" => q \in PublishCalls
         /\ q.at = "acquire" => q \in AcquireCalls
         /\ q.at \in {"write", "commit"} => q \in LeaseCalls
         /\ q.at = "cancel" => q \in CancelCalls
         /\ q.at \in {"tell", "told"} => q \in TellCalls
         /\ q.at \in {"constrain", "attaching", "again"} => q \in AttachCalls
  BY DEF CallStates, IdleCalls, PublishCalls, AcquireCalls, LeaseCalls, CancelCalls, TellCalls,
         AttachCalls

\* What a loop carries, by where it is.
LEMMA LoopKinds ==
  ASSUME NEW mine, NEW msgs, NEW q \in LoopStates(mine, msgs)
  PROVE  /\ q.at = "constrain" => q \in SawLoops(mine, msgs)
         /\ q.at \in {"reconcile", "next"} => q \in SeenLoops(mine, msgs)
         /\ q.at = "settle" => q \in SettleLoops(mine, msgs)
         /\ q.at \in {"prompt", "start"} => q \in BatchLoops(mine, msgs)
         /\ q.at = "turn" => q \in TurnLoops(mine, msgs)
  BY DEF LoopStates, PlainLoops, SawLoops, SeenLoops, SettleLoops, BatchLoops, TurnLoops

-----------------------------------------------------------------------------
(* What a step of the coordinator keeps                                     *)

\* Batches are never forgotten or changed.
LEMMA BatchesStay ==
  ASSUME IInv, [Next]_vars
  PROVE  \A b \in DOMAIN batches : b \in DOMAIN batches' /\ batches'[b] = batches[b]
  <1>1. CASE \E s \in Slots : ClaimNext(s)
    <2>1. lastOp + 1 \notin DOMAIN batches
      BY SlotWorkAssumption DEF IInv, TypeOK
    <2>. QED BY <1>1, <2>1 DEF ClaimNext
  <1>2. CASE UNCHANGED batches
    BY <1>2
  <1>. QED
    BY <1>1, <1>2 DEF Next, vars, AcquireEnqueue, CommitEnqueue, AbortEnqueue, ReconcileMailbox,
       CompleteSignals, MarkStarted, RetryStart, TerminalizeBatch, CancelRun, PauseSlot,
       SetRuntimeConstraint, RemoveSlot, Stop

\* Intents are never forgotten, and keep their message.
LEMMA IntentsStay ==
  ASSUME IInv, [Next]_vars
  PROVE  \A i \in DOMAIN intents : i \in DOMAIN intents' /\ intents'[i].msg = intents[i].msg
  <1>. DEFINE Kept == \A i \in DOMAIN intents :
                         i \in DOMAIN intents' /\ intents'[i].msg = intents[i].msg
  <1>1. CASE UNCHANGED intents
    BY <1>1
  <1>2. CASE \E S, st, b : intents' = Moved(S, st, b)
    BY <1>2 DEF Moved, InState
  <1>3. ASSUME NEW l \in leases, NEW m, CommitEnqueue(l, m)
        PROVE  Kept
    BY <1>3 DEF CommitEnqueue, Fresh
  <1>4. ASSUME NEW s \in Slots, NEW U, ReconcileMailbox(s, U)
        PROVE  Kept
    <2>. DEFINE stale == StaleQueued(s, U)
                fresh == Unowned(s, U)
    <2>1. PICK id \in [fresh -> Ids] :
            LET new == {id[m] : m \in fresh} IN
            /\ Fresh(new)
            /\ intents' = [j \in DOMAIN intents \cup new |->
                 IF j \in new
                 THEN [slot |-> s, source |-> "RecoveryDrain",
                       msg |-> CHOOSE m \in fresh : id[m] = j,
                       run |-> NoRun, state |-> "Queued", batch |-> 0]
                 ELSE IF j \in stale THEN InState(intents[j], "Completed", 0)
                 ELSE intents[j]]
      BY <1>4 DEF ReconcileMailbox
    <2>. HIDE DEF stale, fresh
    <2>. QED BY <2>1 DEF Fresh, InState
  <1>5. ASSUME NEW r \in Runs, CancelRun(r)
        PROVE  Kept
    BY <1>5 DEF CancelRun, InState
  <1>6. ASSUME NEW s \in Slots, NEW c, SetRuntimeConstraint(s, c)
        PROVE  Kept
    BY <1>6 DEF SetRuntimeConstraint, InState
  <1>. QED
    BY <1>1, <1>2, <1>3, <1>4, <1>5, <1>6 DEF Next, vars, AcquireEnqueue, AbortEnqueue, ClaimNext,
       CompleteSignals, MarkStarted, RetryStart, TerminalizeBatch, PauseSlot, RemoveSlot, Stop

\* Members of batches stay intents.
LEMMA MembersStay ==
  ASSUME IInv, MembersExist, [Next]_vars
  PROVE  MembersExist'
  <1>1. DOMAIN intents \subseteq DOMAIN intents'
    BY IntentsStay
  <1>2. CASE \E s \in Slots : ClaimNext(s)
    <2>1. PICK s \in Slots : ClaimNext(s)
      BY <1>2
    <2>2. PICK p \in Priorities :
            batches' = [b \in DOMAIN batches \cup {lastOp'} |->
              IF b = lastOp' THEN [slot |-> s, members |-> MessageIntents(s, p), priority |-> p]
              ELSE batches[b]]
      BY <2>1 DEF ClaimNext
    <2>3. MessageIntents(s, p) \subseteq DOMAIN intents
      BY DEF MessageIntents, IInv, QueuesMatchIntents
    <2>. QED BY <1>1, <2>2, <2>3 DEF MembersExist
  <1>3. CASE UNCHANGED batches
    BY <1>1, <1>3 DEF MembersExist
  <1>. QED
    BY <1>2, <1>3 DEF Next, vars, AcquireEnqueue, CommitEnqueue, AbortEnqueue, ReconcileMailbox,
       CompleteSignals, MarkStarted, RetryStart, TerminalizeBatch, CancelRun, PauseSlot,
       SetRuntimeConstraint, RemoveSlot, Stop

\* A failed run has failed for ever, so summaries stay true and batches stay
\* where they were.
LEMMA NothingIsForgotten ==
  ASSUME IInv, [Next]_vars
  PROVE  /\ \A r : HasFailed(r) => HasFailed(r)'
         /\ TrueSummaries \subseteq TrueSummaries'
         /\ \A t : BatchesOf(t) \subseteq BatchesOf(t)'
  <1>1. \A r : HasFailed(r) => HasFailed(r)'
    <2> SUFFICES ASSUME NEW r, HasFailed(r) PROVE HasFailed(r)'
      OBVIOUS
    <2>1. PICK i \in DOMAIN intents : intents[i].run = r /\ intents[i].state = "Failed"
      BY DEF HasFailed, OfRun
    <2>2. i \in DOMAIN intents' /\ intents'[i] = intents[i]
      BY <2>1, TerminalStep DEF Live, Terminal
    <2>. QED BY <2>1, <2>2 DEF HasFailed, OfRun
  <1>2. TrueSummaries \subseteq TrueSummaries'
    BY <1>1 DEF TrueSummaries
  <1>3. \A t : BatchesOf(t) \subseteq BatchesOf(t)'
    BY BatchesStay DEF BatchesOf
  <1>. QED BY <1>1, <1>2, <1>3

\* What is not touched by a step of the session stays as it should be.
LEMMA Frames ==
  ASSUME SessInv, [Next]_vars
  PROVE  /\ IInv' /\ MembersExist'
         /\ UNCHANGED runVars => RunInv'
         /\ UNCHANGED mailVars => MailInv'
         /\ UNCHANGED <<rows, unread, prompted>> /\ untold' \subseteq Tasks => MailInv'
         /\ UNCHANGED <<memberVars, signal>> => MemberInv'
         /\ UNCHANGED <<runtime, status, role, signal>> /\ deaf' \subseteq Slots => MemberInv'
         /\ UNCHANGED call => CallInv'
         /\ UNCHANGED loop /\ DOMAIN rows \subseteq DOMAIN rows' => LoopInv'
         /\ UNCHANGED todo => TodoInv'
  <1>1. UNCHANGED runVars => RunInv'
    BY NothingIsForgotten DEF SessInv, RunInv, runVars, FailedIsEarned, HasFailed, M!IsActive
  <1>2. UNCHANGED mailVars => MailInv'
    BY DEF SessInv, MailInv, mailVars
  <1>3. UNCHANGED <<memberVars, signal>> => MemberInv'
    BY DEF SessInv, MemberInv, memberVars
  <1>4. UNCHANGED call => CallInv'
    BY DEF SessInv, CallInv
  <1>5. UNCHANGED loop /\ DOMAIN rows \subseteq DOMAIN rows' => LoopInv'
    <2> SUFFICES ASSUME UNCHANGED loop, DOMAIN rows \subseteq DOMAIN rows' PROVE LoopInv'
      OBVIOUS
    <2>1. \A s \in Slots : LoopStates(BatchesOf(s), DOMAIN rows)
                             \subseteq LoopStates(BatchesOf(s)', DOMAIN rows')
      BY NothingIsForgotten, LoopsGrow DEF SessInv
    <2>. QED BY <2>1 DEF SessInv, LoopInv
  <1>6. UNCHANGED todo => TodoInv'
    <2>1. \A t \in Tasks : Seq(EffectSet(TrueSummaries, BatchesOf(t)))
                             \subseteq Seq(EffectSet(TrueSummaries', BatchesOf(t)'))
      BY NothingIsForgotten, EffectsGrow DEF SessInv
    <2>. QED BY <2>1 DEF SessInv, TodoInv
  <1>7. IInv' /\ MembersExist'
    BY NextInv, MembersStay DEF SessInv
  <1>8. UNCHANGED <<runtime, status, role, signal>> /\ deaf' \subseteq Slots => MemberInv'
    BY DEF SessInv, MemberInv
  <1>9. UNCHANGED <<rows, unread, prompted>> /\ untold' \subseteq Tasks => MailInv'
    BY DEF SessInv, MailInv
  <1>. QED BY <1>1, <1>2, <1>3, <1>4, <1>5, <1>6, <1>7, <1>8, <1>9

-----------------------------------------------------------------------------
(* Facts about pending effects                                              *)

\* A summary taken at the unlock is true.
LEMMA PublishSeq ==
  ASSUME NEW R \in SUBSET (Runs \cup {NoRun}), NEW mine
  PROVE  Publish(R) \in Seq(EffectSet(TrueSummaries', mine))
  <1>1. \A r \in Runs : RunSummary(r)' \in TrueSummaries'
    BY DEF RunSummary, TrueSummaries, HasFailed
  <1>2. {RunSummary(r)' : r \in R \ {NoRun}} \subseteq TrueSummaries'
    BY <1>1
  <1>3. <<"apply", {RunSummary(r)' : r \in R \ {NoRun}}>> \in EffectSet(TrueSummaries', mine)
    BY <1>2, EffectIntro
  <1>. QED BY <1>3, EffectSeq DEF Publish

\* Messages to be marked read are messages.
LEMMA MarkReadSeq ==
  ASSUME NEW msgs \in SUBSET MsgOrNone, NEW sums, NEW mine
  PROVE  MarkRead(msgs) \in Seq(EffectSet(sums, mine))
  <1>1. {msgs \ {NoMsg}} \ {{}} \subseteq SUBSET Messages
    BY DEF MsgOrNone
  <1>2. <<"read", {msgs \ {NoMsg}} \ {{}}>> \in EffectSet(sums, mine)
    BY <1>1, EffectIntro
  <1>. QED BY <1>2, EffectSeq DEF MarkRead

\* Messages and runs of intents.
LEMMA IntentFacts ==
  ASSUME IInv, NEW S \in SUBSET DOMAIN intents
  PROVE  MessagesOf(S) \in SUBSET MsgOrNone /\ RunsOf(S) \in SUBSET (Runs \cup {NoRun})
  BY DEF IInv, TypeOK, Intent, MessagesOf, RunsOf, MsgOrNone

\* The members of a batch of the past, where they have messages, and its runs.
LEMMA BatchFacts ==
  ASSUME IInv, NEW b \in DOMAIN batches
  PROVE  /\ b \in 1..MaxOps
         /\ batches[b] \in Batch
  BY SlotWorkAssumption DEF IInv, TypeOK

\* The next effect of a task.
LEMMA HeadFacts ==
  ASSUME SessInv, NEW t \in Tasks, todo[t] # <<>>
  PROVE  /\ Head(todo[t]) \in EffectSet(TrueSummaries, BatchesOf(t))
         /\ Tail(todo[t]) \in Seq(EffectSet(TrueSummaries, BatchesOf(t)))
  BY HeadTailProperties DEF SessInv, TodoInv

\* A task gets a new list of effects.
LEMMA ThenInv ==
  ASSUME SessInv, [Next]_vars, NEW t \in Tasks,
         NEW q \in Seq(EffectSet(TrueSummaries', BatchesOf(t)')), Then(t, q)
  PROVE  TodoInv'
  <1>1. \A u \in Tasks : Seq(EffectSet(TrueSummaries, BatchesOf(u)))
                           \subseteq Seq(EffectSet(TrueSummaries', BatchesOf(u)'))
    BY NothingIsForgotten, EffectsGrow DEF SessInv
  <1>2. todo' = [u \in Tasks |-> IF u = t THEN q ELSE todo[u]]
    BY DEF Then, SessInv, TodoInv
  <1>. QED BY <1>1, <1>2 DEF SessInv, TodoInv

\* A task has carried out an effect and got others to do.
LEMMA CarriedInv ==
  ASSUME SessInv, [Next]_vars, NEW t \in Tasks, todo[t] # <<>>, NEW x,
         NEW more \in Seq(EffectSet(TrueSummaries', BatchesOf(t)')), Carried(t, x, more)
  PROVE  TodoInv'
  <1>. DEFINE S == EffectSet(TrueSummaries', BatchesOf(t)')
              h == Head(todo[t])
  <1>1. EffectSet(TrueSummaries, BatchesOf(t)) \subseteq S
    <2>1. TrueSummaries \subseteq TrueSummaries' /\ BatchesOf(t) \subseteq BatchesOf(t)'
      BY NothingIsForgotten DEF SessInv
    <2>. QED BY <2>1 DEF EffectSet
  <1>2. Effect(h[1], h[2] \ {x}) \in Seq(S)
    BY <1>1, HeadFacts, EffectShrinks, EffectSeq
  <1>3. Tail(todo[t]) \in Seq(S)
    BY <1>1, HeadFacts, SeqMonotonic
  <1>. HIDE DEF S
  <1>4. more \o Effect(h[1], h[2] \ {x}) \o Tail(todo[t]) \in Seq(S)
    BY <1>2, <1>3, ConcatProperties DEF S
  <1>. QED BY <1>4, ThenInv DEF Carried, S

\* A loop goes to another place.
LEMMA GotoInv ==
  ASSUME SessInv, [Next]_vars, DOMAIN rows \subseteq DOMAIN rows', NEW s \in Slots,
         NEW q \in LoopStates(BatchesOf(s)', DOMAIN rows'), Goto(s, q)
  PROVE  LoopInv'
  <1>1. \A u \in Slots : LoopStates(BatchesOf(u), DOMAIN rows)
                           \subseteq LoopStates(BatchesOf(u)', DOMAIN rows')
    BY NothingIsForgotten, LoopsGrow DEF SessInv
  <1>2. loop' = [u \in Slots |-> IF u = s THEN q ELSE loop[u]]
    BY DEF Goto, SessInv, LoopInv
  <1>. QED BY <1>1, <1>2 DEF SessInv, LoopInv

\* A call goes to another place.
LEMMA CallMoves ==
  ASSUME SessInv, NEW t \in Tasks, NEW q \in CallStates, call' = [call EXCEPT ![t] = q]
  PROVE  CallInv'
  BY DEF SessInv, CallInv

LEMMA IdleIsCall == Idle \in CallStates
  BY DEF Idle, CallStates, IdleCalls

\* Places without anything to carry.
LEMMA PlainLoop ==
  ASSUME NEW pc \in {"wait", "prepare", "peek", "finalize", "report", "settled"}, NEW mine, NEW msgs
  PROVE  At(pc) \in LoopStates(mine, msgs)
  BY DEF At, LoopStates, PlainLoops

-----------------------------------------------------------------------------
(* Pending effects                                                          *)

\* Carrying out a pending effect.
LEMMA ContinueInv ==
  ASSUME SessInv, NEW t \in Tasks, Continue(t)
  PROVE  [Next]_vars /\ SessInv'
  <1>. DEFINE S == EffectSet(TrueSummaries', BatchesOf(t)')
              kind == Head(todo[t])[1]
  <1>0. todo[t] # <<>> /\ <<>> \in Seq(S)
    BY EmptySeq DEF Continue
  <1>1. PICK x \in Head(todo[t])[2] :
          \/ kind = "apply"  /\ Apply(t, x)
          \/ kind = "unbind" /\ Unbind(t, x)
          \/ kind = "read"   /\ Read(t, x)
          \/ kind = "notify" /\ Notify(t, x)
          \/ kind = "stop"   /\ StopTurn(t, x)
          \/ kind = "status" /\ SetStatus(t, x[1], x[2])
          \/ kind = "end"    /\ EndBatch(t, x[1], x[2])
          \/ kind = "answer" /\ Answer(t, x)
    BY DEF Continue
  <1>2. Head(todo[t]) \in EffectSet(TrueSummaries, BatchesOf(t))
    BY <1>0, HeadFacts
  <1>. HIDE DEF S
  <1>3. CASE kind = "apply" /\ Apply(t, x)
    <2>1. UNCHANGED <<vars, mailVars, memberVars, signal, call, loop>>
      BY <1>3 DEF Apply
    <2>2. TodoInv'
      BY <1>0, <1>3, <2>1, CarriedInv DEF Apply, S
    <2>3. x \in TrueSummaries
      BY <1>1, <1>2, <1>3, EffectKinds
    <2>4. /\ run' = IF run.id = x.run
                    THEN [id |-> run.id, status |-> M!StatusAfter(x), accepted |-> TRUE] ELSE run
          /\ issued' = issued
      BY <1>3 DEF Apply, M!ApplyWorkSummary
    <2>5. RunInv'
      <3>1. CASE run.id # x.run
        BY <2>1, <2>4, <3>1 DEF SessInv, RunInv, FailedIsEarned, OfRun, vars, M!IsActive
      <3>2. CASE run.id = x.run
        <4>1. run.id \in Runs /\ (x.failed => HasFailed(run.id))
          BY <2>3, <3>2 DEF TrueSummaries
        <4>2. M!StatusAfter(x) \in M!ActiveStatus \cup M!SettledStatus
          BY DEF M!StatusAfter, M!ActiveStatus, M!SettledStatus, SessInv, RunInv
        <4>3. M!StatusAfter(x) = "Failed" => HasFailed(run.id)
          BY <4>1 DEF M!StatusAfter, SessInv, RunInv, FailedIsEarned, HasFailed
        <4>. QED BY <2>1, <2>4, <3>2, <4>1, <4>2, <4>3
             DEF SessInv, RunInv, FailedIsEarned, HasFailed, OfRun, vars, M!IsActive
      <3>. QED BY <3>1, <3>2
    <2>. QED BY <2>1, <2>2, <2>5, Frames DEF SessInv, mailVars
  <1>4. CASE kind = "unbind" /\ Unbind(t, x)
    <2>1. UNCHANGED <<vars, mailVars, memberVars, signal, call, loop>>
      BY <1>4 DEF Unbind
    <2>2. TodoInv'
      BY <1>0, <1>4, <2>1, CarriedInv DEF Unbind, S
    <2>3. run' \in {run, M!NoRecord} /\ issued' = issued
      BY <1>4 DEF Unbind, M!AbortBinding
    <2>4. RunInv'
      <3>1. CASE run' = run
        BY <2>1, <2>3, <3>1, Frames DEF runVars
      <3>2. CASE run' = M!NoRecord
        BY <2>3, <3>2 DEF SessInv, RunInv, FailedIsEarned, M!IsActive, M!NoRecord,
           M!ActiveStatus, M!SettledStatus
      <3>. QED BY <2>3, <3>1, <3>2
    <2>. QED BY <2>1, <2>2, <2>4, Frames DEF SessInv, mailVars
  <1>5. CASE kind = "read" /\ Read(t, x)
    <2>1. UNCHANGED <<vars, runVars, rows, prompted, memberVars, signal, call, loop>>
      BY <1>5 DEF Read
    <2>2. TodoInv'
      BY <1>0, <1>5, <2>1, CarriedInv DEF Read, S
    <2>3. MailInv'
      BY <1>5, <2>1 DEF Read, SessInv, MailInv
    <2>. QED BY <2>1, <2>2, <2>3, Frames DEF SessInv
  <1>6. CASE kind = "notify" /\ Notify(t, x)
    <2>1. UNCHANGED <<vars, runVars, mailVars, memberVars, call, loop>>
      BY <1>6 DEF Notify
    <2>2. TodoInv'
      BY <1>0, <1>6, <2>1, CarriedInv DEF Notify, S
    <2>3. MemberInv'
      BY <1>6, <2>1 DEF Notify, SessInv, MemberInv, memberVars
    <2>. QED BY <2>1, <2>2, <2>3, Frames DEF SessInv, mailVars
  <1>7. CASE kind = "stop" /\ StopTurn(t, x)
    <2>1. UNCHANGED <<vars, runVars, mailVars, memberVars, signal, call>>
      BY <1>7 DEF StopTurn
    <2>2. TodoInv'
      BY <1>0, <1>7, <2>1, CarriedInv DEF StopTurn, S
    <2>3. LoopInv'
      <3>1. CASE loop' = loop
        BY <2>1, <3>1, Frames DEF mailVars
      <3>2. ASSUME NEW s \in Slots, loop[s].at = "turn",
                   loop' = [loop EXCEPT ![s].turn = Stopped(@)]
            PROVE  LoopInv'
        <4>1. loop[s] \in TurnLoops(BatchesOf(s), DOMAIN rows)
          BY <3>2, LoopKinds DEF SessInv, LoopInv
        <4>2. [loop[s] EXCEPT !.turn = Stopped(@)] \in TurnLoops(BatchesOf(s), DOMAIN rows)
          BY <4>1 DEF TurnLoops, Stopped
        <4>3. BatchesOf(s)' = BatchesOf(s) /\ rows' = rows
          BY <2>1 DEF BatchesOf, vars, mailVars
        <4>4. Goto(s, [loop[s] EXCEPT !.turn = Stopped(@)])
          BY <3>2 DEF Goto
        <4>5. [loop[s] EXCEPT !.turn = Stopped(@)] \in LoopStates(BatchesOf(s)', DOMAIN rows')
          BY <4>2, <4>3 DEF LoopStates
        <4>. QED BY <2>1, <4>3, <4>4, <4>5, GotoInv
      <3>3. \A s : s \notin Slots => [loop EXCEPT ![s].turn = Stopped(@)] = loop
        BY DEF SessInv, LoopInv
      <3>. QED BY <1>7, <3>1, <3>2, <3>3 DEF StopTurn
    <2>. QED BY <2>1, <2>2, <2>3, Frames DEF SessInv
  <1>8. CASE kind = "status" /\ SetStatus(t, x[1], x[2])
    <2>1. UNCHANGED <<vars, runVars, mailVars, runtime, role, deaf, signal, call, loop>>
      BY <1>8 DEF SetStatus
    <2>2. TodoInv'
      BY <1>0, <1>8, <2>1, CarriedInv DEF SetStatus, S
    <2>3. x[2] \in Statuses
      BY <1>1, <1>2, <1>8, EffectKinds DEF LaterStatuses, Statuses
    <2>4. MemberInv'
      BY <1>8, <2>1, <2>3 DEF SetStatus, SessInv, MemberInv
    <2>. QED BY <2>1, <2>2, <2>4, Frames DEF SessInv, mailVars
  <1>9. CASE kind = "end" /\ EndBatch(t, x[1], x[2])
    <2>1. UNCHANGED <<runVars, mailVars, memberVars, signal, call, loop>>
      BY <1>9 DEF EndBatch
    <2>2. x[1] \in DOMAIN batches /\ x[2] \in Terminal
      BY <1>1, <1>2, <1>9, EffectKinds DEF BatchesOf
    <2>3. [Next]_vars
      BY <1>9, <2>2 DEF EndBatch, Next
    <2>4. RunsOf(batches[x[1]].members) \in SUBSET (Runs \cup {NoRun})
      BY <2>2, IntentFacts DEF SessInv, MembersExist
    <2>5. PICK more \in Seq(S) : Carried(t, <<x[1], x[2]>>, more)
      BY <1>0, <1>9, <2>4, PublishSeq DEF EndBatch, S
    <2>6. TodoInv'
      BY <1>0, <2>3, <2>5, CarriedInv DEF S
    <2>. QED BY <2>1, <2>3, <2>6, Frames DEF SessInv, mailVars
  <1>10. CASE kind = "answer" /\ Answer(t, x)
    <2>1. UNCHANGED <<vars, runVars, mailVars, memberVars, signal, call, loop>>
      BY <1>10 DEF Answer
    <2>2. TodoInv'
      BY <1>0, <1>10, <2>1, CarriedInv DEF Answer, S
    <2>. QED BY <2>1, <2>2, Frames DEF SessInv, mailVars
  <1>. QED BY <1>1, <1>3, <1>4, <1>5, <1>6, <1>7, <1>8, <1>9, <1>10

-----------------------------------------------------------------------------
(* Calls                                                                    *)

\* Three lists in a row.
LEMMA Concat3 ==
  ASSUME NEW S, NEW a \in Seq(S), NEW b \in Seq(S), NEW c \in Seq(S)
  PROVE  a \o b \in Seq(S) /\ a \o b \o c \in Seq(S)
  BY ConcatProperties

\* The first step of an enqueue.
LEMMA RequestInv ==
  ASSUME SessInv, NEW t \in Tasks, NEW s \in Slots, NEW source \in WorkSource,
         NEW binding \in {"UserVisible", "ActiveRunOrBackground"} \cup Slots,
         NEW m \in MsgOrNone, Request(t, s, source, binding, m)
  PROVE  CallInv'
  <1>1. runtime[s] \in Runtimes
    BY DEF SessInv, MemberInv
  <1>2. [at |-> "publish", slot |-> s, source |-> source, binding |-> binding,
         msg |-> m, saw |-> runtime[s]] \in PublishCalls
    BY <1>1 DEF PublishCalls
  <1>. QED BY <1>2, CallMoves DEF Request, CallStates

\* Telling the coordinator about a runtime.
LEMMA ConstrainInv ==
  ASSUME SessInv, NEW t \in Tasks, NEW s \in Slots, NEW c \in Runtimes,
         NEW rest \in Seq(EffectSet(TrueSummaries', BatchesOf(t)')), Constrain(t, s, c, rest)
  PROVE  [Next]_vars /\ TodoInv'
  <1>. DEFINE ended == {i \in LiveOf(s) : c = "Failed" /\ intents[i].run # NoRun}
              S == EffectSet(TrueSummaries', BatchesOf(t)')
  <1>1. [Next]_vars
    BY SessionAssumption DEF Constrain, Next, Runtimes, Constraints
  <1>2. ended \in SUBSET DOMAIN intents
    BY DEF LiveOf
  <1>3. Publish(RunsOf(ended)) \in Seq(S) /\ MarkRead(MessagesOf(ended)) \in Seq(S)
    BY <1>2, IntentFacts, PublishSeq, MarkReadSeq DEF SessInv
  <1>4. Then(t, Publish(RunsOf(ended)) \o MarkRead(MessagesOf(ended)) \o rest)
    BY DEF Constrain
  <1>. HIDE DEF S, ended
  <1>5. Publish(RunsOf(ended)) \o MarkRead(MessagesOf(ended)) \o rest \in Seq(S)
    BY <1>3, Concat3 DEF S
  <1>. QED BY <1>1, <1>4, <1>5, ThenInv DEF S

\* Giving up an enqueue.
LEMMA AbortInv ==
  ASSUME SessInv, NEW t \in Tasks, NEW l \in Lease,
         NEW rest \in Seq(EffectSet(TrueSummaries', BatchesOf(t)')), Abort(t, l, rest)
  PROVE  [Next]_vars /\ TodoInv'
  <1>. DEFINE S == EffectSet(TrueSummaries', BatchesOf(t)')
              runs == IF AbortEmptiesRun(l) THEN {l.run} ELSE {}
  <1>1. [Next]_vars
    BY DEF Abort, AbortEnqueue, Next
  <1>2. CASE l \notin leases /\ UNCHANGED vars /\ Then(t, rest)
    BY <1>1, <1>2, ThenInv
  <1>3. CASE Then(t, Effect("unbind", runs) \o Publish({l.run}) \o rest)
    <2>1. l.run \in Runs \cup {NoRun}
      BY DEF Lease
    <2>2. <<"unbind", runs>> \in S
      BY <2>1, EffectIntro
    <2>3. Effect("unbind", runs) \in Seq(S) /\ Publish({l.run}) \in Seq(S)
      BY <2>1, <2>2, EffectSeq, PublishSeq
    <2>. HIDE DEF S, runs
    <2>4. Effect("unbind", runs) \o Publish({l.run}) \o rest \in Seq(S)
      BY <2>3, Concat3 DEF S
    <2>. QED BY <1>1, <1>3, <2>4, ThenInv DEF S
  <1>. QED BY <1>2, <1>3 DEF Abort

\* A new row of the mailbox.
LEMMA WriteRowInv ==
  ASSUME SessInv, NEW s \in Slots, NEW from \in Slots \cup {"user"},
         NEW kind \in {"message", "idle"}, WriteRow(s, from, kind), UNCHANGED <<prompted, untold>>
  PROVE  /\ MailInv'
         /\ DOMAIN rows \subseteq DOMAIN rows'
         /\ Len(rows') \in Messages
  <1>. DEFINE R == [from : Slots \cup {"user"}, kind : {"message", "idle"}]
              row == [from |-> from, kind |-> kind]
  <1>1. rows \in Seq(R) /\ row \in R
    BY DEF SessInv, MailInv
  <1>2. rows' = Append(rows, row)
    BY DEF WriteRow
  <1>. HIDE DEF R, row
  <1>3. /\ rows' \in Seq(R) /\ Len(rows') = Len(rows) + 1 /\ Len(rows) \in Nat
        /\ DOMAIN rows = 1..Len(rows) /\ DOMAIN rows' = 1..Len(rows')
    BY <1>1, <1>2, AppendProperties, LenProperties
  <1>4. Len(rows') \in Messages /\ DOMAIN rows' \subseteq Messages
    BY <1>3, SessionAssumption DEF WriteRow
  <1>5. DOMAIN rows \subseteq DOMAIN rows'
    BY <1>3
  <1>6. unread' \in [Slots -> SUBSET DOMAIN rows']
    BY <1>3, <1>5 DEF WriteRow, SessInv, MailInv
  <1>. QED BY <1>3, <1>4, <1>5, <1>6 DEF SessInv, MailInv, R

\* The steps of an enqueue.
LEMMA EnqueueInv ==
  ASSUME SessInv, NEW t \in Tasks, EnqueueStep(t)
  PROVE  [Next]_vars /\ SessInv'
  <1>. DEFINE q == call[t]
              S == EffectSet(TrueSummaries', BatchesOf(t)')
  <1>0. q \in CallStates /\ <<>> \in Seq(S)
    BY EmptySeq DEF SessInv, CallInv
  <1>. HIDE DEF S
  <1>1. CASE PublishConstraint(t)
    <2>1. q \in PublishCalls
      BY <1>0, <1>1, CallKinds DEF PublishConstraint
    <2>2. /\ UNCHANGED <<runVars, mailVars, runtime, status, role, signal, loop>>
          /\ deaf' \subseteq Slots
      BY <1>1, <2>1 DEF PublishConstraint, PublishCalls, Misled, SessInv, MemberInv
    <2>3. [Next]_vars /\ TodoInv'
      BY <1>0, <1>1, <2>1, ConstrainInv DEF PublishConstraint, PublishCalls, S
    <2>4. [at |-> "acquire", slot |-> q.slot, source |-> q.source,
           binding |-> q.binding, msg |-> q.msg] \in CallStates
      BY <2>1 DEF PublishCalls, AcquireCalls, CallStates
    <2>5. CallInv'
      BY <1>1, <2>4, CallMoves DEF PublishConstraint
    <2>. QED BY <2>2, <2>3, <2>5, Frames DEF SessInv, mailVars
  <1>2. CASE Acquire(t)
    <2>. DEFINE source == IF q.source = "UserMessage" /\ M!IsActive THEN "UserIntervention"
                          ELSE q.source
    <2>1. q \in AcquireCalls
      BY <1>0, <1>2, CallKinds DEF Acquire
    <2>2. UNCHANGED <<mailVars, memberVars, signal, loop, todo>>
      BY <1>2 DEF Acquire
    <2>3. CASE UNCHANGED <<vars, runVars>> /\ call' = [call EXCEPT ![t] = Idle]
      <3>1. CallInv'
        BY <2>3, CallMoves, IdleIsCall
      <3>. QED BY <2>2, <2>3, <3>1, Frames DEF SessInv, mailVars
    <2>4. ASSUME NEW r \in Runs \cup {NoRun},
                 M!BindUserEnqueue(r) \/ UNCHANGED runVars,
                 AcquireEnqueue(t, q.slot, source, r),
                 call' = [call EXCEPT ![t] =
                   [at    |-> IF q.source # "IdleNotification" /\ q.msg = NoMsg
                              THEN "write" ELSE "commit",
                    lease |-> [id |-> t, slot |-> q.slot, source |-> source, run |-> r],
                    from  |-> IF q.binding \in Slots THEN q.binding ELSE "user",
                    msg   |-> q.msg]]
          PROVE  [Next]_vars /\ SessInv'
      <3>1. source \in WorkSource /\ q.slot \in Slots /\ t \in LeaseIds /\ source \in Sources
        BY <2>1, SessionAssumption DEF AcquireCalls, WorkSource, ForegroundSources
      <3>. HIDE DEF source
      <3>2. [Next]_vars
        BY <2>4, <3>1 DEF Next
      <3>3. [id |-> t, slot |-> q.slot, source |-> source, run |-> r] \in Lease
        BY <3>1 DEF Lease
      <3>4. CallInv'
        BY <2>1, <2>4, <3>3, CallMoves DEF AcquireCalls, LeaseCalls, CallStates
      <3>5. RunInv'
        <4>1. CASE UNCHANGED runVars
          BY <4>1, <3>2, Frames
        <4>2. CASE /\ r \in Runs \ issued
                   /\ issued' = issued \cup {r}
                   /\ run' = [id |-> r, status |-> "Accepted", accepted |-> FALSE]
          BY <4>2 DEF SessInv, RunInv, FailedIsEarned, M!IsActive, M!ActiveStatus, M!SettledStatus
        <4>. QED BY <2>4, <4>1, <4>2 DEF M!BindUserEnqueue, M!runVars, runVars
      <3>. QED BY <2>2, <3>2, <3>4, <3>5, Frames DEF SessInv, mailVars
    <2>. QED BY <1>2, <2>3, <2>4 DEF Acquire
  <1>3. CASE WriteMessage(t)
    <2>1. q \in LeaseCalls
      BY <1>0, <1>3, CallKinds DEF WriteMessage
    <2>2. UNCHANGED <<vars, runVars, prompted, untold, memberVars, signal, loop, todo>>
      BY <1>3 DEF WriteMessage
    <2>3. q.lease.slot \in Slots /\ q.from \in Slots \cup {"user"}
      BY <2>1 DEF LeaseCalls, Lease
    <2>4. MailInv' /\ DOMAIN rows \subseteq DOMAIN rows' /\ Len(rows') \in Messages
      BY <1>3, <2>2, <2>3, WriteRowInv DEF WriteMessage
    <2>5. CallInv'
      <3>1. [q EXCEPT !.at = "commit", !.msg = Len(rows')] \in LeaseCalls
        BY <2>1, <2>4 DEF LeaseCalls, MsgOrNone
      <3>2. call' = [call EXCEPT ![t] = [q EXCEPT !.at = "commit", !.msg = Len(rows')]]
        BY <1>3 DEF WriteMessage
      <3>. QED BY <3>1, <3>2, CallMoves DEF CallStates
    <2>. QED BY <2>2, <2>4, <2>5, Frames DEF SessInv
  <1>4. CASE WriteFails(t)
    <2>1. q \in LeaseCalls
      BY <1>0, <1>4, CallKinds DEF WriteFails
    <2>2. UNCHANGED <<runVars, mailVars, memberVars, signal, loop>>
      BY <1>4 DEF WriteFails
    <2>3. [Next]_vars /\ TodoInv'
      BY <1>0, <1>4, <2>1, AbortInv DEF WriteFails, LeaseCalls, S
    <2>4. CallInv'
      BY <1>4, CallMoves, IdleIsCall DEF WriteFails
    <2>. QED BY <2>2, <2>3, <2>4, Frames DEF SessInv, mailVars
  <1>5. CASE Commit(t)
    <2>. DEFINE l == q.lease
                ans == IF l.source \in ForegroundSources THEN {l.run} ELSE {}
    <2>1. q \in LeaseCalls
      BY <1>0, <1>5, CallKinds DEF Commit
    <2>2. /\ UNCHANGED <<runVars, rows, unread, prompted, memberVars, signal, loop>>
          /\ untold' \subseteq Tasks
      BY <1>5, <2>1 DEF Commit, SessInv, MailInv
    <2>3. l \in Lease /\ q.msg \in MsgOrNone /\ l.run \in Runs \cup {NoRun} /\ l.slot \in Slots
      BY <2>1 DEF LeaseCalls, Lease
    <2>4. CallInv'
      BY <1>5, CallMoves, IdleIsCall DEF Commit
    <2>5. CASE /\ CommitEnqueue(l, q.msg)
               /\ Then(t, Publish({l.run}) \o Effect("notify", {l.slot}) \o Effect("answer", ans))
      <3>1. [Next]_vars
        BY <2>3, <2>5 DEF Next, CommitEnqueue, MsgOrNone
      <3>2. <<"notify", {l.slot}>> \in S /\ <<"answer", ans>> \in S
        BY <2>3, EffectIntro DEF S
      <3>3. /\ Publish({l.run}) \in Seq(S)
            /\ Effect("notify", {l.slot}) \in Seq(S)
            /\ Effect("answer", ans) \in Seq(S)
        BY <2>3, <3>2, EffectSeq, PublishSeq DEF S
      <3>. HIDE DEF l, ans
      <3>4. Publish({l.run}) \o Effect("notify", {l.slot}) \o Effect("answer", ans) \in Seq(S)
        BY <3>3, Concat3
      <3>5. TodoInv'
        BY <2>5, <3>1, <3>4, ThenInv DEF S
      <3>. QED BY <2>2, <2>4, <3>1, <3>5, Frames DEF SessInv
    <2>6. CASE Abort(t, l, MarkRead({q.msg}))
      <3>1. MarkRead({q.msg}) \in Seq(S)
        BY <2>3, MarkReadSeq DEF S
      <3>2. [Next]_vars /\ TodoInv'
        BY <2>3, <2>6, <3>1, AbortInv DEF S
      <3>. QED BY <2>2, <2>4, <3>2, Frames DEF SessInv
    <2>. QED BY <1>5, <2>5, <2>6 DEF Commit
  <1>. QED BY <1>1, <1>2, <1>3, <1>4, <1>5 DEF EnqueueStep

\* The beginning of a call.
LEMMA CallerBeginsInv ==
  ASSUME SessInv, NEW c \in Callers, CallerBegins(c)
  PROVE  [Next]_vars /\ SessInv'
  <1>. DEFINE S == EffectSet(TrueSummaries', BatchesOf(c)')
  <1>0. c \in Tasks
    BY DEF Tasks
  <1>. HIDE DEF S
  <1>1. CASE \E s \in Slots : UserMessage(c, s)
    <2>1. PICK s \in Slots : UserMessage(c, s)
      BY <1>1
    <2>2. CallInv'
      BY <1>0, <2>1, RequestInv DEF UserMessage, WorkSource, ForegroundSources, MsgOrNone
    <2>. QED BY <2>1, <2>2, Frames DEF UserMessage, SessInv, mailVars
  <1>2. CASE \E f, s \in Slots : AgentMessage(c, f, s)
    <2>1. PICK f \in Slots, s \in Slots : AgentMessage(c, f, s)
      BY <1>2
    <2>2. CallInv'
      BY <1>0, <2>1, RequestInv DEF AgentMessage, WorkSource, BackgroundSources, MsgOrNone
    <2>. QED BY <2>1, <2>2, Frames DEF AgentMessage, SessInv, mailVars
  <1>3. CASE CancelRunBegin(c)
    <2>1. /\ UNCHANGED <<vars, issued, mailVars, memberVars, signal, loop, todo>>
          /\ M!IsActive /\ run' = [run EXCEPT !.status = "Cancelling"]
      BY <1>3 DEF CancelRunBegin, M!BeginCancel
    <2>2. run.id \in Runs
      BY <2>1 DEF SessInv, RunInv
    <2>3. [at |-> "cancel", run |-> run.id] \in CallStates
      BY <2>2 DEF CallStates, CancelCalls
    <2>4. CallInv'
      BY <1>0, <1>3, <2>3, CallMoves DEF CancelRunBegin
    <2>5. RunInv'
      BY <2>1, <2>2 DEF SessInv, RunInv, FailedIsEarned, M!IsActive, M!ActiveStatus, M!SettledStatus
    <2>. QED BY <2>1, <2>4, <2>5, Frames DEF SessInv, mailVars
  <1>4. ASSUME NEW s \in Slots, active[s] # 0, Interrupt(c, s), [Next]_vars
        PROVE  CallInv' /\ TodoInv'
    <2>. DEFINE stop == IF turn[s] THEN {active[s]} ELSE {}
    <2>1. active[s] \in DOMAIN batches /\ active[s] \in 0..MaxOps
      BY <1>4 DEF SessInv, IInv, TypeOK, ActiveBatchOwnsRunningWork, OwnsItsWork
    <2>2. active[s] \in BatchesOf(c)'
      BY <1>4, <2>1, BatchesStay, SessionAssumption DEF BatchesOf, SessInv
    <2>3. {<<active[s], "Cancelled">>} \subseteq BatchesOf(c)' \X Terminal
      BY <2>2 DEF Terminal
    <2>4. <<"stop", stop>> \in S /\ <<"end", {<<active[s], "Cancelled">>}>> \in S
      BY <2>1, <2>3, EffectIntro DEF S
    <2>. HIDE DEF stop
    <2>5. Effect("stop", stop) \in Seq(S) /\ Effect("end", {<<active[s], "Cancelled">>}) \in Seq(S)
      BY <2>4, EffectSeq
    <2>6. Effect("stop", stop) \o Effect("end", {<<active[s], "Cancelled">>}) \in Seq(S)
      BY <2>5, Concat3
    <2>7. TodoInv'
      BY <1>0, <1>4, <2>6, ThenInv DEF Interrupt, stop, S
    <2>8. Tell(s, "InterruptedNotification") \in CallStates
      BY DEF Tell, TellCalls, TellSources, CallStates
    <2>9. CallInv'
      BY <1>0, <1>4, <2>8, CallMoves, IdleIsCall DEF Interrupt
    <2>. QED BY <2>7, <2>9
  <1>5. CASE \E s \in Slots : CancelChildTurn(c, s)
    <2>1. PICK s \in Slots : CancelChildTurn(c, s)
      BY <1>5
    <2>2. UNCHANGED <<vars, runVars, mailVars, memberVars, signal, loop>>
      BY <2>1 DEF CancelChildTurn
    <2>3. CallInv' /\ TodoInv'
      BY <1>4, <2>1, <2>2 DEF CancelChildTurn
    <2>. QED BY <2>2, <2>3, Frames DEF SessInv, mailVars
  <1>6. CASE \E s \in Slots : PauseSlotWork(c, s)
    <2>1. PICK s \in Slots : PauseSlotWork(c, s)
      BY <1>6
    <2>2. /\ UNCHANGED <<runVars, mailVars, memberVars, signal, loop>>
          /\ PauseSlot(s)
          /\ IF active[s] # 0 THEN Interrupt(c, s) ELSE UNCHANGED <<call, todo>>
      BY <2>1 DEF PauseSlotWork
    <2>3. [Next]_vars
      BY <2>2 DEF Next
    <2>4. CallInv' /\ TodoInv'
      BY <1>4, <2>2, <2>3, Frames
    <2>. QED BY <2>2, <2>3, <2>4, Frames DEF SessInv, mailVars
  <1>7. CASE \E s \in Slots : AttachBegin(c, s)
    <2>1. PICK s \in Slots : AttachBegin(c, s)
      BY <1>7
    <2>2. UNCHANGED <<vars, runVars, mailVars, status, role, deaf, signal, loop, todo>>
      BY <2>1 DEF AttachBegin
    <2>3. [at |-> "constrain", slot |-> s, to |-> "Starting"] \in CallStates
      BY DEF CallStates, AttachCalls, Runtimes
    <2>4. CallInv'
      BY <1>0, <2>1, <2>3, CallMoves DEF AttachBegin, Attach
    <2>5. MemberInv'
      BY <2>1, <2>2 DEF AttachBegin, SessInv, MemberInv, Runtimes
    <2>. QED BY <2>2, <2>4, <2>5, Frames DEF SessInv, mailVars
  <1>. QED BY <1>1, <1>2, <1>3, <1>5, <1>6, <1>7 DEF CallerBegins

\* A further step of a call.
LEMMA CallerStepInv ==
  ASSUME SessInv, NEW c \in Callers, CallerStep(c)
  PROVE  [Next]_vars /\ SessInv'
  <1>. DEFINE q == call[c]
              S == EffectSet(TrueSummaries', BatchesOf(c)')
  <1>0. c \in Tasks /\ q \in CallStates /\ <<>> \in Seq(S) /\ Lead \in Slots
    BY EmptySeq, SessionAssumption DEF Tasks, SessInv, CallInv
  <1>. HIDE DEF S
  <1>1. CASE EnqueueStep(c) \/ Continue(c)
    BY <1>0, <1>1, EnqueueInv, ContinueInv
  <1>2. CASE CancelRunWork(c)
    <2>. DEFINE r == q.run
                live == {i \in OfRun(r) : Live(i)}
                stop == {active[s] : s \in {t \in SlotsRunning(r) : turn[t]}}
    <2>1. q \in CancelCalls
      BY <1>0, <1>2, CallKinds DEF CancelRunWork
    <2>2. UNCHANGED <<runVars, mailVars, memberVars, signal, loop>>
      BY <1>2 DEF CancelRunWork
    <2>3. r \in Runs
      BY <2>1 DEF CancelCalls
    <2>4. [Next]_vars
      BY <1>2, <2>3 DEF CancelRunWork, Next
    <2>5. stop \subseteq 0..MaxOps
      BY DEF SlotsRunning, SessInv, IInv, TypeOK
    <2>6. MessagesOf(live) \in SUBSET MsgOrNone
      BY IntentFacts DEF SessInv, OfRun
    <2>7. Then(c, Publish({r}) \o MarkRead(MessagesOf(live)) \o Effect("stop", stop))
      BY <1>2 DEF CancelRunWork
    <2>. HIDE DEF r, live, stop
    <2>8. <<"stop", stop>> \in S
      BY <2>5, EffectIntro DEF S
    <2>9. /\ Publish({r}) \in Seq(S) /\ MarkRead(MessagesOf(live)) \in Seq(S)
          /\ Effect("stop", stop) \in Seq(S)
      BY <2>3, <2>6, <2>8, PublishSeq, MarkReadSeq, EffectSeq DEF S
    <2>10. Publish({r}) \o MarkRead(MessagesOf(live)) \o Effect("stop", stop) \in Seq(S)
      BY <2>9, Concat3
    <2>11. TodoInv'
      BY <1>0, <2>4, <2>7, <2>10, ThenInv DEF S
    <2>12. CallInv'
      BY <1>0, <1>2, CallMoves, IdleIsCall DEF CancelRunWork
    <2>. QED BY <2>2, <2>4, <2>11, <2>12, Frames DEF SessInv, mailVars
  <1>3. CASE TellLead(c)
    <2>1. q \in TellCalls
      BY <1>0, <1>3, CallKinds DEF TellLead
    <2>2. UNCHANGED <<vars, runVars, prompted, untold, memberVars, signal, loop, todo>>
      BY <1>3 DEF TellLead
    <2>3. MailInv' /\ DOMAIN rows \subseteq DOMAIN rows' /\ Len(rows') \in Messages
      BY <1>0, <1>3, <2>1, <2>2, WriteRowInv DEF TellLead, TellCalls
    <2>4. [at |-> "told", from |-> q.from, source |-> q.source, row |-> Len(rows')] \in TellCalls
      BY <2>1, <2>3 DEF TellCalls
    <2>5. call' = [call EXCEPT ![c] = [at |-> "told", from |-> q.from, source |-> q.source,
                                       row |-> Len(rows')]]
      BY <1>3 DEF TellLead
    <2>6. CallInv'
      BY <1>0, <2>4, <2>5, CallMoves DEF CallStates
    <2>. QED BY <2>2, <2>3, <2>6, Frames DEF SessInv
  <1>9. CASE TellFails(c)
    <2>1. UNCHANGED <<vars, runVars, mailVars, memberVars, signal, loop, todo>>
      BY <1>9 DEF TellFails
    <2>2. CallInv'
      BY <1>0, <1>9, CallMoves, IdleIsCall DEF TellFails
    <2>. QED BY <2>1, <2>2, Frames DEF SessInv, mailVars
  <1>4. CASE WakeLeader(c)
    <2>1. q \in TellCalls
      BY <1>0, <1>4, CallKinds DEF WakeLeader
    <2>2. /\ UNCHANGED <<vars, runVars, mailVars, runtime, status, role, signal, loop, todo>>
          /\ deaf' \subseteq Slots
      BY <1>0, <1>4 DEF WakeLeader, SessInv, MemberInv
    <2>3. q.source \in WorkSource /\ q.from \in Slots
      BY <2>1 DEF TellCalls, TellSources, WorkSource, BackgroundSources
    <2>4. unread[Lead] \subseteq MsgOrNone
      BY <1>0 DEF SessInv, MailInv, MsgOrNone
    <2>5. CallInv'
      <3>1. CASE call' = [call EXCEPT ![c] = Idle]
        BY <1>0, <3>1, CallMoves, IdleIsCall
      <3>2. CASE \E m \in unread[Lead] : Request(c, Lead, q.source, q.from, m)
        BY <1>0, <2>3, <2>4, <3>2, RequestInv
      <3>. QED BY <1>4, <3>1, <3>2 DEF WakeLeader
    <2>. QED BY <2>2, <2>5, Frames DEF SessInv, mailVars
  <1>5. CASE \E to \in {"Ready", "Failed"} : AttachEnds(c, to)
    <2>1. PICK to \in {"Ready", "Failed"} : AttachEnds(c, to)
      BY <1>5
    <2>. DEFINE s == q.slot
                st == IF to = "Failed" THEN {<<s, "Error">>} ELSE {}
    <2>2. q \in AttachCalls
      BY <1>0, <2>1, CallKinds DEF AttachEnds
    <2>3. UNCHANGED <<vars, runVars, mailVars, status, role, deaf, signal, loop>>
      BY <2>1 DEF AttachEnds
    <2>4. s \in Slots
      BY <2>2 DEF AttachCalls
    <2>5. [at |-> "constrain", slot |-> s, to |-> to] \in CallStates
      BY <2>4 DEF CallStates, AttachCalls, Runtimes
    <2>6. CallInv'
      BY <1>0, <2>1, <2>5, CallMoves DEF AttachEnds, Attach
    <2>7. st \subseteq Slots \X LaterStatuses
      BY <2>4 DEF LaterStatuses, Statuses
    <2>8. <<"status", st>> \in S
      BY <2>7, EffectIntro DEF S
    <2>9. TodoInv'
      BY <1>0, <2>1, <2>3, <2>8, EffectSeq, ThenInv DEF AttachEnds, S
    <2>10. MemberInv'
      BY <2>1, <2>3, <2>4 DEF AttachEnds, SessInv, MemberInv, Runtimes
    <2>. QED BY <2>3, <2>6, <2>9, <2>10, Frames DEF SessInv, mailVars
  <1>6. CASE AttachTold(c)
    <2>. DEFINE s == q.slot
                rest == Effect("notify", IF q.to = "Ready" THEN {s} ELSE {})
    <2>1. q \in AttachCalls
      BY <1>0, <1>6, CallKinds DEF AttachTold
    <2>2. /\ UNCHANGED <<runVars, mailVars, runtime, status, role, signal, loop>>
          /\ deaf' \subseteq Slots
      BY <1>6, <2>1 DEF AttachTold, AttachCalls, Misled, SessInv, MemberInv
    <2>3. s \in Slots /\ q.to \in Runtimes
      BY <2>1 DEF AttachCalls
    <2>4. <<"notify", IF q.to = "Ready" THEN {s} ELSE {}>> \in S
      BY <2>3, EffectIntro DEF S
    <2>5. rest \in Seq(S)
      BY <2>4, EffectSeq
    <2>6. Constrain(c, s, q.to, rest)
      BY <1>6 DEF AttachTold
    <2>. HIDE DEF rest
    <2>7. [Next]_vars /\ TodoInv'
      BY <1>0, <2>3, <2>5, <2>6, ConstrainInv DEF S
    <2>8. /\ [at |-> "attaching", slot |-> s, to |-> q.to] \in CallStates
          /\ [at |-> "again", slot |-> s, to |-> q.to] \in CallStates
          /\ Tell(s, "SpawnAttachFailure") \in CallStates
      BY <2>3 DEF CallStates, AttachCalls, Tell, TellCalls, TellSources
    <2>9. CallInv'
      BY <1>0, <1>6, <2>8, CallMoves, IdleIsCall DEF AttachTold, Attach
    <2>. QED BY <2>2, <2>7, <2>9, Frames DEF SessInv, mailVars
  <1>. QED BY <1>1, <1>2, <1>3, <1>4, <1>5, <1>6, <1>9 DEF CallerStep

-----------------------------------------------------------------------------
(* Event loops                                                              *)

\* A loop goes to a place that was possible before the step.
LEMMA GotoOldInv ==
  ASSUME SessInv, [Next]_vars, UNCHANGED mailVars, NEW s \in Slots,
         NEW q \in LoopStates(BatchesOf(s), DOMAIN rows), Goto(s, q)
  PROVE  LoopInv'
  <1>1. BatchesOf(s) \subseteq BatchesOf(s)' /\ rows' = rows
    BY NothingIsForgotten DEF SessInv, mailVars
  <1>2. q \in LoopStates(BatchesOf(s)', DOMAIN rows')
    BY <1>1, LoopsGrow
  <1>. QED BY <1>1, <1>2, GotoInv

\* What the loop of slot s carries while it has a batch.
LEMMA OwnBatch ==
  ASSUME SessInv, NEW s \in Slots, loop[s].at \in {"prompt", "start", "turn"}
  PROVE  /\ loop[s].batch \in BatchesOf(s)
         /\ loop[s].seen \subseteq DOMAIN rows
         /\ loop[s].batch \in DOMAIN batches
         /\ batches[loop[s].batch].slot = s
         /\ BatchMessages(loop[s].batch) \in SUBSET MsgOrNone
         /\ RunsOf(batches[loop[s].batch].members) \in SUBSET (Runs \cup {NoRun})
  <1>1. loop[s].batch \in BatchesOf(s) /\ loop[s].seen \subseteq DOMAIN rows
    BY LoopKinds DEF SessInv, LoopInv, BatchLoops, TurnLoops
  <1>2. loop[s].batch \in DOMAIN batches /\ batches[loop[s].batch].slot = s
    BY <1>1 DEF BatchesOf
  <1>3. batches[loop[s].batch].members \in SUBSET DOMAIN intents
    BY <1>2 DEF SessInv, MembersExist
  <1>. QED BY <1>1, <1>2, <1>3, IntentFacts DEF BatchMessages, SessInv

\* A status to be set, as the last thing to do.
LEMMA StatusSeq ==
  ASSUME NEW s \in Slots, NEW args \in SUBSET ({s} \X LaterStatuses), NEW sums, NEW mine
  PROVE  Effect("status", args) \in Seq(EffectSet(sums, mine))
  <1>1. <<"status", args>> \in EffectSet(sums, mine)
    BY EffectIntro
  <1>. QED BY <1>1, EffectSeq

\* Batches to be ended.
LEMMA EndSeq ==
  ASSUME NEW mine, NEW args \in SUBSET (mine \X Terminal), NEW sums
  PROVE  Effect("end", args) \in Seq(EffectSet(sums, mine))
  <1>1. <<"end", args>> \in EffectSet(sums, mine)
    BY EffectIntro
  <1>. QED BY <1>1, EffectSeq

\* Giving back a batch.
LEMMA GiveBackInv ==
  ASSUME SessInv, NEW s \in Slots, loop[s].at \in {"prompt", "start"},
         NEW rest \in Seq(EffectSet(TrueSummaries', BatchesOf(s)')), GiveBack(s, rest)
  PROVE  [Next]_vars /\ SessInv'
  <1>. DEFINE b == loop[s].batch
              S == EffectSet(TrueSummaries', BatchesOf(s)')
  <1>0. s \in Tasks
    BY DEF Tasks
  <1>1. UNCHANGED <<runVars, mailVars, memberVars, signal, call>> /\ Goto(s, At("wait"))
    BY DEF GiveBack
  <1>2. [Next]_vars
    BY OwnBatch DEF GiveBack, Next
  <1>3. LoopInv'
    BY <1>1, <1>2, PlainLoop, GotoOldInv
  <1>4. Publish(RunsOf(batches[b].members)) \in Seq(S)
    BY OwnBatch, PublishSeq
  <1>. HIDE DEF S
  <1>5. Publish(RunsOf(batches[b].members)) \o rest \in Seq(S) /\ rest \in Seq(S)
    BY <1>4, Concat3 DEF S
  <1>6. TodoInv'
    BY <1>0, <1>2, <1>5, ThenInv DEF GiveBack, S
  <1>. QED BY <1>1, <1>2, <1>3, <1>6, Frames DEF SessInv, mailVars

\* Ending a batch, with the status that follows.
LEMMA SettleInv ==
  ASSUME SessInv, NEW s \in Slots, loop[s].at \in {"start", "turn"}, UNCHANGED vars,
         NEW st \in {"Completed", "Failed"}, NEW args \in SUBSET ({s} \X LaterStatuses),
         Then(s, Settle(loop[s].batch, st) \o Effect("status", args))
  PROVE  TodoInv'
  <1>. DEFINE b == loop[s].batch
              S == EffectSet(TrueSummaries', BatchesOf(s)')
  <1>0. s \in Tasks /\ [Next]_vars
    BY DEF Tasks
  <1>1. b \in BatchesOf(s)' /\ BatchMessages(b) \in SUBSET MsgOrNone
    BY OwnBatch DEF BatchesOf, vars
  <1>2. {<<b, st>>} \in SUBSET (BatchesOf(s)' \X Terminal)
    BY <1>1 DEF Terminal
  <1>3. /\ MarkRead(BatchMessages(b)) \in Seq(S)
        /\ Effect("end", {<<b, st>>}) \in Seq(S)
        /\ Effect("status", args) \in Seq(S)
    BY <1>1, <1>2, MarkReadSeq, EndSeq, StatusSeq
  <1>. HIDE DEF S
  <1>4. MarkRead(BatchMessages(b)) \o Effect("end", {<<b, st>>}) \o Effect("status", args) \in Seq(S)
    BY <1>3, Concat3
  <1>. QED BY <1>0, <1>4, ThenInv DEF Settle, S

\* A step of an event loop.
LEMMA LoopStepInv ==
  ASSUME SessInv, NEW s \in Slots, LoopStep(s)
  PROVE  [Next]_vars /\ SessInv'
  <1>. DEFINE q == loop[s]
              L == LoopStates(BatchesOf(s), DOMAIN rows)
              S == EffectSet(TrueSummaries', BatchesOf(s)')
  <1>0. s \in Tasks /\ q \in L /\ <<>> \in Seq(S) /\ Lead \in Slots
    BY EmptySeq, SessionAssumption DEF Tasks, SessInv, LoopInv
  <1>. HIDE DEF S, L
  <1>1. CASE EnqueueStep(s) \/ Continue(s)
    BY <1>0, <1>1, EnqueueInv, ContinueInv
  <1>2. CASE Wake(s)
    <2>1. UNCHANGED <<vars, runVars, mailVars, memberVars, call, todo>> /\ Goto(s, At("prepare"))
      BY <1>2 DEF Wake
    <2>2. LoopInv'
      BY <2>1, PlainLoop, GotoOldInv
    <2>3. MemberInv'
      BY <1>2, <2>1 DEF Wake, SessInv, MemberInv, memberVars
    <2>. QED BY <2>1, <2>2, <2>3, Frames DEF SessInv, mailVars
  <1>3. CASE Prepare(s)
    <2>1. UNCHANGED <<vars, runVars, mailVars, memberVars, signal, call, todo>>
      BY <1>3 DEF Prepare
    <2>2. [at |-> "constrain", saw |-> runtime[s]] \in L
      BY DEF L, LoopStates, SawLoops, SessInv, MemberInv
    <2>3. LoopInv'
      BY <1>3, <2>1, <2>2, GotoOldInv DEF Prepare, L
    <2>. QED BY <2>1, <2>3, Frames DEF SessInv, mailVars
  <1>4. CASE PrepareConstraint(s)
    <2>1. /\ UNCHANGED <<runVars, rows, unread, prompted, runtime, status, role, signal, call>>
          /\ deaf' \subseteq Slots /\ untold' \subseteq Tasks /\ Goto(s, At("peek"))
      BY <1>4 DEF PrepareConstraint, Misled, SessInv, MemberInv, MailInv
    <2>2. q.saw \in Runtimes
      BY <1>0, <1>4, LoopKinds DEF PrepareConstraint, LoopAt, L, SawLoops
    <2>3. [Next]_vars /\ TodoInv'
      BY <1>0, <1>4, <2>2, ConstrainInv DEF PrepareConstraint, S
    <2>4. LoopInv'
      BY <2>1, <2>3, PlainLoop, GotoInv
    <2>. QED BY <2>1, <2>3, <2>4, Frames DEF SessInv
  <1>5. CASE Peek(s)
    <2>1. UNCHANGED <<vars, runVars, mailVars, memberVars, signal, call, todo>>
      BY <1>5 DEF Peek
    <2>2. [at |-> "reconcile", seen |-> {m \in unread[s] : rows[m].from # s}] \in L
      BY DEF L, LoopStates, SeenLoops, SessInv, MailInv
    <2>3. LoopInv'
      BY <1>5, <2>1, <2>2, GotoOldInv DEF Peek, L
    <2>. QED BY <2>1, <2>3, Frames DEF SessInv, mailVars
  <1>6. CASE Reconcile(s)
    <2>1. UNCHANGED <<runVars, mailVars, memberVars, signal, call, todo>>
      BY <1>6 DEF Reconcile
    <2>2. q.seen \subseteq DOMAIN rows
      BY <1>0, <1>6, LoopKinds DEF Reconcile, LoopAt, L, SeenLoops
    <2>3. q.seen \in SUBSET Messages
      BY <2>2 DEF SessInv, MailInv
    <2>4. [Next]_vars
      BY <1>6, <2>3 DEF Reconcile, Next
    <2>5. [at |-> "next", seen |-> q.seen] \in L
      BY <2>2 DEF L, LoopStates, SeenLoops
    <2>6. LoopInv'
      BY <1>6, <2>1, <2>4, <2>5, GotoOldInv DEF Reconcile, L
    <2>. QED BY <2>1, <2>4, <2>6, Frames DEF SessInv, mailVars
  <1>7. CASE Claim(s)
    <2>1. UNCHANGED <<runVars, mailVars, memberVars, signal, call>> /\ ClaimNext(s)
      BY <1>7 DEF Claim
    <2>2. [Next]_vars
      BY <2>1 DEF Next
    <2>3. q.seen \subseteq DOMAIN rows
      BY <1>0, <1>7, LoopKinds DEF Claim, LoopAt, L, SeenLoops
    <2>4. PICK p \in Priorities :
            batches' = [b \in DOMAIN batches \cup {lastOp'} |->
              IF b = lastOp' THEN [slot |-> s, members |-> MessageIntents(s, p), priority |-> p]
              ELSE batches[b]]
      BY <2>1 DEF ClaimNext
    <2>5. lastOp' \in BatchesOf(s)' /\ batches'[lastOp'].members = MessageIntents(s, p)
      BY <2>4 DEF BatchesOf
    <2>6. MessageIntents(s, p) \in SUBSET DOMAIN intents
      BY DEF MessageIntents, SessInv, IInv, QueuesMatchIntents
    <2>7. Publish(RunsOf(batches'[lastOp'].members)) \in Seq(S)
      BY <2>5, <2>6, IntentFacts, PublishSeq DEF SessInv, S
    <2>8. TodoInv'
      BY <1>0, <1>7, <2>2, <2>7, ThenInv DEF Claim, S
    <2>9. PICK M0 : loop' = [loop EXCEPT ![s] =
                      [at |-> "prompt", batch |-> lastOp', seen |-> q.seen \cap M0]]
      BY <1>7 DEF Claim, Goto
    <2>10. [at |-> "prompt", batch |-> lastOp', seen |-> q.seen \cap M0]
             \in LoopStates(BatchesOf(s)', DOMAIN rows')
      BY <2>1, <2>3, <2>5 DEF LoopStates, BatchLoops, mailVars
    <2>11. LoopInv'
      BY <2>1, <2>2, <2>9, <2>10, GotoInv DEF Goto, mailVars
    <2>. QED BY <2>1, <2>2, <2>8, <2>11, Frames DEF SessInv, mailVars
  <1>8. CASE NoClaim(s)
    <2>. DEFINE signals == SignalsToSettle(s)
    <2>1. UNCHANGED <<vars, runVars, mailVars, memberVars, signal, call, todo>>
      BY <1>8 DEF NoClaim
    <2>2. signals \subseteq Ids
      BY DEF SignalsToSettle, SessInv, IInv, TypeOK
    <2>3. signals # {} => [at |-> "settle", signals |-> signals] \in L
      BY <2>2 DEF L, LoopStates, SettleLoops
    <2>4. At("wait") \in L
      BY PlainLoop DEF L
    <2>5. LoopInv'
      BY <1>8, <2>1, <2>3, <2>4, GotoOldInv DEF NoClaim, L
    <2>. QED BY <2>1, <2>5, Frames DEF SessInv, mailVars
  <1>9. CASE SettleSignals(s)
    <2>. DEFINE signals == q.signals
    <2>1. UNCHANGED <<runVars, mailVars, memberVars, signal, call>> /\ Goto(s, At("prepare"))
      BY <1>9 DEF SettleSignals
    <2>2. signals # {}
      BY <1>0, <1>9, LoopKinds DEF SettleSignals, LoopAt, L, SettleLoops
    <2>3. CASE CompleteSignals(s, signals) /\ Then(s, Publish(RunsOf(signals)))
      <3>1. signals \in SUBSET QueuedSignals(s)
        BY <2>3 DEF CompleteSignals
      <3>2. [Next]_vars
        BY <2>2, <2>3, <3>1 DEF Next
      <3>3. Publish(RunsOf(signals)) \in Seq(S)
        BY <3>1, IntentFacts, PublishSeq DEF SessInv, S, QueuedSignals
      <3>4. TodoInv'
        BY <1>0, <2>3, <3>2, <3>3, ThenInv DEF S
      <3>5. LoopInv'
        BY <2>1, <3>2, PlainLoop, GotoOldInv
      <3>. QED BY <2>1, <3>2, <3>4, <3>5, Frames DEF SessInv, mailVars
    <2>4. CASE UNCHANGED <<vars, todo>>
      <3>1. LoopInv'
        BY <2>1, <2>4, PlainLoop, GotoOldInv
      <3>. QED BY <2>1, <2>4, <3>1, Frames DEF SessInv, mailVars
    <2>. QED BY <1>9, <2>3, <2>4 DEF SettleSignals
  <1>10. CASE ListTasksFails(s)
    BY <1>0, <1>10, GiveBackInv DEF ListTasksFails, LoopAt, S
  <1>11. CASE TransportFails(s)
    <2>1. /\ UNCHANGED <<vars, runVars, mailVars, runtime, status, deaf, signal, call, todo>>
          /\ Goto(s, At("wait"))
      BY <1>11 DEF TransportFails
    <2>2. LoopInv'
      BY <2>1, PlainLoop, GotoOldInv
    <2>3. MemberInv'
      BY <1>11, <2>1 DEF TransportFails, TakeRolePrompt, SessInv, MemberInv
    <2>. QED BY <2>1, <2>2, <2>3, Frames DEF SessInv, mailVars
  <1>12. CASE Execute(s)
    <2>1. UNCHANGED <<vars, runVars, mailVars, runtime, status, deaf, signal, call>>
      BY <1>12 DEF Execute
    <2>2. [at |-> "start", batch |-> q.batch, seen |-> q.seen] \in L
      BY <1>12, OwnBatch DEF Execute, LoopAt, L, LoopStates, BatchLoops
    <2>3. LoopInv'
      BY <1>12, <2>1, <2>2, GotoOldInv DEF Execute, L
    <2>4. Effect("status", {<<s, "Working">>}) \in Seq(S)
      BY StatusSeq DEF S, LaterStatuses, Statuses
    <2>5. TodoInv'
      BY <1>0, <1>12, <2>1, <2>4, ThenInv DEF Execute, S
    <2>6. MemberInv'
      BY <1>12, <2>1 DEF Execute, TakeRolePrompt, SessInv, MemberInv
    <2>. QED BY <2>1, <2>3, <2>5, <2>6, Frames DEF SessInv, mailVars
  <1>13. CASE StartSkipped(s)
    <2>1. Effect("status", {<<s, "Idle">>}) \in Seq(S)
      BY <1>13, StatusSeq DEF StartSkipped, S, LaterStatuses, Statuses
    <2>. QED BY <1>13, <2>1, GiveBackInv DEF StartSkipped, LoopAt, S
  <1>14. CASE StartTurn(s)
    <2>. DEFINE b == q.batch
                result == StartResult(b)
                phase == IF result = "CancelImmediately" THEN "unlaunched" ELSE "started"
                over == IF result = "CancelImmediately" THEN {<<b, "Cancelled">>} ELSE {}
    <2>1. /\ UNCHANGED <<runVars, mailVars, memberVars, signal, call>>
          /\ q.at = "start"
          /\ Goto(s, [at |-> "turn", batch |-> b, seen |-> q.seen, turn |-> phase])
          /\ \/ /\ MarkStarted(b)
                /\ Then(s, Publish(RunsOf(batches[b].members)) \o Effect("end", over))
             \/ UNCHANGED <<vars, todo>>
      BY <1>14 DEF StartTurn, LoopAt
    <2>2. /\ b \in BatchesOf(s) /\ q.seen \subseteq DOMAIN rows /\ b \in DOMAIN batches
          /\ RunsOf(batches[b].members) \in SUBSET (Runs \cup {NoRun})
      BY <2>1, OwnBatch
    <2>3. [Next]_vars
      BY <2>1, <2>2 DEF Next
    <2>4. [at |-> "turn", batch |-> b, seen |-> q.seen, turn |-> phase] \in L
      BY <2>2 DEF L, LoopStates, TurnLoops
    <2>5. LoopInv'
      BY <2>1, <2>3, <2>4, GotoOldInv DEF L
    <2>6. over \in SUBSET (BatchesOf(s)' \X Terminal)
      BY <2>2, <2>3, NothingIsForgotten DEF SessInv, Terminal
    <2>7. Publish(RunsOf(batches[b].members)) \in Seq(S) /\ Effect("end", over) \in Seq(S)
      BY <2>2, <2>6, PublishSeq, EndSeq DEF S
    <2>. HIDE DEF over
    <2>8. Publish(RunsOf(batches[b].members)) \o Effect("end", over) \in Seq(S)
      BY <2>7, Concat3
    <2>9. TodoInv'
      BY <1>0, <2>1, <2>3, <2>8, ThenInv, Frames DEF S
    <2>. QED BY <2>1, <2>3, <2>5, <2>9, Frames DEF SessInv, mailVars
  <1>15. CASE Launch(s)
    <2>1. UNCHANGED <<vars, runVars, rows, unread, untold, memberVars, signal, call, todo>>
      BY <1>15 DEF Launch
    <2>2. q \in TurnLoops(BatchesOf(s), DOMAIN rows)
      BY <1>0, <1>15, LoopKinds DEF Launch, LoopAt, L
    <2>3. [q EXCEPT !.turn = "live"] \in TurnLoops(BatchesOf(s), DOMAIN rows) /\ q.seen \subseteq DOMAIN rows
      BY <2>2 DEF TurnLoops
    <2>4. BatchesOf(s)' = BatchesOf(s)
      BY <2>1 DEF BatchesOf, vars
    <2>5. LoopInv'
      BY <1>15, <2>1, <2>3, <2>4, GotoInv DEF Launch, LoopStates
    <2>6. MailInv'
      BY <1>15, <2>1, <2>3 DEF Launch, SessInv, MailInv
    <2>. QED BY <2>1, <2>5, <2>6, Frames DEF SessInv
  <1>16. CASE TurnErrs(s)
    <2>1. UNCHANGED <<vars, runVars, mailVars, memberVars, signal, call>> /\ Goto(s, At("prepare"))
      BY <1>16 DEF TurnErrs
    <2>2. LoopInv'
      BY <2>1, PlainLoop, GotoOldInv
    <2>3. TodoInv'
      BY <1>16, <2>1, SettleInv DEF TurnErrs, LoopAt, LaterStatuses, Statuses
    <2>. QED BY <2>1, <2>2, <2>3, Frames DEF SessInv, mailVars
  <1>17. CASE \E st \in {"Completed", "Failed"} : TurnEnds(s, st)
    <2>1. PICK st \in {"Completed", "Failed"} : TurnEnds(s, st)
      BY <1>17
    <2>2. UNCHANGED <<vars, runVars, mailVars, memberVars, signal, call>> /\ Goto(s, At("finalize"))
      BY <2>1 DEF TurnEnds
    <2>3. LoopInv'
      BY <2>2, PlainLoop, GotoOldInv
    <2>4. (IF st = "Failed" THEN {<<s, "Error">>} ELSE {}) \in SUBSET ({s} \X LaterStatuses)
      BY DEF LaterStatuses, Statuses
    <2>5. TodoInv'
      BY <2>1, <2>2, <2>4, SettleInv DEF TurnEnds, LoopAt
    <2>. QED BY <2>2, <2>3, <2>5, Frames DEF SessInv, mailVars
  <1>18. CASE MarkIdle(s)
    <2>1. UNCHANGED <<vars, runVars, mailVars, runtime, role, deaf, signal, call, todo>>
      BY <1>18 DEF MarkIdle
    <2>2. LoopInv'
      BY <1>18, <2>1, PlainLoop, GotoOldInv DEF MarkIdle
    <2>3. MemberInv'
      BY <1>18, <2>1 DEF MarkIdle, SessInv, MemberInv, Statuses
    <2>. QED BY <2>1, <2>2, <2>3, Frames DEF SessInv, mailVars
  <1>19. CASE ReportIdle(s)
    <2>1. UNCHANGED <<vars, runVars, prompted, untold, memberVars, signal, call, todo>>
      BY <1>19 DEF ReportIdle
    <2>2. MailInv' /\ DOMAIN rows \subseteq DOMAIN rows'
      BY <1>0, <1>19, <2>1, WriteRowInv DEF ReportIdle
    <2>3. LoopInv'
      BY <1>19, <2>1, <2>2, PlainLoop, GotoInv DEF ReportIdle
    <2>. QED BY <2>1, <2>2, <2>3, Frames DEF SessInv
  <1>21. CASE ReportFails(s)
    <2>1. /\ UNCHANGED <<vars, runVars, rows, unread, prompted, memberVars, signal, call, todo>>
          /\ untold' \subseteq Tasks /\ Goto(s, At("prepare"))
      BY <1>21 DEF ReportFails, SessInv, MailInv, Tasks
    <2>2. LoopInv'
      BY <2>1, PlainLoop, GotoInv
    <2>. QED BY <2>1, <2>2, Frames DEF SessInv
  <1>20. CASE WakeSettledLead(s)
    <2>1. UNCHANGED <<vars, runVars, mailVars, memberVars, signal, todo>> /\ Goto(s, At("prepare"))
      BY <1>20 DEF WakeSettledLead
    <2>2. LoopInv'
      BY <2>1, PlainLoop, GotoOldInv
    <2>3. CallInv'
      <3>1. CASE UNCHANGED call
        BY <3>1 DEF SessInv, CallInv
      <3>2. CASE Request(s, Lead, "IdleNotification", "ActiveRunOrBackground", NoMsg)
        BY <1>0, <3>2, RequestInv DEF WorkSource, BackgroundSources, MsgOrNone
      <3>. QED BY <1>20, <3>1, <3>2 DEF WakeSettledLead
    <2>. QED BY <2>1, <2>2, <2>3, Frames DEF SessInv, mailVars
  <1>. QED
    BY <1>1, <1>2, <1>3, <1>4, <1>5, <1>6, <1>7, <1>8, <1>9, <1>10, <1>11, <1>12, <1>13, <1>14,
       <1>15, <1>16, <1>17, <1>18, <1>19, <1>20, <1>21 DEF LoopStep

-----------------------------------------------------------------------------
(* The session as a whole                                                   *)

\* A session begins as it should.
LEMMA SessionInitInv ==
  ASSUME SessionInit
  PROVE  Init /\ SessInv
  <1>1. Init /\ IInv
    BY InitInv DEF SessionInit
  <1>2. MembersExist
    BY DEF SessionInit, Init, MembersExist
  <1>3. RunInv
    BY DEF SessionInit, M!Init, M!NoRecord, RunInv, M!ActiveStatus, M!SettledStatus, M!IsActive,
       FailedIsEarned
  <1>4. MailInv
    <2>1. rows = <<>> /\ unread = [s \in Slots |-> {}] /\ prompted = {} /\ untold = {}
      BY DEF SessionInit
    <2>2. DOMAIN rows = {}
      BY <2>1
    <2>3. rows \in Seq([from : Slots \cup {"user"}, kind : {"message", "idle"}])
      BY <2>1, EmptySeq
    <2>. QED BY <2>1, <2>2, <2>3 DEF MailInv
  <1>5. MemberInv
    BY DEF SessionInit, MemberInv, Runtimes, Statuses
  <1>6. CallInv
    BY IdleIsCall DEF SessionInit, CallInv
  <1>7. LoopInv
    BY PlainLoop DEF SessionInit, LoopInv
  <1>8. TodoInv
    BY EmptySeq DEF SessionInit, TodoInv
  <1>. QED BY <1>1, <1>2, <1>3, <1>4, <1>5, <1>6, <1>7, <1>8 DEF SessInv

\* Every step of a session is a step of its coordinator, or leaves it alone.
LEMMA SessionStepInv ==
  ASSUME SessInv, [SessionNext]_sessionVars
  PROVE  [Next]_vars /\ SessInv'
  <1>1. CASE UNCHANGED sessionVars
    BY <1>1, Frames DEF sessionVars, SessInv, taskVars, mailVars
  <1>2. CASE SessionNext
    BY <1>2, CallerBeginsInv, CallerStepInv, LoopStepInv DEF SessionNext
  <1>. QED BY <1>1, <1>2

\* The invariant of the session.
LEMMA SessionSpecInv == SessionSpec => []SessInv
  <1>1. SessionInit => SessInv
    BY SessionInitInv
  <1>2. SessInv /\ [SessionNext]_sessionVars => SessInv'
    BY SessionStepInv
  <1>. QED BY <1>1, <1>2, PTL DEF SessionSpec

\* However calls, loops, failures and pending effects interleave, a session
\* (session.rs, event_loop.rs) calls its coordinator only as SlotWork allows:
\* with batch handles it was given, leases it holds and messages that exist.  So
\* what is proved of the coordinator holds of the coordinator in the session.
THEOREM SessionUsesCoordinator == SessionSpec => Spec
  <1>1. SessionInit => Init
    BY SessionInitInv
  <1>2. SessInv /\ [SessionNext]_sessionVars => [Next]_vars
    BY SessionStepInv
  <1>. QED BY <1>1, <1>2, SessionSpecInv, PTL DEF SessionSpec, Spec

\* The state of a session always has the shape its types give it; every message
\* that is unread or was prompted is a row of the mailbox table (mailbox.rs).
THEOREM SessionTypeCorrect == SessionSpec => []SessionTypeOK
  <1>1. SessInv => SessionTypeOK
    BY DEF SessInv, SessionTypeOK, IInv, RunInv, MailInv, MemberInv, CallInv, LoopInv, TodoInv,
       Runtimes, Statuses
  <1>. QED BY <1>1, SessionSpecInv, PTL

\* apply_work_summary reports a run as failed only when work of that run has
\* failed, although summaries are published after the unlock and may arrive late
\* and out of order, also after another run has been opened.
THEOREM FailureIsEarned == SessionSpec => []FailedIsEarned
  <1>1. SessInv => FailedIsEarned
    BY DEF SessInv, RunInv
  <1>. QED BY <1>1, SessionSpecInv, PTL

\* The slot ownership of the coordinator, in the session.
THEOREM SessionOwnership == SessionSpec => []ActiveBatchOwnsRunningWork
  BY SessionUsesCoordinator, OwnershipCorrect, PTL

-----------------------------------------------------------------------------
(* What is pending                                                          *)

\* The list q holds an effect of that kind with argument x.
Has(q, kind, x) == \E k \in DOMAIN q : q[k][1] = kind /\ x \in q[k][2]

\* Lists of effects in a row hold what each of them holds.
LEMMA HasConcat ==
  ASSUME NEW S, NEW p \in Seq(S), NEW q \in Seq(S), NEW kind, NEW x,
         Has(p, kind, x) \/ Has(q, kind, x)
  PROVE  Has(p \o q, kind, x)
  <1>1. /\ p \o q \in Seq(S) /\ Len(p \o q) = Len(p) + Len(q)
        /\ Len(p) \in Nat /\ Len(q) \in Nat
        /\ DOMAIN p = 1..Len(p) /\ DOMAIN q = 1..Len(q) /\ DOMAIN (p \o q) = 1..Len(p \o q)
        /\ \A k \in 1..Len(p) : (p \o q)[k] = p[k]
        /\ \A k \in 1..Len(q) : (p \o q)[Len(p) + k] = q[k]
    BY ConcatProperties, LenProperties
  <1>2. CASE Has(p, kind, x)
    <2>1. PICK k \in DOMAIN p : p[k][1] = kind /\ x \in p[k][2]
      BY <1>2 DEF Has
    <2>2. k \in DOMAIN (p \o q) /\ (p \o q)[k] = p[k]
      BY <1>1, <2>1
    <2>. QED BY <2>1, <2>2 DEF Has
  <1>3. CASE Has(q, kind, x)
    <2>1. PICK k \in DOMAIN q : q[k][1] = kind /\ x \in q[k][2]
      BY <1>3 DEF Has
    <2>2. Len(p) + k \in DOMAIN (p \o q) /\ (p \o q)[Len(p) + k] = q[k]
      BY <1>1, <2>1
    <2>. QED BY <2>1, <2>2 DEF Has
  <1>. QED BY <1>2, <1>3

\* The same for three lists.
LEMMA HasConcat3 ==
  ASSUME NEW S, NEW p \in Seq(S), NEW q \in Seq(S), NEW r \in Seq(S), NEW kind, NEW x,
         Has(p, kind, x) \/ Has(q, kind, x) \/ Has(r, kind, x)
  PROVE  Has((p \o q) \o r, kind, x)
  <1>1. p \o q \in Seq(S)
    BY ConcatProperties
  <1>2. Has(p \o q, kind, x) \/ Has(r, kind, x)
    BY HasConcat
  <1>. HIDE DEF Has
  <1>. QED BY <1>1, <1>2, HasConcat

\* An effect holds its arguments.
LEMMA HasEffect ==
  ASSUME NEW kind, NEW args, NEW x \in args
  PROVE  Has(Effect(kind, args), kind, x)
  <1>1. Effect(kind, args) = << <<kind, args>> >>
    BY DEF Effect
  <1>2. 1 \in DOMAIN Effect(kind, args) /\ Effect(kind, args)[1] = <<kind, args>>
    BY <1>1
  <1>. QED BY <1>2 DEF Has

\* An empty list holds nothing.
LEMMA HasNothing == \A kind, x : ~Has(<<>>, kind, x)
  BY DEF Has

\* What a list holds is in its head or in its tail.
LEMMA HasSplit ==
  ASSUME NEW S, NEW q \in Seq(S), q # <<>>, NEW kind, NEW x, Has(q, kind, x)
  PROVE  (Head(q)[1] = kind /\ x \in Head(q)[2]) \/ Has(Tail(q), kind, x)
  <1>1. PICK k \in DOMAIN q : q[k][1] = kind /\ x \in q[k][2]
    BY DEF Has
  <1>2. /\ Len(q) \in Nat /\ DOMAIN q = 1..Len(q)
        /\ Tail(q) \in Seq(S) /\ Len(Tail(q)) = Len(q) - 1 /\ Head(q) = q[1]
        /\ \A j \in 1..Len(Tail(q)) : Tail(q)[j] = q[j + 1]
    BY HeadTailProperties, LenProperties
  <1>3. CASE k = 1
    BY <1>1, <1>2, <1>3
  <1>4. CASE k # 1
    <2>1. k - 1 \in DOMAIN Tail(q)
      BY <1>1, <1>2, <1>4, LenProperties
    <2>2. Tail(q)[k - 1] = q[k]
      BY <1>1, <1>2, <1>4
    <2>. QED BY <1>1, <2>1, <2>2 DEF Has
  <1>. QED BY <1>3, <1>4

\* What was pending still is, except the one thing that was carried out.
LEMMA CarriedKeeps ==
  ASSUME NEW t \in Tasks, NEW x, NEW kind, NEW y, SessInv, [Next]_vars, todo[t] # <<>>,
         NEW more \in Seq(EffectSet(TrueSummaries', BatchesOf(t)')), Carried(t, x, more),
         Has(todo[t], kind, y), kind = Head(todo[t])[1] => x # y
  PROVE  Has(todo'[t], kind, y)
  <1>. DEFINE S == EffectSet(TrueSummaries', BatchesOf(t)')
              h == Head(todo[t])
              e == Effect(h[1], h[2] \ {x})
  <1>1. EffectSet(TrueSummaries, BatchesOf(t)) \subseteq S
    <2>1. TrueSummaries \subseteq TrueSummaries' /\ BatchesOf(t) \subseteq BatchesOf(t)'
      BY NothingIsForgotten DEF SessInv
    <2>. QED BY <2>1 DEF EffectSet
  <1>2. e \in Seq(S)
    BY <1>1, HeadFacts, EffectShrinks, EffectSeq
  <1>3. Tail(todo[t]) \in Seq(S) /\ more \in Seq(S)
    BY <1>1, HeadFacts, SeqMonotonic
  <1>4. todo'[t] = (more \o e) \o Tail(todo[t])
    BY DEF Carried, Then, SessInv, TodoInv
  <1>5. Has(e, kind, y) \/ Has(Tail(todo[t]), kind, y)
    <2>1. (h[1] = kind /\ y \in h[2]) \/ Has(Tail(todo[t]), kind, y)
      BY HasSplit DEF SessInv, TodoInv
    <2>. QED BY <2>1, HasEffect
  <1>. HIDE DEF S, e
  <1>6. Has((more \o e) \o Tail(todo[t]), kind, y)
    BY <1>2, <1>3, <1>5, HasConcat3
  <1>. QED BY <1>4, <1>6

-----------------------------------------------------------------------------
(* Every batch has its loop                                                 *)

\* The list q of effects ends batch b.
Owes(q, b) == \E x : Has(q, "end", x) /\ x[1] = b

Holds(s) == loop[s].at \in {"prompt", "start", "turn"} /\ loop[s].batch = active[s]

HasOwner(s) == active[s] # 0 => Holds(s) \/ Owes(todo[s], active[s])

\* BatchHasItsLoop, slot by slot.
LEMMA OwnersAreLoops == (\A s \in Slots : HasOwner(s)) <=> BatchHasItsLoop
  BY DEF HasOwner, Holds, Owes, Has, BatchHasItsLoop

\* Nobody owes anything by an empty list.
LEMMA OwesNothing == \A b : ~Owes(<<>>, b)
  BY HasNothing DEF Owes

\* Only next() gives a slot a batch.
LEMMA OnlyClaims ==
  ASSUME IInv, [Next]_vars, lastOp' = lastOp, NEW s \in Slots
  PROVE  active'[s] \in {0, active[s]}
  <1>1. lastOp \in Nat /\ active \in [Slots -> 0..MaxOps]
    BY SlotWorkAssumption DEF IInv, TypeOK
  <1>2. \A u \in Slots : ~ClaimNext(u)
    BY <1>1 DEF ClaimNext
  <1>. QED
    BY <1>1, <1>2 DEF Next, vars, AcquireEnqueue, CommitEnqueue, AbortEnqueue, slotVars,
       ReconcileMailbox, CompleteSignals, MarkStarted, RetryStart, TerminalizeBatch, CancelRun,
       PauseSlot, SetRuntimeConstraint, RemoveSlot, Stop

\* A slot keeps its owner if nobody claims, its loop keeps its batch and its
\* list of effects stays.
LEMMA OwnerStays ==
  ASSUME SessInv, [Next]_vars, lastOp' = lastOp, NEW s \in Slots, HasOwner(s),
         Holds(s) => loop'[s].at \in {"prompt", "start", "turn"} /\ loop'[s].batch = loop[s].batch,
         todo'[s] = todo[s] \/ todo[s] = <<>>
  PROVE  HasOwner(s)'
  <1>1. active'[s] \in {0, active[s]}
    BY OnlyClaims DEF SessInv
  <1>. QED BY <1>1, OwesNothing DEF HasOwner, Holds

\* The loop of a slot that is not busy with a batch has none.
LEMMA NoBatch ==
  ASSUME NEW s \in Slots, HasOwner(s), Free(s), loop[s].at \notin {"prompt", "start", "turn"}
  PROVE  active[s] = 0
  BY OwesNothing DEF HasOwner, Holds, Free

\* A step of the loop of slot s that does not claim leaves a slot without a batch
\* as it is.
LEMMA PlainOwner ==
  ASSUME SessInv, [Next]_vars, lastOp' = lastOp, NEW s \in Slots, HasOwner(s), Free(s),
         loop[s].at \notin {"prompt", "start", "turn"}
  PROVE  HasOwner(s)'
  <1>1. active'[s] = 0
    BY NoBatch, OnlyClaims DEF SessInv
  <1>. QED BY <1>1 DEF HasOwner

\* A task that has nothing pending and moves no loop disturbs no owner.
LEMMA TaskOwners ==
  ASSUME SessInv, [Next]_vars, lastOp' = lastOp, NEW t \in Tasks, UNCHANGED loop, Free(t),
         UNCHANGED todo \/ \E q : Then(t, q), NEW s \in Slots, HasOwner(s)
  PROVE  HasOwner(s)'
  <1>1. todo'[s] = todo[s] \/ todo[s] = <<>>
    <2>1. s \in Tasks
      BY DEF Tasks
    <2>2. CASE UNCHANGED todo
      BY <2>2
    <2>3. CASE s # t /\ \E q : Then(t, q)
      BY <2>1, <2>3 DEF Then, SessInv, TodoInv
    <2>. QED BY <2>2, <2>3 DEF Free
  <1>. QED BY <1>1, OwnerStays DEF Holds

\* The steps of an enqueue.
LEMMA EnqueueOwners ==
  ASSUME SessInv, NEW t \in Tasks, EnqueueStep(t), NEW s \in Slots, HasOwner(s)
  PROVE  HasOwner(s)'
  <1>1. [Next]_vars /\ UNCHANGED loop /\ Free(t)
    BY EnqueueInv DEF EnqueueStep, PublishConstraint, Acquire, WriteMessage, WriteFails, Commit
  <1>2. UNCHANGED todo \/ \E q : Then(t, q)
    BY DEF EnqueueStep, PublishConstraint, Constrain, Acquire, WriteMessage, WriteFails, Commit,
       Abort
  <1>3. lastOp' = lastOp
    BY DEF EnqueueStep, PublishConstraint, Constrain, SetRuntimeConstraint, Acquire,
       AcquireEnqueue, WriteMessage, WriteFails, Commit, CommitEnqueue, Abort, AbortEnqueue, vars
  <1>. QED BY <1>1, <1>2, <1>3, TaskOwners

\* The beginning of a call.
LEMMA CallerBeginsOwners ==
  ASSUME SessInv, NEW c \in Callers, CallerBegins(c), NEW s \in Slots, HasOwner(s)
  PROVE  HasOwner(s)'
  <1>1. c \in Tasks /\ [Next]_vars /\ UNCHANGED loop /\ Free(c)
    BY CallerBeginsInv DEF Tasks, CallerBegins, UserMessage, AgentMessage, CancelRunBegin,
       CancelChildTurn, PauseSlotWork, AttachBegin
  <1>2. UNCHANGED todo \/ \E q : Then(c, q)
    BY DEF CallerBegins, UserMessage, AgentMessage, CancelRunBegin, CancelChildTurn,
       PauseSlotWork, AttachBegin, Interrupt
  <1>3. lastOp' = lastOp
    BY DEF CallerBegins, UserMessage, AgentMessage, CancelRunBegin, CancelChildTurn,
       PauseSlotWork, PauseSlot, AttachBegin, vars
  <1>. QED BY <1>1, <1>2, <1>3, TaskOwners

\* Carrying out a pending effect.
LEMMA ContinueOwners ==
  ASSUME SessInv, NEW t \in Tasks, Continue(t), NEW s \in Slots, HasOwner(s)
  PROVE  HasOwner(s)'
  <1>. DEFINE kind == Head(todo[t])[1]
              args == Head(todo[t])[2]
  <1>0. todo[t] # <<>> /\ [Next]_vars /\ <<>> \in Seq(EffectSet(TrueSummaries', BatchesOf(t)'))
    BY ContinueInv, EmptySeq DEF Continue
  <1>1. Holds(s) => loop'[s].at \in {"prompt", "start", "turn"} /\ loop'[s].batch = loop[s].batch
    <2>1. CASE UNCHANGED loop
      BY <2>1 DEF Holds
    <2>2. ASSUME NEW u, loop[u].at = "turn", loop' = [loop EXCEPT ![u].turn = Stopped(@)], Holds(s)
          PROVE  loop'[s].at \in {"prompt", "start", "turn"} /\ loop'[s].batch = loop[s].batch
      <3>1. CASE u # s
        BY <2>2, <3>1 DEF Holds, SessInv, LoopInv
      <3>2. CASE u = s
        <4>1. loop[s] \in TurnLoops(BatchesOf(s), DOMAIN rows)
          BY <2>2, <3>2, LoopKinds DEF SessInv, LoopInv
        <4>2. loop'[s] = [loop[s] EXCEPT !.turn = Stopped(@)]
          BY <2>2, <3>2 DEF SessInv, LoopInv
        <4>. QED BY <4>1, <4>2 DEF TurnLoops
      <3>. QED BY <3>1, <3>2
    <2>3. CASE \E x \in args : StopTurn(t, x)
      BY <2>1, <2>2, <2>3 DEF StopTurn
    <2>. QED BY <2>1, <2>3 DEF Continue, Apply, Unbind, Read, Notify, SetStatus, EndBatch, Answer
  <1>2. lastOp' = lastOp
    BY DEF Continue, Apply, Unbind, Read, Notify, StopTurn, SetStatus, EndBatch, TerminalizeBatch,
       Answer, vars
  <1>3. CASE s # t
    <2>1. \E q : Then(t, q)
      BY DEF Continue, Apply, Unbind, Read, Notify, StopTurn, SetStatus, EndBatch, Answer, Carried
    <2>2. todo'[s] = todo[s]
      BY <1>3, <2>1 DEF Then, SessInv, TodoInv
    <2>. QED BY <1>0, <1>1, <1>2, <2>2, OwnerStays
  <1>4. CASE s = t
    <2>1. active'[s] \in {0, active[s]}
      BY <1>0, <1>2, OnlyClaims DEF SessInv
    <2>2. active'[s] # 0 /\ Owes(todo[s], active[s]) => Owes(todo'[s], active[s])
      <3> SUFFICES ASSUME active'[s] # 0, NEW y, Has(todo[s], "end", y), y[1] = active[s]
                   PROVE  Has(todo'[s], "end", y)
        BY DEF Owes
      <3>1. CASE kind # "end"
        <4>1. \E x : Carried(t, x, <<>>)
          BY <3>1 DEF Continue, Apply, Unbind, Read, Notify, StopTurn, SetStatus, Answer
        <4>. QED BY <1>0, <1>4, <3>1, <4>1, CarriedKeeps
      <3>2. CASE kind = "end"
        <4>1. PICK x \in args : EndBatch(t, x[1], x[2])
          BY <3>2 DEF Continue
        <4>2. x = <<x[1], x[2]>> /\ x[1] \in BatchesOf(s)
          BY <1>0, <1>4, <3>2, HeadFacts, EffectKinds
        <4>3. x[1] # active[s]
          BY <2>1, <4>1, <4>2 DEF EndBatch, TerminalizeBatch, IsCurrent, BatchesOf, SessInv, IInv,
             TypeOK
        <4>4. \E more \in Seq(EffectSet(TrueSummaries', BatchesOf(t)')) : Carried(t, x, more)
          <5>1. RunsOf(batches[x[1]].members) \in SUBSET (Runs \cup {NoRun})
            BY <4>2, IntentFacts DEF SessInv, MembersExist, BatchesOf
          <5>2. Publish(RunsOf(batches[x[1]].members)) \in Seq(EffectSet(TrueSummaries', BatchesOf(t)'))
            BY <5>1, PublishSeq
          <5>. QED BY <1>0, <4>1, <4>2, <5>2 DEF EndBatch
        <4>5. y # x
          BY <4>3
        <4>6. Has(todo[t], "end", y)
          BY <1>4
        <4>7. Has(todo'[t], "end", y)
          BY <1>0, <4>4, <4>5, <4>6, CarriedKeeps
        <4>. QED BY <1>4, <4>7
      <3>. QED BY <3>1, <3>2
    <2>. QED BY <1>1, <2>1, <2>2 DEF HasOwner, Holds
  <1>. QED BY <1>3, <1>4

\* A further step of a call.
LEMMA CallerStepOwners ==
  ASSUME SessInv, NEW c \in Callers, CallerStep(c), NEW s \in Slots, HasOwner(s)
  PROVE  HasOwner(s)'
  <1>0. c \in Tasks /\ [Next]_vars
    BY CallerStepInv DEF Tasks
  <1>1. CASE EnqueueStep(c) \/ Continue(c)
    BY <1>0, <1>1, EnqueueOwners, ContinueOwners
  <1>2. CASE \/ CancelRunWork(c) \/ TellLead(c) \/ TellFails(c) \/ WakeLeader(c) \/ AttachTold(c)
             \/ \E to \in {"Ready", "Failed"} : AttachEnds(c, to)
    <2>1. UNCHANGED loop /\ Free(c)
      BY <1>2 DEF CancelRunWork, TellLead, TellFails, WakeLeader, AttachTold, AttachEnds
    <2>2. UNCHANGED todo \/ \E q : Then(c, q)
      BY <1>2 DEF CancelRunWork, TellLead, TellFails, WakeLeader, AttachTold, AttachEnds, Constrain
    <2>3. lastOp' = lastOp
      BY <1>2 DEF CancelRunWork, CancelRun, TellLead, TellFails, WakeLeader, AttachTold, AttachEnds,
         Constrain, SetRuntimeConstraint, vars
    <2>. QED BY <1>0, <2>1, <2>2, <2>3, TaskOwners
  <1>. QED BY <1>1, <1>2 DEF CallerStep

\* A step of the loop of slot s disturbs no other slot.
LEMMA OtherOwners ==
  ASSUME SessInv, [Next]_vars, NEW s \in Slots, NEW u \in Slots, u # s, HasOwner(u),
         lastOp' = lastOp \/ ClaimNext(s),
         \E q : Goto(s, q),
         UNCHANGED todo \/ \E q : Then(s, q)
  PROVE  HasOwner(u)'
  <1>1. active'[u] \in {0, active[u]}
    BY OnlyClaims DEF ClaimNext, SessInv, IInv, TypeOK
  <1>2. loop'[u] = loop[u]
    BY DEF Goto, SessInv, LoopInv
  <1>3. todo'[u] = todo[u]
    BY DEF Tasks, Then, SessInv, TodoInv
  <1>. QED BY <1>1, <1>2, <1>3 DEF HasOwner, Holds

\* A batch that is given back leaves its slot.
LEMMA GiveBackOwner ==
  ASSUME SessInv, NEW s \in Slots, HasOwner(s), Free(s), loop[s].at \in {"prompt", "start"},
         NEW rest, GiveBack(s, rest)
  PROVE  HasOwner(s)'
  <1>. DEFINE b == loop[s].batch
  <1>1. batches[b].slot = s /\ active \in [Slots -> 0..MaxOps]
    BY OwnBatch DEF SessInv, IInv, TypeOK
  <1>2. active[s] # 0 => active[s] = b
    BY OwesNothing DEF HasOwner, Holds, Free
  <1>3. active'[s] = 0
    BY <1>1, <1>2 DEF GiveBack, RetryStart, IsCurrent, vars
  <1>. QED BY <1>3 DEF HasOwner

\* A turn that ends leaves its batch to be ended.
LEMMA SettleOwner ==
  ASSUME SessInv, NEW s \in Slots, HasOwner(s), Free(s), loop[s].at \in {"start", "turn"},
         UNCHANGED vars, NEW st \in {"Completed", "Failed"}, NEW args \in SUBSET ({s} \X LaterStatuses),
         Then(s, Settle(loop[s].batch, st) \o Effect("status", args))
  PROVE  HasOwner(s)'
  <1>. DEFINE b == loop[s].batch
              S == EffectSet(TrueSummaries, BatchesOf(s))
              m == MarkRead(BatchMessages(b))
              e == Effect("end", {<<b, st>>})
              x == Effect("status", args)
  <1>1. b \in BatchesOf(s) /\ BatchMessages(b) \in SUBSET MsgOrNone
    BY OwnBatch
  <1>2. {<<b, st>>} \in SUBSET (BatchesOf(s) \X Terminal)
    BY <1>1 DEF Terminal
  <1>3. m \in Seq(S) /\ e \in Seq(S) /\ x \in Seq(S)
    BY <1>1, <1>2, MarkReadSeq, EndSeq, StatusSeq
  <1>4. Has(e, "end", <<b, st>>)
    BY HasEffect
  <1>5. todo'[s] = (m \o e) \o x
    BY DEF Then, Settle, Tasks, SessInv, TodoInv
  <1>6. active[s] # 0 => active[s] = b
    BY OwesNothing DEF HasOwner, Holds, Free
  <1>. HIDE DEF S, m, e, x
  <1>7. Has((m \o e) \o x, "end", <<b, st>>)
    BY <1>3, <1>4, HasConcat3
  <1>. QED BY <1>5, <1>6, <1>7 DEF HasOwner, Owes, vars

\* A step of an event loop.
LEMMA LoopStepOwners ==
  ASSUME SessInv, NEW s \in Slots, LoopStep(s), "transport" \notin Faults,
         NEW u \in Slots, HasOwner(u), HasOwner(s)
  PROVE  HasOwner(u)'
  <1>0. s \in Tasks /\ [Next]_vars
    BY LoopStepInv DEF Tasks
  <1>1. CASE EnqueueStep(s) \/ Continue(s)
    BY <1>0, <1>1, EnqueueOwners, ContinueOwners
  <1>2. CASE \/ Wake(s) \/ Prepare(s) \/ PrepareConstraint(s) \/ Peek(s) \/ Reconcile(s)
             \/ NoClaim(s) \/ SettleSignals(s) \/ MarkIdle(s) \/ ReportIdle(s) \/ ReportFails(s)
             \/ WakeSettledLead(s)
    <2>1. /\ Free(s) /\ loop[s].at \notin {"prompt", "start", "turn"}
          /\ \E q : Goto(s, q)
      BY <1>2 DEF Wake, Prepare, PrepareConstraint, Peek, Reconcile, NoClaim, SettleSignals,
         MarkIdle, ReportIdle, ReportFails, WakeSettledLead, LoopAt
    <2>2. UNCHANGED todo \/ \E q : Then(s, q)
      BY <1>2 DEF Wake, Prepare, PrepareConstraint, Peek, Reconcile, NoClaim, SettleSignals,
         MarkIdle, ReportIdle, ReportFails, WakeSettledLead, Constrain
    <2>3. lastOp' = lastOp
      BY <1>2 DEF Wake, Prepare, PrepareConstraint, Peek, Reconcile, NoClaim, SettleSignals,
         MarkIdle, ReportIdle, ReportFails, WakeSettledLead, Constrain, SetRuntimeConstraint,
         ReconcileMailbox,
         CompleteSignals, vars
    <2>. QED BY <1>0, <2>1, <2>2, <2>3, PlainOwner, OtherOwners
  <1>3. CASE Claim(s)
    <2>1. /\ ClaimNext(s) /\ (\E q : Then(s, q))
          /\ \E S : Goto(s, [at |-> "prompt", batch |-> lastOp', seen |-> S])
      BY <1>3 DEF Claim
    <2>2. CASE u = s
      <3>1. active'[s] = lastOp'
        BY <2>1 DEF ClaimNext, SessInv, IInv, TypeOK
      <3>2. loop'[s].at = "prompt" /\ loop'[s].batch = lastOp'
        BY <2>1 DEF Goto, SessInv, LoopInv
      <3>. QED BY <2>2, <3>1, <3>2 DEF HasOwner, Holds
    <2>3. CASE u # s
      BY <1>0, <2>1, <2>3, OtherOwners
    <2>. QED BY <2>2, <2>3
  <1>4. CASE ListTasksFails(s) \/ StartSkipped(s)
    <2>1. PICK rest : GiveBack(s, rest) /\ Free(s) /\ loop[s].at \in {"prompt", "start"}
      BY <1>4 DEF ListTasksFails, StartSkipped, LoopAt
    <2>2. lastOp' = lastOp /\ (\E q : Goto(s, q)) /\ \E q : Then(s, q)
      BY <2>1 DEF GiveBack, RetryStart, vars
    <2>. QED BY <1>0, <2>1, <2>2, GiveBackOwner, OtherOwners
  <1>5. CASE Execute(s) \/ StartTurn(s) \/ Launch(s)
    <2>1. /\ Free(s) /\ loop[s].at \in {"prompt", "start", "turn"} /\ lastOp' = lastOp
          /\ UNCHANGED todo \/ \E q : Then(s, q)
      BY <1>5 DEF Execute, StartTurn, MarkStarted, Launch, LoopAt, vars
    <2>2. PICK q : Goto(s, q) /\ q.at \in {"start", "turn"} /\ q.batch = loop[s].batch
      <3>1. CASE Execute(s) \/ StartTurn(s)
        BY <3>1 DEF Execute, StartTurn
      <3>2. CASE Launch(s)
        <4>1. loop[s] \in TurnLoops(BatchesOf(s), DOMAIN rows)
          BY <3>2, LoopKinds DEF Launch, LoopAt, SessInv, LoopInv
        <4>2. /\ [loop[s] EXCEPT !.turn = "live"].at = "turn"
              /\ [loop[s] EXCEPT !.turn = "live"].batch = loop[s].batch
          BY <4>1 DEF TurnLoops
        <4>. QED BY <3>2, <4>2 DEF Launch
      <3>. QED BY <1>5, <3>1, <3>2
    <2>3. loop'[s] = q
      BY <2>2 DEF Goto, SessInv, LoopInv
    <2>4. CASE u = s
      BY <1>0, <2>1, <2>2, <2>3, <2>4, OwnerStays DEF Free
    <2>5. CASE u # s
      BY <1>0, <2>1, <2>2, <2>5, OtherOwners
    <2>. QED BY <2>4, <2>5
  <1>6. CASE TransportFails(s)
    BY <1>6 DEF TransportFails
  <1>7. CASE TurnErrs(s) \/ \E st \in {"Completed", "Failed"} : TurnEnds(s, st)
    <2>1. PICK st \in {"Completed", "Failed"}, args \in SUBSET ({s} \X LaterStatuses) :
            Then(s, Settle(loop[s].batch, st) \o Effect("status", args))
      <3>1. CASE TurnErrs(s)
        <4>1. {<<s, "Error">>} \in SUBSET ({s} \X LaterStatuses)
          BY DEF LaterStatuses, Statuses
        <4>. QED BY <3>1, <4>1 DEF TurnErrs
      <3>2. ASSUME NEW st \in {"Completed", "Failed"}, TurnEnds(s, st)
            PROVE  \E args \in SUBSET ({s} \X LaterStatuses) :
                      Then(s, Settle(loop[s].batch, st) \o Effect("status", args))
        <4>1. (IF st = "Failed" THEN {<<s, "Error">>} ELSE {}) \in SUBSET ({s} \X LaterStatuses)
          BY DEF LaterStatuses, Statuses
        <4>. QED BY <3>2, <4>1 DEF TurnEnds
      <3>. QED BY <1>7, <3>1, <3>2
    <2>2. /\ UNCHANGED vars /\ Free(s) /\ loop[s].at \in {"start", "turn"}
          /\ \E q : Goto(s, q)
      BY <1>7 DEF TurnErrs, TurnEnds, LoopAt
    <2>3. CASE u = s
      BY <2>1, <2>2, <2>3, SettleOwner
    <2>4. CASE u # s
      BY <1>0, <2>1, <2>2, <2>4, OtherOwners DEF vars
    <2>. QED BY <2>3, <2>4
  <1>. QED
    BY <1>1, <1>2, <1>3, <1>4, <1>5, <1>6, <1>7 DEF LoopStep

\* As long as the tool transport does not fail, a slot is never blocked by a batch
\* that nobody will end: the loop that claimed the batch still has it, or has its
\* end pending (event_loop.rs), whoever else cancels, pauses, fails or removes
\* work meanwhile.  TransportFails is the one way out of that (session.rs).
THEOREM BatchesHaveLoops == "transport" \notin Faults => (SessionSpec => []BatchHasItsLoop)
  <1> SUFFICES ASSUME "transport" \notin Faults
               PROVE  SessionSpec => []BatchHasItsLoop
    OBVIOUS
  <1>1. SessionInit => BatchHasItsLoop
    BY DEF SessionInit, Init, BatchHasItsLoop
  <1>2. SessInv /\ BatchHasItsLoop /\ [SessionNext]_sessionVars => BatchHasItsLoop'
    <2> SUFFICES ASSUME SessInv, BatchHasItsLoop, [SessionNext]_sessionVars, NEW s \in Slots
                 PROVE  HasOwner(s)'
      BY DEF HasOwner, Holds, Owes, Has, BatchHasItsLoop
    <2>1. \A u \in Slots : HasOwner(u)
      BY OwnersAreLoops
    <2>2. CASE UNCHANGED sessionVars
      BY <2>1, <2>2 DEF sessionVars, taskVars, vars, HasOwner, Holds
    <2>3. CASE SessionNext
      BY <2>1, <2>3, CallerBeginsOwners, CallerStepOwners, LoopStepOwners DEF SessionNext
    <2>. QED BY <2>2, <2>3
  <1>. QED BY <1>1, <1>2, SessionSpecInv, PTL DEF SessionSpec

-----------------------------------------------------------------------------
(* No message is prompted twice                                             *)

\* The messages a loop has peeked and not let go of.
SeenOf(s) ==
    IF loop[s].at \in {"reconcile", "next", "prompt", "start", "turn"} THEN loop[s].seen ELSE {}

\* The loop may still hand what it has seen to its agent.
Ahead(s) == \/ loop[s].at \in {"reconcile", "next", "prompt", "start"}
            \/ loop[s].at = "turn" /\ loop[s].turn = "started"

WillRead(s, m) == \E A : Has(todo[s], "read", A) /\ m \in A

\* What is unread by, or seen by, two slots is different.
Apart == \A s, u \in Slots :
            s # u => (unread[s] \cup SeenOf(s)) \cap (unread[u] \cup SeenOf(u)) = {}

\* A prompted message that is still unread belongs to the turn that goes on, or
\* will be marked read before the loop peeks again.
PromptOK(s) ==
    /\ Ahead(s) => loop[s].seen \cap prompted = {}
    /\ loop[s].at \in {"prompt", "start", "turn"} =>
         loop[s].seen \subseteq BatchMessages(loop[s].batch)
    /\ \A m \in prompted \cap unread[s] :
         \/ loop[s].at = "turn" /\ m \in BatchMessages(loop[s].batch)
         \/ WillRead(s, m)

PromptInv == Apart /\ \A s \in Slots : PromptOK(s)

RowWritten == \E x \in Slots : \E from, kind : WriteRow(x, from, kind)

\* The messages of a batch stay the same.
LEMMA BatchMessagesStay ==
  ASSUME SessInv, [Next]_vars, NEW b \in DOMAIN batches
  PROVE  BatchMessages(b)' = BatchMessages(b)
  <1>1. batches'[b] = batches[b] /\ batches[b].members \subseteq DOMAIN intents
    BY BatchesStay DEF SessInv, MembersExist
  <1>2. \A i \in batches[b].members : intents'[i].msg = intents[i].msg
    BY <1>1, IntentsStay DEF SessInv
  <1>. QED BY <1>1, <1>2 DEF BatchMessages, MessagesOf

\* What a loop has seen are rows.
LEMMA SeenAreRows ==
  ASSUME SessInv, NEW s \in Slots
  PROVE  SeenOf(s) \subseteq DOMAIN rows
  BY LoopKinds DEF SessInv, LoopInv, SeenOf, SeenLoops, BatchLoops, TurnLoops

\* A new row belongs to no slot yet, and was not prompted.
LEMMA NewRow ==
  ASSUME SessInv, RowWritten
  PROVE  \E x \in Slots : \E m : /\ m \notin DOMAIN rows
                               /\ unread' = [unread EXCEPT ![x] = @ \cup {m}]
  <1>1. rows \in Seq([from : Slots \cup {"user"}, kind : {"message", "idle"}])
    BY DEF SessInv, MailInv
  <1>2. Len(rows) \in Nat /\ DOMAIN rows = 1..Len(rows)
    BY <1>1, LenProperties
  <1>3. PICK x \in Slots : \E row : /\ rows' = Append(rows, row)
                                   /\ unread' = [unread EXCEPT ![x] = @ \cup {Len(rows')}]
    BY DEF RowWritten, WriteRow
  <1>4. Len(rows') = Len(rows) + 1
    BY <1>1, <1>3
  <1>5. Len(rows') \notin DOMAIN rows
    BY <1>2, <1>4
  <1>. QED BY <1>3, <1>5

\* A step that shows no slot anything but its own keeps the slots apart.
LEMMA ApartStays ==
  ASSUME SessInv, Apart,
         \A s \in Slots : SeenOf(s)' \subseteq unread[s] \cup SeenOf(s),
         \/ \A s \in Slots : unread'[s] \subseteq unread[s]
         \/ RowWritten
  PROVE  Apart'
  <1>1. CASE \A s \in Slots : unread'[s] \subseteq unread[s]
    BY <1>1 DEF Apart
  <1>2. CASE RowWritten
    <2>1. PICK x \in Slots : \E m : /\ m \notin DOMAIN rows
                                   /\ unread' = [unread EXCEPT ![x] = @ \cup {m}]
      BY <1>2, NewRow
    <2>2. /\ unread \in [Slots -> SUBSET DOMAIN rows]
          /\ \A s \in Slots : SeenOf(s) \subseteq DOMAIN rows
      BY SeenAreRows DEF SessInv, MailInv
    <2>3. PICK m : /\ m \notin DOMAIN rows
                   /\ \A s \in Slots : unread'[s] = IF s = x THEN unread[s] \cup {m} ELSE unread[s]
      BY <2>1, <2>2
    <2>4. ASSUME NEW s \in Slots, NEW u \in Slots, s # u,
                 NEW n, n \in unread'[s] \cup SeenOf(s)', n \in unread'[u] \cup SeenOf(u)'
          PROVE  FALSE
      <3>1. \/ n \in unread[s] \cup SeenOf(s)
            \/ s = x /\ n = m
        BY <2>3, <2>4
      <3>2. \/ n \in unread[u] \cup SeenOf(u)
            \/ u = x /\ n = m
        BY <2>3, <2>4
      <3>. QED BY <2>2, <2>3, <2>4, <3>1, <3>2 DEF Apart
    <2>. QED BY <2>4 DEF Apart
  <1>. QED BY <1>1, <1>2

\* What is prompted and unread after a step was so before, unless it is prompted
\* by the step.
LEMMA UnreadBefore ==
  ASSUME SessInv, NEW s \in Slots,
         \/ \A u \in Slots : unread'[u] \subseteq unread[u]
         \/ RowWritten
  PROVE  prompted \cap unread'[s] \subseteq unread[s]
  <1>1. CASE \A u \in Slots : unread'[u] \subseteq unread[u]
    BY <1>1
  <1>2. CASE RowWritten
    <2>1. PICK x \in Slots : \E m : /\ m \notin DOMAIN rows
                                   /\ unread' = [unread EXCEPT ![x] = @ \cup {m}]
      BY <1>2, NewRow
    <2>. QED BY <2>1 DEF SessInv, MailInv
  <1>. QED BY <1>1, <1>2

\* A slot whose loop does not move.
LEMMA PromptStays ==
  ASSUME SessInv, [Next]_vars, NEW s \in Slots, PromptOK(s), prompted' = prompted,
         prompted \cap unread'[s] \subseteq unread[s], loop'[s] = loop[s],
         todo'[s] = todo[s] \/ todo[s] = <<>>
  PROVE  PromptOK(s)'
  <1>1. \A m : WillRead(s, m) => WillRead(s, m)'
    BY HasNothing DEF WillRead
  <1>2. loop[s].at \in {"prompt", "start", "turn"} =>
          BatchMessages(loop[s].batch)' = BatchMessages(loop[s].batch)
    <2> SUFFICES ASSUME loop[s].at \in {"prompt", "start", "turn"},
                        NEW b, b = loop[s].batch
                 PROVE  BatchMessages(b)' = BatchMessages(b)
      BY DEF BatchMessages
    <2>. QED BY OwnBatch, BatchMessagesStay
  <1>. QED BY <1>1, <1>2 DEF PromptOK, Ahead

\* A loop that peeks or goes on without a prompted message.
LEMMA Clean ==
  ASSUME NEW s \in Slots, PromptOK(s), Free(s), loop[s].at # "turn"
  PROVE  prompted \cap unread[s] = {}
  BY HasNothing DEF PromptOK, WillRead, Free

LEMMA CleanStep ==
  ASSUME SessInv, NEW s \in Slots, PromptOK(s), Free(s), loop[s].at # "turn",
         prompted' = prompted, prompted \cap unread'[s] \subseteq unread[s],
         NEW q, loop'[s] = q,
         q.at \in {"reconcile", "next", "prompt", "start", "turn"} => q.seen \cap prompted = {},
         q.at \in {"prompt", "start", "turn"} => q.seen \subseteq BatchMessages(q.batch)'
  PROVE  PromptOK(s)'
  <1>1. prompted' \cap unread'[s] = {}
    BY Clean
  <1>2. Ahead(s)' => q.seen \cap prompted = {}
    BY DEF Ahead
  <1>3. loop'[s].at \in {"prompt", "start", "turn"} =>
          loop'[s].seen \subseteq BatchMessages(loop[s].batch)'
    BY DEF BatchMessages
  <1>. QED BY <1>1, <1>2, <1>3 DEF PromptOK

\* A task that moves no loop.
LEMMA TaskPrompts ==
  ASSUME SessInv, PromptInv, [Next]_vars, NEW t \in Tasks, UNCHANGED <<loop, prompted>>, Free(t),
         UNCHANGED todo \/ \E q : Then(t, q),
         UNCHANGED unread \/ RowWritten
  PROVE  PromptInv'
  <1>1. \A s \in Slots : SeenOf(s)' = SeenOf(s)
    BY DEF SeenOf
  <1>2. Apart'
    BY <1>1, ApartStays DEF PromptInv
  <1>3. ASSUME NEW s \in Slots
        PROVE  PromptOK(s)'
    <2>1. todo'[s] = todo[s] \/ todo[s] = <<>>
      <3>1. s \in Tasks
        BY DEF Tasks
      <3>2. CASE UNCHANGED todo
        BY <3>2
      <3>3. CASE s # t /\ \E q : Then(t, q)
        BY <3>1, <3>3 DEF Then, SessInv, TodoInv
      <3>. QED BY <3>2, <3>3 DEF Free
    <2>2. prompted \cap unread'[s] \subseteq unread[s]
      BY UnreadBefore
    <2>. QED BY <2>1, <2>2, PromptStays DEF PromptInv
  <1>. QED BY <1>2, <1>3 DEF PromptInv

\* The steps of an enqueue.
LEMMA EnqueuePrompts ==
  ASSUME SessInv, PromptInv, NEW t \in Tasks, EnqueueStep(t)
  PROVE  PromptInv'
  <1>1. [Next]_vars /\ UNCHANGED <<loop, prompted>> /\ Free(t)
    BY EnqueueInv DEF EnqueueStep, PublishConstraint, Acquire, WriteMessage, WriteFails, Commit,
       mailVars
  <1>2. UNCHANGED todo \/ \E q : Then(t, q)
    BY DEF EnqueueStep, PublishConstraint, Constrain, Acquire, WriteMessage, WriteFails, Commit,
       Abort
  <1>3. UNCHANGED unread \/ RowWritten
    <2>1. CASE WriteMessage(t)
      <3>1. call[t] \in LeaseCalls
        BY <2>1, CallKinds DEF WriteMessage, SessInv, CallInv
      <3>2. call[t].lease.slot \in Slots
        BY <3>1 DEF LeaseCalls, Lease
      <3>. QED BY <2>1, <3>2 DEF WriteMessage, RowWritten
    <2>. QED
      BY <2>1 DEF EnqueueStep, PublishConstraint, Acquire, WriteFails, Commit, mailVars
  <1>. QED BY <1>1, <1>2, <1>3, TaskPrompts

\* The beginning of a call.
LEMMA CallerBeginsPrompts ==
  ASSUME SessInv, PromptInv, NEW c \in Callers, CallerBegins(c)
  PROVE  PromptInv'
  <1>1. c \in Tasks /\ [Next]_vars /\ UNCHANGED <<loop, prompted, unread>> /\ Free(c)
    BY CallerBeginsInv DEF Tasks, CallerBegins, UserMessage, AgentMessage, CancelRunBegin,
       CancelChildTurn, PauseSlotWork, AttachBegin, mailVars
  <1>2. UNCHANGED todo \/ \E q : Then(c, q)
    BY DEF CallerBegins, UserMessage, AgentMessage, CancelRunBegin, CancelChildTurn,
       PauseSlotWork, AttachBegin, Interrupt
  <1>. QED BY <1>1, <1>2, TaskPrompts

\* Carrying out a pending effect.
LEMMA ContinuePrompts ==
  ASSUME SessInv, PromptInv, NEW t \in Tasks, Continue(t)
  PROVE  PromptInv'
  <1>. DEFINE kind == Head(todo[t])[1]
              args == Head(todo[t])[2]
              S == EffectSet(TrueSummaries', BatchesOf(t)')
  <1>0. todo[t] # <<>> /\ [Next]_vars /\ <<>> \in Seq(S) /\ UNCHANGED prompted
    BY ContinueInv, EmptySeq DEF Continue, Apply, Unbind, Read, Notify, StopTurn, SetStatus,
       EndBatch, Answer, mailVars
  <1>1. \A s \in Slots : unread'[s] \subseteq unread[s]
    BY DEF Continue, Apply, Unbind, Read, Notify, StopTurn, SetStatus, EndBatch, Answer, mailVars
  <1>2. ASSUME NEW s \in Slots
        PROVE  /\ loop'[s].at = loop[s].at
               /\ loop[s].at \in {"prompt", "start", "turn"} => loop'[s].batch = loop[s].batch
               /\ SeenOf(s)' = SeenOf(s)
               /\ Ahead(s)' => Ahead(s)
    <2>1. CASE loop'[s] = loop[s]
      BY <2>1 DEF SeenOf, Ahead
    <2>2. CASE loop[s].at = "turn" /\ loop' = [loop EXCEPT ![s].turn = Stopped(@)]
      <3>1. loop[s] \in TurnLoops(BatchesOf(s), DOMAIN rows)
        BY <2>2, LoopKinds DEF SessInv, LoopInv
      <3>2. loop'[s] = [loop[s] EXCEPT !.turn = Stopped(@)]
        BY <2>2 DEF SessInv, LoopInv
      <3>3. /\ loop'[s].at = "turn" /\ loop'[s].batch = loop[s].batch /\ loop'[s].seen = loop[s].seen
            /\ loop'[s].turn = "started" => loop[s].turn = "started"
        BY <3>1, <3>2 DEF TurnLoops, Stopped
      <3>. QED BY <2>2, <3>3 DEF SeenOf, Ahead
    <2>3. CASE \E x \in args : StopTurn(t, x)
      <3>1. PICK u : \/ loop' = loop
                     \/ loop[u].at = "turn" /\ loop' = [loop EXCEPT ![u].turn = Stopped(@)]
        BY <2>3 DEF StopTurn
      <3>2. CASE u # s
        BY <2>1, <3>1, <3>2 DEF SessInv, LoopInv
      <3>3. CASE u = s
        BY <2>1, <2>2, <3>1, <3>3
      <3>. QED BY <3>2, <3>3
    <2>. QED BY <2>1, <2>3 DEF Continue, Apply, Unbind, Read, Notify, SetStatus, EndBatch, Answer
  <1>3. Apart'
    BY <1>1, <1>2, ApartStays DEF PromptInv
  <1>4. ASSUME NEW s \in Slots, NEW m \in prompted \cap unread'[s], WillRead(s, m)
        PROVE  WillRead(s, m)'
    <2>0. s \in Tasks
      BY DEF Tasks
    <2>1. CASE s # t
      <3>1. \E q : Then(t, q)
        BY DEF Continue, Apply, Unbind, Read, Notify, StopTurn, SetStatus, EndBatch, Answer, Carried
      <3>2. todo'[s] = todo[s]
        BY <2>0, <2>1, <3>1 DEF Then, SessInv, TodoInv
      <3>. QED BY <1>4, <3>2 DEF WillRead
    <2>2. CASE s = t
      <3>1. PICK A : Has(todo[t], "read", A) /\ m \in A
        BY <1>4, <2>2 DEF WillRead
      <3>2. \E x : \E more \in Seq(S) : Carried(t, x, more) /\ (kind = "read" => x # A)
        <4>1. CASE kind = "read"
          <5>1. PICK x : Read(t, x)
            BY <4>1 DEF Continue
          <5>2. x # A
            BY <1>4, <3>1, <5>1 DEF Read
          <5>. QED BY <1>0, <5>1, <5>2 DEF Read
        <4>2. CASE kind = "end"
          <5>1. PICK x \in args : EndBatch(t, x[1], x[2])
            BY <4>2 DEF Continue
          <5>2. x[1] \in BatchesOf(t)
            BY <1>0, <4>2, HeadFacts, EffectKinds
          <5>3. RunsOf(batches[x[1]].members) \in SUBSET (Runs \cup {NoRun})
            BY <5>2, IntentFacts DEF SessInv, MembersExist, BatchesOf
          <5>4. Publish(RunsOf(batches[x[1]].members)) \in Seq(S)
            BY <5>3, PublishSeq
          <5>. QED BY <1>0, <4>2, <5>1, <5>4 DEF EndBatch
        <4>3. CASE kind \notin {"read", "end"}
          <5>1. \E x : Carried(t, x, <<>>)
            BY <4>3 DEF Continue, Apply, Unbind, Notify, StopTurn, SetStatus, Answer
          <5>. QED BY <1>0, <4>3, <5>1
        <4>. QED BY <4>1, <4>2, <4>3
      <3>3. Has(todo'[t], "read", A)
        BY <1>0, <3>1, <3>2, CarriedKeeps
      <3>. QED BY <2>2, <3>1, <3>3 DEF WillRead
    <2>. QED BY <2>1, <2>2
  <1>5. ASSUME NEW s \in Slots
        PROVE  PromptOK(s)'
    <2>1. PromptOK(s)
      BY DEF PromptInv
    <2>2. Ahead(s)' => loop'[s].seen \cap prompted' = {}
      BY <1>0, <1>2, <2>1 DEF PromptOK, Ahead, SeenOf
    <2>3. ASSUME loop[s].at \in {"prompt", "start", "turn"}
          PROVE  BatchMessages(loop[s].batch)' = BatchMessages(loop[s].batch)
      <3> SUFFICES ASSUME NEW b, b = loop[s].batch
                   PROVE  BatchMessages(b)' = BatchMessages(b)
        BY <1>2, <2>3 DEF BatchMessages
      <3>. QED BY <1>0, <2>3, OwnBatch, BatchMessagesStay
    <2>4. loop'[s].at \in {"prompt", "start", "turn"} =>
            loop'[s].seen \subseteq BatchMessages(loop[s].batch)'
      BY <1>2, <2>1, <2>3 DEF PromptOK, SeenOf
    <2>5. ASSUME NEW m \in prompted' \cap unread'[s]
          PROVE  \/ loop'[s].at = "turn" /\ m \in BatchMessages(loop[s].batch)'
                 \/ WillRead(s, m)'
      <3>1. m \in prompted \cap unread'[s] /\ m \in unread[s]
        BY <1>0, <1>1
      <3>2. \/ loop[s].at = "turn" /\ m \in BatchMessages(loop[s].batch)
            \/ WillRead(s, m)
        BY <2>1, <3>1 DEF PromptOK
      <3>. QED BY <1>2, <1>4, <2>3, <3>1, <3>2
    <2>. QED BY <2>2, <2>4, <2>5 DEF PromptOK
  <1>. QED BY <1>3, <1>5 DEF PromptInv

\* A further step of a call.
LEMMA CallerStepPrompts ==
  ASSUME SessInv, PromptInv, NEW c \in Callers, CallerStep(c)
  PROVE  PromptInv'
  <1>0. c \in Tasks /\ [Next]_vars
    BY CallerStepInv DEF Tasks
  <1>1. CASE EnqueueStep(c) \/ Continue(c)
    BY <1>0, <1>1, EnqueuePrompts, ContinuePrompts
  <1>2. CASE \/ CancelRunWork(c) \/ TellLead(c) \/ TellFails(c) \/ WakeLeader(c) \/ AttachTold(c)
             \/ \E to \in {"Ready", "Failed"} : AttachEnds(c, to)
    <2>1. UNCHANGED <<loop, prompted>> /\ Free(c)
      BY <1>2 DEF CancelRunWork, TellLead, TellFails, WakeLeader, AttachTold, AttachEnds, mailVars
    <2>2. UNCHANGED todo \/ \E q : Then(c, q)
      BY <1>2 DEF CancelRunWork, TellLead, TellFails, WakeLeader, AttachTold, AttachEnds, Constrain
    <2>3. UNCHANGED unread \/ RowWritten
      BY <1>2, SessionAssumption DEF CancelRunWork, TellLead, TellFails, WakeLeader, AttachTold,
         AttachEnds,
         mailVars, RowWritten
    <2>. QED BY <1>0, <2>1, <2>2, <2>3, TaskPrompts
  <1>. QED BY <1>1, <1>2 DEF CallerStep

\* A step of the loop of slot s that prompts nothing, by what it does in slot s.
LEMMA OwnStepPrompts ==
  ASSUME SessInv, PromptInv, [Next]_vars, NEW s \in Slots, UNCHANGED prompted,
         \E q : Goto(s, q), UNCHANGED todo \/ \E q : Then(s, q),
         UNCHANGED unread \/ RowWritten,
         PromptOK(s)', SeenOf(s)' \subseteq unread[s] \cup SeenOf(s)
  PROVE  PromptInv'
  <1>1. ASSUME NEW u \in Slots, u # s
        PROVE  loop'[u] = loop[u] /\ todo'[u] = todo[u]
    BY <1>1 DEF Goto, Then, Tasks, SessInv, LoopInv, TodoInv
  <1>2. \A u \in Slots : SeenOf(u)' \subseteq unread[u] \cup SeenOf(u)
    BY <1>1 DEF SeenOf
  <1>3. Apart'
    BY <1>2, ApartStays DEF PromptInv
  <1>4. ASSUME NEW u \in Slots, u # s
        PROVE  PromptOK(u)'
    BY <1>1, <1>4, UnreadBefore, PromptStays DEF PromptInv
  <1>. QED BY <1>3, <1>4 DEF PromptInv

\* The messages of a turn that ended will be read.
LEMMA SettlePrompts ==
  ASSUME SessInv, NEW s \in Slots, PromptOK(s), Free(s), loop[s].at \in {"start", "turn"},
         UNCHANGED <<vars, unread, prompted>>,
         NEW st \in {"Completed", "Failed"}, NEW args \in SUBSET ({s} \X LaterStatuses),
         Then(s, Settle(loop[s].batch, st) \o Effect("status", args)),
         NEW pc \in {"prepare", "finalize"}, loop'[s] = At(pc)
  PROVE  PromptOK(s)'
  <1>. DEFINE b == loop[s].batch
              S == EffectSet(TrueSummaries, BatchesOf(s))
              A == BatchMessages(b) \ {NoMsg}
              r == MarkRead(BatchMessages(b))
              e == Effect("end", {<<b, st>>})
              x == Effect("status", args)
  <1>1. b \in BatchesOf(s) /\ BatchMessages(b) \in SUBSET MsgOrNone
    BY OwnBatch
  <1>2. {<<b, st>>} \in SUBSET (BatchesOf(s) \X Terminal)
    BY <1>1 DEF Terminal
  <1>3. r \in Seq(S) /\ e \in Seq(S) /\ x \in Seq(S)
    BY <1>1, <1>2, MarkReadSeq, EndSeq, StatusSeq
  <1>4. todo'[s] = (r \o e) \o x
    BY DEF Then, Settle, Tasks, SessInv, TodoInv
  <1>5. loop'[s].at \notin {"reconcile", "next", "prompt", "start", "turn"}
    BY DEF At
  <1>6. ASSUME NEW m \in prompted' \cap unread'[s]
        PROVE  WillRead(s, m)'
    <2>1. m \in prompted \cap unread[s] /\ m \in Messages
      BY DEF SessInv, MailInv
    <2>2. m \in A
      BY <2>1, HasNothing, SlotWorkAssumption DEF PromptOK, WillRead, Free
    <2>3. A \in {A} \ {{}}
      BY <2>2
    <2>4. Has(r, "read", A)
      BY <2>3, HasEffect DEF MarkRead
    <2>. HIDE DEF S, A, r, e, x
    <2>5. Has((r \o e) \o x, "read", A)
      BY <1>3, <2>4, HasConcat3
    <2>. QED BY <1>4, <2>2, <2>5 DEF WillRead
  <1>. QED BY <1>5, <1>6 DEF PromptOK, Ahead

\* A step of an event loop.
LEMMA LoopStepPrompts ==
  ASSUME SessInv, PromptInv, NEW s \in Slots, LoopStep(s)
  PROVE  PromptInv'
  <1>. DEFINE q == loop[s]
  <1>0. s \in Tasks /\ [Next]_vars /\ PromptOK(s) /\ Lead \in Slots
    BY LoopStepInv, SessionAssumption DEF Tasks, PromptInv
  <1>1. CASE EnqueueStep(s) \/ Continue(s)
    BY <1>0, <1>1, EnqueuePrompts, ContinuePrompts
  <1>2. \A p : Goto(s, p) => loop'[s] = p
    BY DEF Goto, SessInv, LoopInv
  <1>3. CASE \/ Wake(s) \/ Prepare(s) \/ PrepareConstraint(s) \/ NoClaim(s) \/ SettleSignals(s)
             \/ ListTasksFails(s) \/ TransportFails(s) \/ StartSkipped(s) \/ MarkIdle(s)
             \/ ReportIdle(s) \/ ReportFails(s) \/ WakeSettledLead(s)
    <2>1. Free(s) /\ q.at # "turn" /\ UNCHANGED prompted
      BY <1>3 DEF Wake, Prepare, PrepareConstraint, NoClaim, SettleSignals, ListTasksFails,
         TransportFails, StartSkipped, GiveBack, MarkIdle, ReportIdle, ReportFails,
         WakeSettledLead, LoopAt,
         mailVars
    <2>2. PICK p : /\ Goto(s, p)
                   /\ p.at \notin {"reconcile", "next", "prompt", "start", "turn"}
      BY <1>3 DEF Wake, Prepare, PrepareConstraint, NoClaim, SettleSignals, ListTasksFails,
         TransportFails, StartSkipped, GiveBack, MarkIdle, ReportIdle, ReportFails,
         WakeSettledLead, At
    <2>3. UNCHANGED todo \/ \E p0 : Then(s, p0)
      BY <1>3 DEF Wake, Prepare, PrepareConstraint, NoClaim, SettleSignals, ListTasksFails,
         TransportFails, StartSkipped, GiveBack, MarkIdle, ReportIdle, ReportFails,
         WakeSettledLead, Constrain
    <2>4. UNCHANGED unread \/ RowWritten
      BY <1>0, <1>3 DEF Wake, Prepare, PrepareConstraint, NoClaim, SettleSignals, ListTasksFails,
         TransportFails, StartSkipped, GiveBack, MarkIdle, ReportIdle, ReportFails,
         WakeSettledLead, mailVars,
         RowWritten
    <2>5. loop'[s] = p
      BY <1>2, <2>2
    <2>6. prompted \cap unread'[s] \subseteq unread[s]
      BY <2>4, UnreadBefore
    <2>7. PromptOK(s)'
      BY <1>0, <2>1, <2>2, <2>5, <2>6, CleanStep
    <2>8. SeenOf(s)' = {}
      BY <2>2, <2>5 DEF SeenOf
    <2>. QED BY <1>0, <2>1, <2>2, <2>3, <2>4, <2>7, <2>8, OwnStepPrompts
  <1>4. CASE Peek(s) \/ Reconcile(s)
    <2>1. /\ UNCHANGED <<prompted, unread, todo>> /\ Free(s)
          /\ q.at \in {"peek", "reconcile"}
      BY <1>4 DEF Peek, Reconcile, LoopAt, mailVars
    <2>2. PICK p : /\ Goto(s, p) /\ p.at \in {"reconcile", "next"}
                   /\ \/ p.seen \subseteq unread[s]
                      \/ q.at = "reconcile" /\ p.seen = q.seen
      BY <1>4 DEF Peek, Reconcile, LoopAt
    <2>3. loop'[s] = p
      BY <1>2, <2>2
    <2>4. p.seen \cap prompted = {}
      BY <1>0, <2>1, <2>2, Clean DEF PromptOK, Ahead
    <2>5. PromptOK(s)'
      BY <1>0, <2>1, <2>2, <2>3, <2>4, CleanStep
    <2>6. SeenOf(s)' \subseteq unread[s] \cup SeenOf(s)
      BY <2>2, <2>3 DEF SeenOf
    <2>. QED BY <1>0, <2>1, <2>2, <2>5, <2>6, OwnStepPrompts
  <1>5. CASE Claim(s)
    <2>1. /\ UNCHANGED <<prompted, unread>> /\ Free(s) /\ q.at = "next"
          /\ \E p0 : Then(s, p0)
      BY <1>5 DEF Claim, LoopAt, mailVars
    <2>2. PICK p : /\ Goto(s, p) /\ p.at = "prompt"
                   /\ p.seen \subseteq q.seen /\ p.seen \subseteq BatchMessages(p.batch)'
      <3>1. Goto(s, [at |-> "prompt", batch |-> lastOp',
                     seen |-> q.seen \cap BatchMessages(lastOp)'])
        BY <1>5 DEF Claim
      <3>. QED BY <3>1 DEF BatchMessages
    <2>3. loop'[s] = p
      BY <1>2, <2>2
    <2>4. p.seen \cap prompted = {}
      BY <1>0, <2>1, <2>2 DEF PromptOK, Ahead
    <2>5. PromptOK(s)'
      BY <1>0, <2>1, <2>2, <2>3, <2>4, CleanStep
    <2>6. SeenOf(s)' \subseteq unread[s] \cup SeenOf(s)
      BY <2>1, <2>2, <2>3 DEF SeenOf
    <2>. QED BY <1>0, <2>1, <2>2, <2>5, <2>6, OwnStepPrompts
  <1>6. CASE Execute(s) \/ StartTurn(s)
    <2>1. /\ UNCHANGED <<prompted, unread>> /\ Free(s) /\ q.at \in {"prompt", "start"}
          /\ UNCHANGED todo \/ \E p0 : Then(s, p0)
      BY <1>6 DEF Execute, StartTurn, LoopAt, mailVars
    <2>2. PICK p : /\ Goto(s, p) /\ p.at \in {"start", "turn"}
                   /\ p.seen = q.seen /\ p.batch = q.batch
      BY <1>6 DEF Execute, StartTurn
    <2>3. loop'[s] = p
      BY <1>2, <2>2
    <2>4. p.seen \cap prompted = {} /\ p.seen \subseteq BatchMessages(p.batch)
      BY <1>0, <2>1, <2>2 DEF PromptOK, Ahead
    <2>5. PICK b : b = p.batch
      OBVIOUS
    <2>6. b \in DOMAIN batches
      BY <2>1, <2>2, <2>5, OwnBatch
    <2>7. BatchMessages(b)' = BatchMessages(b)
      BY <1>0, <2>6, BatchMessagesStay
    <2>8. p.seen \subseteq BatchMessages(p.batch)'
      BY <2>4, <2>5, <2>7
    <2>9. PromptOK(s)'
      BY <1>0, <2>1, <2>2, <2>3, <2>4, <2>8, CleanStep
    <2>10. SeenOf(s)' \subseteq unread[s] \cup SeenOf(s)
      BY <2>1, <2>2, <2>3 DEF SeenOf
    <2>. QED BY <1>0, <2>1, <2>2, <2>9, <2>10, OwnStepPrompts
  <1>7. CASE Launch(s)
    <2>1. /\ UNCHANGED <<vars, unread, todo>> /\ Free(s) /\ q.at = "turn" /\ q.turn = "started"
          /\ prompted' = prompted \cup q.seen /\ Goto(s, [q EXCEPT !.turn = "live"])
      BY <1>7 DEF Launch, LoopAt
    <2>2. q \in TurnLoops(BatchesOf(s), DOMAIN rows)
      BY <2>1, LoopKinds DEF SessInv, LoopInv
    <2>3. /\ loop'[s].at = "turn" /\ loop'[s].turn = "live" /\ loop'[s].seen = q.seen
          /\ loop'[s].batch = q.batch
      BY <1>2, <2>1, <2>2 DEF TurnLoops
    <2>4. BatchMessages(q.batch)' = BatchMessages(q.batch)
      BY <2>1, <2>3 DEF BatchMessages, MessagesOf, vars
    <2>5. PromptOK(s)'
      <3>1. q.seen \subseteq BatchMessages(q.batch)
        BY <1>0, <2>1 DEF PromptOK
      <3>2. \A m \in prompted \cap unread[s] : m \in BatchMessages(q.batch)
        BY <1>0, <2>1, HasNothing DEF PromptOK, WillRead, Free
      <3>. QED BY <2>1, <2>3, <2>4, <3>1, <3>2 DEF PromptOK, Ahead
    <2>6. ASSUME NEW u \in Slots, u # s
          PROVE  PromptOK(u)' /\ SeenOf(u)' = SeenOf(u)
      <3>1. loop'[u] = loop[u]
        BY <2>1, <2>6 DEF Goto, SessInv, LoopInv
      <3>2. PromptOK(u) /\ (unread[u] \cup SeenOf(u)) \cap q.seen = {}
        BY <2>1, <2>6 DEF PromptInv, Apart, SeenOf
      <3>3. Ahead(u)' => loop'[u].seen \cap prompted' = {}
        BY <2>1, <3>1, <3>2 DEF PromptOK, Ahead, SeenOf
      <3>4. BatchMessages(loop[u].batch)' = BatchMessages(loop[u].batch)
        BY <2>1, <3>1 DEF BatchMessages, MessagesOf, vars
      <3>5. \A m : WillRead(u, m)' <=> WillRead(u, m)
        BY <2>1 DEF WillRead
      <3>6. prompted' \cap unread'[u] = prompted \cap unread[u]
        BY <2>1, <3>2
      <3>. QED BY <3>1, <3>2, <3>3, <3>4, <3>5, <3>6 DEF PromptOK, SeenOf
    <2>7. SeenOf(s)' = SeenOf(s)
      BY <2>1, <2>3 DEF SeenOf
    <2>8. Apart'
      BY <2>1, <2>6, <2>7, ApartStays DEF PromptInv
    <2>. QED BY <2>5, <2>6, <2>8 DEF PromptInv
  <1>8. CASE TurnErrs(s) \/ \E st \in {"Completed", "Failed"} : TurnEnds(s, st)
    <2>1. PICK st \in {"Completed", "Failed"}, args \in SUBSET ({s} \X LaterStatuses) :
            Then(s, Settle(loop[s].batch, st) \o Effect("status", args))
      <3>1. CASE TurnErrs(s)
        <4>1. {<<s, "Error">>} \in SUBSET ({s} \X LaterStatuses)
          BY DEF LaterStatuses, Statuses
        <4>. QED BY <3>1, <4>1 DEF TurnErrs
      <3>2. ASSUME NEW st \in {"Completed", "Failed"}, TurnEnds(s, st)
            PROVE  \E args \in SUBSET ({s} \X LaterStatuses) :
                      Then(s, Settle(loop[s].batch, st) \o Effect("status", args))
        <4>1. (IF st = "Failed" THEN {<<s, "Error">>} ELSE {}) \in SUBSET ({s} \X LaterStatuses)
          BY DEF LaterStatuses, Statuses
        <4>. QED BY <3>2, <4>1 DEF TurnEnds
      <3>. QED BY <1>8, <3>1, <3>2
    <2>2. UNCHANGED <<vars, unread, prompted>> /\ Free(s) /\ q.at \in {"start", "turn"}
      BY <1>8 DEF TurnErrs, TurnEnds, LoopAt, mailVars
    <2>3. PICK pc \in {"prepare", "finalize"} : Goto(s, At(pc))
      BY <1>8 DEF TurnErrs, TurnEnds
    <2>4. loop'[s] = At(pc)
      BY <1>2, <2>3
    <2>5. PromptOK(s)'
      BY <1>0, <2>1, <2>2, <2>4, SettlePrompts
    <2>6. SeenOf(s)' = {}
      BY <2>4 DEF SeenOf, At
    <2>. QED BY <1>0, <2>1, <2>2, <2>3, <2>5, <2>6, OwnStepPrompts
  <1>. QED
    BY <1>1, <1>3, <1>4, <1>5, <1>6, <1>7, <1>8 DEF LoopStep

\* No launch hands an agent a message of an earlier launch (run_agent_turn), although batches are
\* given back, cancelled and queued again, and although a message that was
\* recovered may also have a committed intent: a turn's messages are marked read
\* before its loop peeks again, and no other loop peeks at them.
THEOREM NothingIsPromptedTwice == SessionSpec => PromptedOnce
  <1>1. SessionInit => PromptInv
    BY DEF SessionInit, PromptInv, Apart, PromptOK, Ahead, SeenOf, At
  <1>2. SessInv /\ PromptInv /\ [SessionNext]_sessionVars => PromptInv'
    <2> SUFFICES ASSUME SessInv, PromptInv, [SessionNext]_sessionVars
                 PROVE  PromptInv'
      OBVIOUS
    <2>1. CASE UNCHANGED sessionVars
      BY <2>1 DEF sessionVars, taskVars, mailVars, vars, PromptInv, Apart, PromptOK, Ahead, SeenOf,
         WillRead, BatchMessages, MessagesOf
    <2>2. CASE SessionNext
      BY <2>2, CallerBeginsPrompts, CallerStepPrompts, LoopStepPrompts DEF SessionNext
    <2>. QED BY <2>1, <2>2
  <1>3. PromptInv /\ [SessionNext]_sessionVars =>
          [\A s \in Slots : Launches(s) => loop[s].seen \cap prompted = {}]_sessionVars
    BY DEF PromptInv, PromptOK, Ahead, Launches
  <1>. QED BY <1>1, <1>2, <1>3, SessionSpecInv, PTL DEF SessionSpec, PromptedOnce

-----------------------------------------------------------------------------
(* No wake-up is lost: what a message that is unread still has coming       *)

\* Some task has that effect pending.
Pending(kind, x) == \E t \in Tasks : Has(todo[t], kind, x)

\* Call q is about to tell the coordinator, and then the loop, that slot s is ready.
Opens(q, s) == q.at \in {"constrain", "again"} /\ q.slot = s /\ q.to = "Ready"

Opening(s) == \E t \in Tasks : Opens(call[t], s)

\* The loop of slot s will be woken.
Called(s) == signal[s] \/ Pending("notify", s) \/ Opening(s)

QueuedIn(s, m) ==
    \E i \in DOMAIN intents : /\ intents[i].slot = s
                              /\ intents[i].msg = m
                              /\ intents[i].state = "Queued"

\* The loop of slot s is going to peek before it waits again.
Awake(s) == loop[s].at \notin {"wait", "reconcile", "next"}

\* The loop of slot s does not wait before it has dealt with m.
Sees(s, m) == \/ Awake(s)
              \/ loop[s].at = "reconcile" /\ m \in loop[s].seen
              \/ loop[s].at = "next" /\ QueuedIn(s, m)

\* Call q is going to enqueue row m for slot s.
Brings(q, s, m) ==
    \/ q.at = "commit" /\ q.lease.slot = s /\ q.msg = m
    \/ q.at \in {"publish", "acquire"} /\ q.slot = s /\ q.msg = m
    \/ q.at = "told" /\ s = Lead /\ q.row = m

Brought(s, m) == \E t \in Tasks : Brings(call[t], s, m)

ToRead(m) == \E A : Pending("read", A) /\ m \in A

\* Somebody still deals with message m of slot s, or the slot is not open.
Hope(s, m) == ~SlotOpen(s) \/ Called(s) \/ Sees(s, m) \/ Brought(s, m) \/ ToRead(m)

\* Call q is the signal that the team has settled.
Settles(q) ==
    \/ q.at \in {"publish", "acquire"} /\ q.source = "IdleNotification" /\ q.slot = Lead
    \/ q.at = "commit" /\ q.lease.source = "IdleNotification" /\ q.lease.slot = Lead

Settling == \E t \in Tasks : Settles(call[t])

\* The team has not settled, or the lead is about to be told that it has, or
\* somebody could not tell it.
Duty == \/ \E g \in Slots : status[g] # "Idle" \/ loop[g].at \in {"report", "settled"}
        \/ Settling
        \/ untold # {}

\* Every unread message that its loop is shown has hope; the idle reports of the
\* lead may rely on Duty.
Watched ==
    \A s \in Slots : \A m \in unread[s] : Shown(m, s) =>
        (Hope(s, m) \/ (rows[m].kind = "idle" /\ (s = Lead => Duty)))

\* The slot of the lead accepts every enqueue.
CallFits(q) ==
    /\ q.at = "publish" /\ q.slot = Lead => q.saw = "Ready"
    /\ q.at \in {"constrain", "attaching", "again"} => q.slot # Lead
    /\ q.at \in {"publish", "acquire"} /\ q.msg # NoMsg => q.slot = Lead
    /\ q.at = "told" => q.row \in DOMAIN rows /\ rows[q.row].from = q.from

LeadReady ==
    /\ runtime[Lead] = "Ready"
    /\ constraint[Lead] \in {"Ready", "Starting"}
    /\ ~removed[Lead]
    /\ \A t \in Tasks : CallFits(call[t])
    /\ loop[Lead].at = "constrain" => loop[Lead].saw = "Ready"

\* A loop serves a call only before it prepares, and has nothing pending when it
\* looks for work.
Quiet ==
    \A s \in Slots : /\ loop[s].at # "prepare" => call[s] = Idle
                     /\ loop[s].at \in {"reconcile", "next"} => todo[s] = <<>>

\* A loop that looks for work finds the slot of a ready runtime open, unless a
\* stale constraint has closed it or a call is about to open it.
SteadySlot(s) ==
    loop[s].at \in {"peek", "reconcile", "next"} =>
        /\ s \in slots
        /\ runtime[s] = "Ready" => constraint[s] = "Ready" \/ s \in deaf \/ Opening(s)

Steady == \A s \in Slots : SteadySlot(s)

WatchInv == LeadReady /\ Quiet /\ Steady /\ Watched

-----------------------------------------------------------------------------
(* What a step of one task leaves to the others                             *)

\* Task t had nothing pending, and only its own call and effects change.
Moves(t) ==
    /\ Free(t)
    /\ UNCHANGED todo \/ \E q : Then(t, q)
    /\ UNCHANGED call \/ \E q : call' = [call EXCEPT ![t] = q]

\* A task disturbs no other task.
LEMMA MovesOnlyItsOwn ==
  ASSUME SessInv, NEW t \in Tasks, Moves(t), NEW u \in Tasks, u # t
  PROVE  call'[u] = call[u] /\ todo'[u] = todo[u]
  BY DEF Moves, Then, SessInv, CallInv, TodoInv

\* What was pending still is: it was pending for others.
LEMMA MovesKeepPending ==
  ASSUME SessInv, NEW t \in Tasks, Moves(t), NEW kind, NEW x, Pending(kind, x)
  PROVE  Pending(kind, x)'
  <1>1. PICK u \in Tasks : Has(todo[u], kind, x)
    BY DEF Pending
  <1>2. u # t
    BY <1>1, HasNothing DEF Moves, Free
  <1>3. todo'[u] = todo[u]
    BY <1>2, MovesOnlyItsOwn
  <1>. QED BY <1>1, <1>3 DEF Pending

\* The effects task t has got are pending.
LEMMA ThenPending ==
  ASSUME SessInv, NEW t \in Tasks, NEW q, Then(t, q), NEW kind, NEW x, Has(q, kind, x)
  PROVE  Pending(kind, x)'
  <1>1. todo'[t] = q
    BY DEF Then, SessInv, TodoInv
  <1>. QED BY <1>1 DEF Pending

\* A message marked read.
LEMMA MarkReadHas ==
  ASSUME NEW msgs, NEW m \in msgs, m # NoMsg
  PROVE  Has(MarkRead(msgs), "read", msgs \ {NoMsg}) /\ m \in msgs \ {NoMsg}
  <1>1. msgs \ {NoMsg} \in {msgs \ {NoMsg}} \ {{}}
    OBVIOUS
  <1>. QED BY <1>1, HasEffect DEF MarkRead

\* Unread messages are messages.
LEMMA UnreadMessage ==
  ASSUME SessInv, NEW s \in Slots, NEW m \in unread[s]
  PROVE  m \in Messages /\ m # NoMsg /\ m \in DOMAIN rows
  BY SlotWorkAssumption DEF SessInv, MailInv

\* Hope is kept if each of its grounds is.
LEMMA HopeStays ==
  ASSUME NEW s, NEW m, Hope(s, m),
         SlotOpen(s)' => SlotOpen(s) \/ Called(s)' \/ Awake(s)',
         Called(s) => Called(s)' \/ Awake(s)',
         Sees(s, m) => Hope(s, m)',
         Brought(s, m) => Hope(s, m)',
         ToRead(m) => ToRead(m)'
  PROVE  Hope(s, m)'
  BY DEF Hope, Sees

\* A step of task t that does not move the loop of slot s.
LEMMA TaskHope ==
  ASSUME SessInv, NEW t \in Tasks, Moves(t), NEW s \in Slots, NEW m, Hope(s, m),
         loop'[s] = loop[s], signal'[s] = signal[s],
         SlotOpen(s)' => SlotOpen(s) \/ Called(s)',
         Opens(call[t], s) => Called(s)',
         Brings(call[t], s, m) => Hope(s, m)',
         QueuedIn(s, m) => QueuedIn(s, m)' \/ ToRead(m)'
  PROVE  Hope(s, m)'
  <1>1. \A u \in Tasks : u = t \/ call'[u] = call[u]
    BY MovesOnlyItsOwn
  <1>2. Opening(s) => Called(s)'
    BY <1>1 DEF Opening, Called
  <1>3. Called(s) => Called(s)'
    BY <1>2, MovesKeepPending DEF Called
  <1>4. Brought(s, m) => Hope(s, m)'
    BY <1>1 DEF Brought, Hope
  <1>5. ToRead(m) => ToRead(m)'
    BY MovesKeepPending DEF ToRead
  <1>6. Sees(s, m) => Hope(s, m)'
    BY DEF Sees, Awake, Hope
  <1>. QED BY <1>3, <1>4, <1>5, <1>6, HopeStays

\* Every unread message is watched after a step, if it is new and hopeful, new
\* and an idle report, old and still hopeful, or not shown.
LEMMA WatchedStays ==
  ASSUME Watched,
         \A s \in Slots : \A m \in unread'[s] :
            \/ Hope(s, m)'
            \/ rows'[m].kind = "idle" /\ Duty'
            \/ m \in unread[s] /\ rows'[m] = rows[m] /\ (Shown(m, s) => ~Hope(s, m)),
         Duty => Duty' \/ \A m \in unread'[Lead] : (Shown(m, Lead))' => Hope(Lead, m)'
  PROVE  Watched'
  BY DEF Watched, Shown

\* Rows stay as they are.
LEMMA RowsStay ==
  ASSUME SessInv, UNCHANGED rows \/ \E s, from, kind : WriteRow(s, from, kind), NEW m \in DOMAIN rows
  PROVE  m \in DOMAIN rows' /\ rows'[m] = rows[m]
  <1>1. CASE UNCHANGED rows
    BY <1>1
  <1>2. CASE \E s, from, kind : WriteRow(s, from, kind)
    <2>1. PICK row : rows' = Append(rows, row)
      BY <1>2 DEF WriteRow
    <2>2. rows \in Seq([from : Slots \cup {"user"}, kind : {"message", "idle"}])
      BY DEF SessInv, MailInv
    <2>. QED BY <2>1, <2>2
  <1>. QED BY <1>1, <1>2

-----------------------------------------------------------------------------
(* Queued messages stay queued, or are about to be read                     *)

\* Telling the coordinator about a runtime that failed ends the work of runs, and
\* marks its messages read.
LEMMA ConstrainQueued ==
  ASSUME SessInv, NEW t \in Tasks, NEW x \in Slots, NEW c \in Runtimes,
         NEW rest \in Seq(EffectSet(TrueSummaries', BatchesOf(t)')), Constrain(t, x, c, rest),
         NEW s \in Slots, NEW m \in Messages, QueuedIn(s, m)
  PROVE  QueuedIn(s, m)' \/ ToRead(m)'
  <1>. DEFINE ended == {i \in LiveOf(x) : c = "Failed" /\ intents[i].run # NoRun}
              S == EffectSet(TrueSummaries', BatchesOf(t)')
              p == Publish(RunsOf(ended))
              r == MarkRead(MessagesOf(ended))
  <1>1. PICK i \in DOMAIN intents : /\ intents[i].slot = s
                                    /\ intents[i].msg = m
                                    /\ intents[i].state = "Queued"
    BY DEF QueuedIn
  <1>2. CASE i \in ended
    <2>1. ended \in SUBSET DOMAIN intents
      BY DEF LiveOf
    <2>2. p \in Seq(S) /\ r \in Seq(S)
      BY <2>1, IntentFacts, PublishSeq, MarkReadSeq DEF SessInv
    <2>3. m \in MessagesOf(ended) /\ m # NoMsg
      BY <1>1, <1>2, SlotWorkAssumption DEF MessagesOf
    <2>4. PICK A : Has(r, "read", A) /\ m \in A
      BY <2>3, MarkReadHas
    <2>5. Then(t, (p \o r) \o rest)
      BY DEF Constrain
    <2>. HIDE DEF ended, S, p, r
    <2>6. Has((p \o r) \o rest, "read", A)
      BY <2>2, <2>4, HasConcat3 DEF S
    <2>7. Pending("read", A)'
      BY <2>5, <2>6, ThenPending
    <2>. QED BY <2>4, <2>7 DEF ToRead
  <1>3. CASE i \notin ended
    <2>1. i \in DOMAIN intents' /\ intents'[i].slot = s /\ intents'[i].msg = m
          /\ intents'[i].state = "Queued"
      BY <1>1, <1>3 DEF Constrain, SetRuntimeConstraint, LiveOf, Live, InState, Runtimes, Terminal
    <2>. QED BY <2>1 DEF QueuedIn
  <1>. QED BY <1>2, <1>3

\* A cancelled run marks the messages of its work read.
LEMMA CancelQueued ==
  ASSUME SessInv, NEW c \in Callers, CancelRunWork(c), NEW s \in Slots, NEW m \in Messages,
         QueuedIn(s, m)
  PROVE  QueuedIn(s, m)' \/ ToRead(m)'
  <1>. DEFINE r == call[c].run
              live == {i \in OfRun(r) : Live(i)}
              S == EffectSet(TrueSummaries', BatchesOf(c)')
              stop == {active[u] : u \in {v \in SlotsRunning(r) : turn[v]}}
              p == Publish({r})
              d == MarkRead(MessagesOf(live))
              e == Effect("stop", stop)
  <1>0. c \in Tasks /\ CancelRun(r)
    BY DEF CancelRunWork, Tasks
  <1>1. PICK i \in DOMAIN intents : /\ intents[i].slot = s
                                    /\ intents[i].msg = m
                                    /\ intents[i].state = "Queued"
    BY DEF QueuedIn
  <1>2. CASE i \in OfRun(r)
    <2>1. r \in Runs
      BY CallKinds DEF CancelRunWork, SessInv, CallInv, CancelCalls, Tasks
    <2>2. live \in SUBSET DOMAIN intents
      BY DEF OfRun
    <2>3. p \in Seq(S) /\ d \in Seq(S)
      BY <2>1, <2>2, IntentFacts, PublishSeq, MarkReadSeq DEF SessInv
    <2>4. e \in Seq(S)
      <3>1. stop \subseteq 0..MaxOps
        BY DEF SlotsRunning, SessInv, IInv, TypeOK
      <3>2. <<"stop", stop>> \in S
        BY <3>1, EffectIntro
      <3>. QED BY <3>2, EffectSeq
    <2>5. m \in MessagesOf(live) /\ m # NoMsg
      BY <1>1, <1>2, SlotWorkAssumption DEF MessagesOf, Live, Terminal
    <2>6. Then(c, (p \o d) \o e)
      BY DEF CancelRunWork
    <2>. HIDE DEF r, live, S, stop, p, e
    <2>7. PICK A : Has(d, "read", A) /\ m \in A
      BY <2>5, MarkReadHas
    <2>. HIDE DEF d
    <2>8. Has((p \o d) \o e, "read", A)
      BY <2>3, <2>4, <2>7, HasConcat3
    <2>9. Pending("read", A)'
      BY <1>0, <2>6, <2>8, ThenPending
    <2>. QED BY <2>7, <2>9 DEF ToRead
  <1>3. CASE i \notin OfRun(r)
    <2>1. i \in DOMAIN intents' /\ intents'[i].slot = s /\ intents'[i].msg = m
          /\ intents'[i].state = "Queued"
      BY <1>0, <1>1, <1>3 DEF CancelRun, InState
    <2>. QED BY <2>1 DEF QueuedIn
  <1>. QED BY <1>2, <1>3

\* Intents that stay.
LEMMA SameQueued ==
  ASSUME NEW s, NEW m, QueuedIn(s, m),
         \A i \in DOMAIN intents : intents[i].state = "Queued" /\ intents[i].slot = s /\ intents[i].msg = m =>
            /\ i \in DOMAIN intents'
            /\ intents'[i].slot = s /\ intents'[i].msg = m /\ intents'[i].state = "Queued"
  PROVE  QueuedIn(s, m)'
  BY DEF QueuedIn

\* A commit adds work and removes none.
LEMMA CommitQueued ==
  ASSUME NEW l, NEW n, CommitEnqueue(l, n), NEW s, NEW m, QueuedIn(s, m)
  PROVE  QueuedIn(s, m)'
  <1>1. PICK i \in Ids : /\ Fresh({i})
          /\ intents' = [j \in DOMAIN intents \cup {i} |->
               IF j = i THEN [slot |-> l.slot, source |-> l.source, msg |-> n,
                              run |-> l.run, state |-> "Queued", batch |-> 0]
               ELSE intents[j]]
    BY DEF CommitEnqueue
  <1>. QED BY <1>1, SameQueued DEF Fresh

\* A batch that starts or ends holds nothing that is queued.
LEMMA BatchQueued ==
  ASSUME SessInv, NEW b \in DOMAIN batches, IsCurrent(b), NEW st, NEW k,
         intents' = Moved(batches[b].members, st, k), NEW s, NEW m, QueuedIn(s, m)
  PROVE  QueuedIn(s, m)'
  <1>1. b \in 1..MaxOps /\ batches[b].slot \in Slots
    BY BatchFacts DEF SessInv, Batch
  <1>2. \A i \in batches[b].members : BusyIn(i, batches[b].slot)
    BY <1>1 DEF IsCurrent, SessInv, IInv, ActiveBatchOwnsRunningWork, OwnsItsWork, MembersExist
  <1>3. \A i \in batches[b].members : intents[i].state # "Queued"
    BY <1>2 DEF BusyIn
  <1>. QED BY <1>3, SameQueued DEF Moved

\* Other slots reconcile, claim and settle without touching this one.
LEMMA OtherReconciles ==
  ASSUME SessInv, NEW x \in Slots, NEW U, ReconcileMailbox(x, U),
         NEW s \in Slots, s # x, NEW m, QueuedIn(s, m)
  PROVE  QueuedIn(s, m)'
  <1>. DEFINE stale == StaleQueued(x, U)
              fresh == Unowned(x, U)
  <1>1. PICK id \in [fresh -> Ids] :
          LET new == {id[n] : n \in fresh} IN
          /\ Fresh(new)
          /\ intents' = [j \in DOMAIN intents \cup new |->
               IF j \in new
               THEN [slot |-> x, source |-> "RecoveryDrain",
                     msg |-> CHOOSE n \in fresh : id[n] = j,
                     run |-> NoRun, state |-> "Queued", batch |-> 0]
               ELSE IF j \in stale THEN InState(intents[j], "Completed", 0)
               ELSE intents[j]]
    BY DEF ReconcileMailbox
  <1>2. \A i \in stale : intents[i].slot = x
    BY DEF StaleQueued, SessInv, IInv, QueuesMatchIntents
  <1>. HIDE DEF stale, fresh
  <1>. QED BY <1>1, <1>2, SameQueued DEF Fresh

\* A claim takes the work of its own slot only.
LEMMA OtherClaims ==
  ASSUME SessInv, NEW x \in Slots, ClaimNext(x), NEW s \in Slots, s # x, NEW m, QueuedIn(s, m)
  PROVE  QueuedIn(s, m)'
  <1>1. PICK p \in Priorities : intents' = Moved(MessageIntents(x, p), "Starting", lastOp')
    BY DEF ClaimNext
  <1>2. \A i \in MessageIntents(x, p) : i \in DOMAIN intents /\ intents[i].slot = x
    BY DEF MessageIntents, SessInv, IInv, QueuesMatchIntents
  <1>. QED BY <1>1, <1>2, SameQueued DEF Moved

\* Settling signals leaves messages queued.
LEMMA SignalsQueued ==
  ASSUME NEW x, NEW S, CompleteSignals(x, S), NEW s, NEW m, m # NoMsg, QueuedIn(s, m)
  PROVE  QueuedIn(s, m)'
  BY SameQueued DEF CompleteSignals, QueuedSignals, Moved

\* The peeked messages of a slot without a batch are queued after it reconciled.
LEMMA ReconcileQueues ==
  ASSUME SessInv, NEW s \in Slots, active[s] = 0, NEW U, ReconcileMailbox(s, U),
         NEW m \in U
  PROVE  QueuedIn(s, m)'
  <1>. DEFINE stale == StaleQueued(s, U)
              fresh == Unowned(s, U)
  <1>1. PICK id \in [fresh -> Ids] :
          LET new == {id[n] : n \in fresh} IN
          /\ \A n, k \in fresh : id[n] = id[k] => n = k
          /\ Fresh(new)
          /\ intents' = [j \in DOMAIN intents \cup new |->
               IF j \in new
               THEN [slot |-> s, source |-> "RecoveryDrain",
                     msg |-> CHOOSE n \in fresh : id[n] = j,
                     run |-> NoRun, state |-> "Queued", batch |-> 0]
               ELSE IF j \in stale THEN InState(intents[j], "Completed", 0)
               ELSE intents[j]]
    BY DEF ReconcileMailbox
  <1>2. CASE m \in fresh
    <2>. HIDE DEF stale, fresh
    <2>1. (CHOOSE n \in fresh : id[n] = id[m]) = m
      BY <1>1, <1>2
    <2>2. /\ id[m] \in DOMAIN intents' /\ intents'[id[m]].slot = s
          /\ intents'[id[m]].msg = m /\ intents'[id[m]].state = "Queued"
      BY <1>1, <1>2, <2>1
    <2>. QED BY <2>2 DEF QueuedIn
  <1>3. CASE m \notin fresh
    <2>1. PICK i \in LiveOf(s) : intents[i].msg = m
      BY <1>3 DEF Unowned
    <2>2. i \in DOMAIN intents /\ intents[i].slot = s /\ intents[i].state = "Queued"
      BY <2>1 DEF LiveOf, Live, Terminal, SessInv, IInv, TypeOK, Intent, IntentState,
         ActiveBatchOwnsRunningWork, OwnsItsWork, BusyIn
    <2>3. i \notin stale
      BY <2>1 DEF StaleQueued
    <2>. HIDE DEF stale, fresh
    <2>4. i \in DOMAIN intents' /\ intents'[i] = intents[i]
      BY <1>1, <2>2, <2>3 DEF Fresh
    <2>. QED BY <2>1, <2>2, <2>4 DEF QueuedIn
  <1>. QED BY <1>2, <1>3

\* A slot that may claim has something to claim or to settle if a message is queued.
LEMMA QueuedIsSelected ==
  ASSUME SessInv, NEW s \in Slots, MayClaim(s), NEW m, QueuedIn(s, m), SignalsToSettle(s) = {}
  PROVE  \E p \in Priorities : Selected(s, p)
  <1>1. PICK i \in DOMAIN intents : intents[i].slot = s /\ intents[i].state = "Queued"
    BY DEF QueuedIn
  <1>2. intents[i].source \in WorkSource
    BY DEF SessInv, IInv, TypeOK, Intent
  <1>3. Priority(intents[i].source) \in Priorities
    BY DEF Priority, Priorities
  <1>4. i \in queue[s][Priority(intents[i].source)]
    BY <1>1, <1>3 DEF SessInv, IInv, QueuesMatchIntents
  <1>5. \/ queue[s]["Foreground"] # {} \/ queue[s]["Control"] # {} \/ queue[s]["Background"] # {}
    BY <1>3, <1>4 DEF Priorities
  <1>. QED BY <1>5 DEF Selected, Priorities

-----------------------------------------------------------------------------
(* The steps, by what they move                                             *)

\* A step of a call by task t.
Serves(t) ==
    \/ EnqueueStep(t)
    \/ /\ t \in Callers
       /\ \/ CallerBegins(t) \/ CancelRunWork(t) \/ TellLead(t) \/ TellFails(t)
          \/ WakeLeader(t) \/ AttachTold(t)
          \/ \E to \in {"Ready", "Failed"} : AttachEnds(t, to)

\* A step of the loop of slot s itself.
Drains(s) ==
    \/ Wake(s) \/ Prepare(s) \/ PrepareConstraint(s) \/ Peek(s) \/ Reconcile(s)
    \/ Claim(s) \/ NoClaim(s) \/ SettleSignals(s) \/ ListTasksFails(s) \/ TransportFails(s)
    \/ Execute(s) \/ StartSkipped(s) \/ StartTurn(s) \/ Launch(s) \/ TurnErrs(s)
    \/ \E st \in {"Completed", "Failed"} : TurnEnds(s, st)
    \/ MarkIdle(s) \/ ReportIdle(s) \/ ReportFails(s)
    \/ WakeSettledLead(s)

\* Every step serves a call, drains a loop or carries out an effect.
LEMMA StepKinds ==
  ASSUME SessionNext
  PROVE  \/ \E t \in Tasks : Serves(t) \/ Continue(t)
         \/ \E s \in Slots : Drains(s)
  BY DEF SessionNext, CallerStep, LoopStep, Serves, Drains, Tasks

\* A step of a call keeps the invariant.
LEMMA ServesNext ==
  ASSUME SessInv, NEW t \in Tasks, Serves(t)
  PROVE  [Next]_vars /\ SessInv'
  BY EnqueueInv, CallerBeginsInv, CallerStepInv DEF Serves, CallerStep

\* A step of a loop keeps the invariant.
LEMMA DrainsNext ==
  ASSUME SessInv, NEW s \in Slots, Drains(s)
  PROVE  s \in Tasks /\ [Next]_vars /\ SessInv'
  BY LoopStepInv DEF Drains, LoopStep, Tasks

\* A step of a call moves no loop.
LEMMA ServesMoves ==
  ASSUME SessInv, NEW t \in Tasks, Serves(t)
  PROVE  Moves(t) /\ UNCHANGED <<loop, signal, status>>
  <1>1. CASE WriteMessage(t)
    <2>1. call' = [call EXCEPT ![t] = [call[t] EXCEPT !.at = "commit", !.msg = Len(rows')]]
      BY <1>1 DEF WriteMessage
    <2>. QED BY <1>1, <2>1 DEF WriteMessage, Moves, memberVars
  <1>2. CASE \E s \in Slots : UserMessage(t, s)
    BY <1>2 DEF UserMessage, Request, Moves, memberVars
  <1>3. CASE \E f, s \in Slots : AgentMessage(t, f, s)
    BY <1>3 DEF AgentMessage, Request, Moves, memberVars
  <1>4. CASE CancelRunBegin(t)
    BY <1>4 DEF CancelRunBegin, Moves, memberVars
  <1>5. CASE \E s \in Slots : CancelChildTurn(t, s) \/ PauseSlotWork(t, s)
    BY <1>5 DEF CancelChildTurn, PauseSlotWork, Interrupt, Moves, memberVars
  <1>6. CASE \E s \in Slots : AttachBegin(t, s)
    BY <1>6 DEF AttachBegin, Attach, Moves
  <1>7. CASE PublishConstraint(t) \/ AttachTold(t)
    BY <1>7 DEF PublishConstraint, AttachTold, Attach, Constrain, Moves
  <1>8. CASE Acquire(t) \/ WriteFails(t) \/ Commit(t)
    BY <1>8 DEF Acquire, WriteFails, Commit, Abort, Moves, memberVars
  <1>9. CASE CancelRunWork(t) \/ TellLead(t) \/ TellFails(t) \/ WakeLeader(t)
    BY <1>9 DEF CancelRunWork, TellLead, TellFails, WakeLeader, Request, Moves, memberVars
  <1>10. CASE \E to \in {"Ready", "Failed"} : AttachEnds(t, to)
    BY <1>10 DEF AttachEnds, Attach, Moves
  <1>. QED
    BY <1>1, <1>2, <1>3, <1>4, <1>5, <1>6, <1>7, <1>8, <1>9, <1>10
    DEF Serves, EnqueueStep, CallerBegins

\* A step of a loop moves no other loop, and serves no call.
LEMMA DrainsMoves ==
  ASSUME SessInv, NEW s \in Slots, Drains(s)
  PROVE  /\ Moves(s) /\ call[s] = Idle
         /\ \E q : Goto(s, q)
         /\ \A u \in Slots : u # s => loop'[u] = loop[u]
         /\ UNCHANGED runtime
  <1>1. Free(s) /\ call[s] = Idle /\ (\E q : Goto(s, q)) /\ UNCHANGED runtime
    <2>1. CASE Wake(s) \/ Prepare(s) \/ PrepareConstraint(s) \/ Peek(s) \/ Reconcile(s)
      BY <2>1 DEF Wake, Prepare, PrepareConstraint, Peek, Reconcile, LoopAt, memberVars
    <2>2. CASE Claim(s) \/ NoClaim(s) \/ SettleSignals(s) \/ ListTasksFails(s) \/ TransportFails(s)
      BY <2>2 DEF Claim, NoClaim, SettleSignals, ListTasksFails, GiveBack, TransportFails, LoopAt,
         memberVars
    <2>3. CASE Execute(s) \/ StartSkipped(s) \/ StartTurn(s) \/ Launch(s) \/ TurnErrs(s)
      BY <2>3 DEF Execute, StartSkipped, GiveBack, StartTurn, Launch, TurnErrs, LoopAt, memberVars
    <2>4. CASE \/ \E st \in {"Completed", "Failed"} : TurnEnds(s, st)
               \/ MarkIdle(s) \/ ReportIdle(s) \/ ReportFails(s)
               \/ WakeSettledLead(s)
      BY <2>4 DEF TurnEnds, MarkIdle, ReportIdle, ReportFails, WakeSettledLead, LoopAt, memberVars
    <2>. QED BY <2>1, <2>2, <2>3, <2>4 DEF Drains
  <1>2. UNCHANGED todo \/ \E q : Then(s, q)
    <2>1. CASE Wake(s) \/ Prepare(s) \/ PrepareConstraint(s) \/ Peek(s) \/ Reconcile(s)
      BY <2>1 DEF Wake, Prepare, PrepareConstraint, Constrain, Peek, Reconcile
    <2>2. CASE Claim(s) \/ NoClaim(s) \/ SettleSignals(s) \/ ListTasksFails(s) \/ TransportFails(s)
      BY <2>2 DEF Claim, NoClaim, SettleSignals, ListTasksFails, GiveBack, TransportFails
    <2>3. CASE Execute(s) \/ StartSkipped(s) \/ StartTurn(s) \/ Launch(s) \/ TurnErrs(s)
      BY <2>3 DEF Execute, StartSkipped, GiveBack, StartTurn, Launch, TurnErrs
    <2>4. CASE \/ \E st \in {"Completed", "Failed"} : TurnEnds(s, st)
               \/ MarkIdle(s) \/ ReportIdle(s) \/ ReportFails(s)
               \/ WakeSettledLead(s)
      BY <2>4 DEF TurnEnds, MarkIdle, ReportIdle, ReportFails, WakeSettledLead
    <2>. QED BY <2>1, <2>2, <2>3, <2>4 DEF Drains
  <1>3. UNCHANGED call \/ \E q : call' = [call EXCEPT ![s] = q]
    BY DEF Drains, Wake, Prepare, PrepareConstraint, Peek, Reconcile, Claim, NoClaim, SettleSignals,
       ListTasksFails, TransportFails, GiveBack, Execute, StartSkipped, StartTurn, Launch, TurnErrs,
       TurnEnds, MarkIdle, ReportIdle, ReportFails, WakeSettledLead, Request
  <1>4. \A u \in Slots : u # s => loop'[u] = loop[u]
    BY <1>1 DEF Goto, SessInv, LoopInv
  <1>. QED BY <1>1, <1>2, <1>3, <1>4 DEF Moves

\* Carrying out an effect moves no loop, except that it may stop a turn.
LEMMA ContinueMoves ==
  ASSUME SessInv, NEW t \in Tasks, Continue(t)
  PROVE  /\ todo[t] # <<>>
         /\ UNCHANGED <<call, rows, untold, runtime, deaf>>
         /\ UNCHANGED <<slots, paused, constraint, removed>>
         /\ \A u \in Tasks : u # t => todo'[u] = todo[u]
         /\ \A s \in Slots : \/ loop'[s] = loop[s]
                             \/ loop[s].at = "turn" /\ loop'[s].at = "turn"
  <1>1. /\ todo[t] # <<>>
        /\ UNCHANGED <<call, rows, untold, runtime, deaf>>
    BY DEF Continue, Apply, Unbind, Read, Notify, StopTurn, SetStatus, EndBatch, Answer,
       mailVars, memberVars
  <1>2. UNCHANGED <<slots, paused, constraint, removed>>
    BY DEF Continue, Apply, Unbind, Read, Notify, StopTurn, SetStatus, EndBatch, TerminalizeBatch,
       Answer, vars
  <1>3. \E q : Then(t, q)
    BY DEF Continue, Apply, Unbind, Read, Notify, StopTurn, SetStatus, EndBatch, Answer, Carried
  <1>4. \A u \in Tasks : u # t => todo'[u] = todo[u]
    BY <1>3 DEF Then, SessInv, TodoInv
  <1>5. ASSUME NEW s \in Slots
        PROVE  loop'[s] = loop[s] \/ (loop[s].at = "turn" /\ loop'[s].at = "turn")
    <2>1. CASE UNCHANGED loop
      BY <2>1
    <2>2. CASE \E x : StopTurn(t, x)
      <3>1. PICK u : \/ loop' = loop
                     \/ loop[u].at = "turn" /\ loop' = [loop EXCEPT ![u].turn = Stopped(@)]
        BY <2>2 DEF StopTurn
      <3>2. CASE u # s \/ loop' = loop
        BY <3>1, <3>2 DEF SessInv, LoopInv
      <3>3. CASE u = s /\ loop' # loop
        <4>1. loop[s] \in TurnLoops(BatchesOf(s), DOMAIN rows)
          BY <3>1, <3>3, LoopKinds DEF SessInv, LoopInv
        <4>2. loop'[s] = [loop[s] EXCEPT !.turn = Stopped(@)]
          BY <3>1, <3>3 DEF SessInv, LoopInv
        <4>. QED BY <4>1, <4>2 DEF TurnLoops
      <3>. QED BY <3>2, <3>3
    <2>. QED BY <2>1, <2>2 DEF Continue, Apply, Unbind, Read, Notify, SetStatus, EndBatch, Answer
  <1>. QED BY <1>1, <1>2, <1>4, <1>5

-----------------------------------------------------------------------------
(* The slot of the lead is ready; loops are quiet and steady                *)

\* A step of task t keeps the lead ready if it tells nothing else about its slot.
LEMMA LeadStays ==
  ASSUME SessInv, LeadReady, NEW t \in Tasks,
         \A u \in Tasks : u # t => call'[u] = call[u],
         UNCHANGED rows \/ \E s, from, kind : WriteRow(s, from, kind),
         runtime'[Lead] = "Ready", constraint'[Lead] \in {"Ready", "Starting"}, ~removed'[Lead],
         CallFits(call[t])',
         loop'[Lead].at = "constrain" => loop'[Lead].saw = "Ready"
  PROVE  LeadReady'
  <1>1. \A m \in DOMAIN rows : m \in DOMAIN rows' /\ rows'[m] = rows[m]
    BY RowsStay
  <1>2. ASSUME NEW u \in Tasks, u # t
        PROVE  CallFits(call[u])'
    <2>1. CallFits(call[u]) /\ call'[u] = call[u]
      BY <1>2 DEF LeadReady
    <2>. QED BY <1>1, <2>1 DEF CallFits
  <1>. QED BY <1>2 DEF LeadReady

\* What a call carries to the coordinator.
LEMMA ConstrainFields ==
  ASSUME SessInv, NEW t, NEW s \in Slots, NEW c, NEW rest, Constrain(t, s, c, rest)
  PROVE  /\ slots' = slots \cup {s}
         /\ constraint'[s] = c
         /\ \A u \in Slots : u # s => constraint'[u] = constraint[u]
         /\ UNCHANGED <<paused, removed>>
  BY DEF Constrain, SetRuntimeConstraint, SessInv, IInv, TypeOK

\* All other steps of calls leave the constraints alone.
LEMMA ServesSlots ==
  ASSUME SessInv, NEW t \in Tasks, Serves(t), ~PublishConstraint(t), ~AttachTold(t)
  PROVE  slots \subseteq slots' /\ UNCHANGED <<constraint, removed>>
  <1>1. CASE EnqueueStep(t)
    BY <1>1 DEF EnqueueStep, Acquire, AcquireEnqueue, WriteMessage, WriteFails, Commit,
       CommitEnqueue,
       Abort, AbortEnqueue, slotVars, vars
  <1>2. CASE CallerBegins(t)
    BY <1>2 DEF CallerBegins, UserMessage, AgentMessage, CancelRunBegin, CancelChildTurn,
       PauseSlotWork, PauseSlot, AttachBegin, vars
  <1>3. CASE \/ CancelRunWork(t) \/ TellLead(t) \/ TellFails(t) \/ WakeLeader(t)
             \/ \E to \in {"Ready", "Failed"} : AttachEnds(t, to)
    BY <1>3 DEF CancelRunWork, CancelRun, TellLead, TellFails, WakeLeader, AttachEnds, vars
  <1>. QED BY <1>1, <1>2, <1>3 DEF Serves

\* All steps of a loop but its constraint leave the constraints alone.
LEMMA DrainsSlots ==
  ASSUME SessInv, NEW s \in Slots, Drains(s), ~PrepareConstraint(s)
  PROVE  slots \subseteq slots' /\ UNCHANGED <<constraint, removed, paused, deaf>>
  <1>1. CASE Wake(s) \/ Prepare(s) \/ Peek(s) \/ Reconcile(s)
    BY <1>1 DEF Wake, Prepare, Peek, Reconcile, ReconcileMailbox, vars, memberVars
  <1>2. CASE Claim(s) \/ NoClaim(s) \/ SettleSignals(s) \/ ListTasksFails(s) \/ TransportFails(s)
    BY <1>2 DEF Claim, ClaimNext, NoClaim, SettleSignals, CompleteSignals, ListTasksFails, GiveBack,
       RetryStart, TransportFails, vars, memberVars
  <1>3. CASE Execute(s) \/ StartSkipped(s) \/ StartTurn(s) \/ Launch(s) \/ TurnErrs(s)
    BY <1>3 DEF Execute, StartSkipped, GiveBack, RetryStart, StartTurn, MarkStarted, Launch,
       TurnErrs,
       vars, memberVars
  <1>4. CASE \/ \E st \in {"Completed", "Failed"} : TurnEnds(s, st)
             \/ MarkIdle(s) \/ ReportIdle(s) \/ ReportFails(s)
             \/ WakeSettledLead(s)
    BY <1>4 DEF TurnEnds, MarkIdle, ReportIdle, ReportFails, WakeSettledLead, vars, memberVars
  <1>. QED BY <1>1, <1>2, <1>3, <1>4 DEF Drains

\* The rows after a step.
LEMMA ServesRows ==
  ASSUME NEW t \in Tasks, Serves(t)
  PROVE  \/ UNCHANGED <<rows, unread>>
         \/ WriteMessage(t) \/ TellLead(t)
  BY DEF Serves, EnqueueStep, PublishConstraint, Acquire, WriteFails, Commit, CallerBegins,
     UserMessage, AgentMessage, CancelRunBegin, CancelChildTurn, PauseSlotWork, AttachBegin,
     CancelRunWork, TellFails, WakeLeader, AttachTold, AttachEnds, mailVars

\* Only the report of an idle teammate writes a row in a loop.
LEMMA DrainsRows ==
  ASSUME NEW s \in Slots, Drains(s)
  PROVE  UNCHANGED <<rows, unread>> \/ ReportIdle(s)
  BY DEF Drains, Wake, Prepare, PrepareConstraint, Peek, Reconcile, Claim, NoClaim, SettleSignals,
     ListTasksFails, TransportFails, GiveBack, Execute, StartSkipped, StartTurn, Launch, TurnErrs,
     TurnEnds, MarkIdle, ReportFails, WakeSettledLead, mailVars

\* The calls that a step of a call leads to fit.
LEMMA ServesFits ==
  ASSUME SessInv, LeadReady, NEW t \in Tasks, Serves(t)
  PROVE  CallFits(call[t])'
  <1>0. call[t] \in CallStates /\ CallFits(call[t]) /\ runtime[Lead] = "Ready"
    BY DEF SessInv, CallInv, LeadReady
  <1>1. \A q : call' = [call EXCEPT ![t] = q] => call'[t] = q
    BY DEF SessInv, CallInv
  <1>2. CASE call'[t] = Idle
    BY <1>2 DEF CallFits, Idle
  <1>3. CASE UNCHANGED call /\ UNCHANGED rows
    BY <1>0, <1>3 DEF CallFits
  <1>4. ASSUME NEW s \in Slots, NEW source, NEW binding, NEW m, m # NoMsg => s = Lead,
               Request(t, s, source, binding, m)
        PROVE  CallFits(call[t])'
    <2>1. call'[t] = [at |-> "publish", slot |-> s, source |-> source, binding |-> binding,
                      msg |-> m, saw |-> runtime[s]]
      BY <1>1, <1>4 DEF Request
    <2>. QED BY <1>0, <1>4, <2>1 DEF CallFits
  <1>5. CASE PublishConstraint(t)
    <2>1. call'[t] = [at |-> "acquire", slot |-> call[t].slot, source |-> call[t].source,
                      binding |-> call[t].binding, msg |-> call[t].msg]
      BY <1>1, <1>5 DEF PublishConstraint
    <2>2. call[t].at = "publish"
      BY <1>5 DEF PublishConstraint
    <2>. QED BY <1>0, <2>1, <2>2 DEF CallFits
  <1>6. CASE Acquire(t)
    <2>1. CASE call' = [call EXCEPT ![t] = Idle]
      BY <1>1, <1>2, <2>1
    <2>2. CASE \E q : call' = [call EXCEPT ![t] = q] /\ q.at \in {"write", "commit"}
      BY <1>1, <2>2 DEF CallFits
    <2>. QED BY <1>6, <2>1, <2>2 DEF Acquire
  <1>7. CASE WriteMessage(t)
    <2>1. call' = [call EXCEPT ![t] = [call[t] EXCEPT !.at = "commit", !.msg = Len(rows')]]
      BY <1>7 DEF WriteMessage
    <2>2. call[t] \in LeaseCalls
      BY <1>0, <1>7, CallKinds DEF WriteMessage
    <2>3. call'[t] = [call[t] EXCEPT !.at = "commit", !.msg = Len(rows')]
      BY <1>1, <2>1
    <2>4. call'[t].at = "commit"
      BY <2>2, <2>3 DEF LeaseCalls
    <2>. QED BY <2>4 DEF CallFits
  <1>8. CASE WriteFails(t) \/ Commit(t) \/ CancelRunWork(t) \/ TellFails(t)
    BY <1>1, <1>2, <1>8 DEF WriteFails, Commit, CancelRunWork, TellFails
  <1>9. CASE \/ \E s \in Slots : UserMessage(t, s)
             \/ \E f, s \in Slots : AgentMessage(t, f, s)
    BY <1>4, <1>9 DEF UserMessage, AgentMessage
  <1>10. CASE CancelRunBegin(t)
    <2>1. call'[t] = [at |-> "cancel", run |-> run.id]
      BY <1>1, <1>10 DEF CancelRunBegin
    <2>. QED BY <2>1 DEF CallFits
  <1>11. ASSUME NEW s, NEW source, call' = [call EXCEPT ![t] = Tell(s, source)]
         PROVE  CallFits(call[t])'
    <2>1. call'[t] = [at |-> "tell", from |-> s, source |-> source]
      BY <1>1, <1>11 DEF Tell
    <2>. QED BY <2>1 DEF CallFits
  <1>16. CASE \E s \in Slots : CancelChildTurn(t, s) \/ PauseSlotWork(t, s)
    <2>1. PICK s \in Slots : CancelChildTurn(t, s) \/ PauseSlotWork(t, s)
      BY <1>16
    <2>2. UNCHANGED rows
      BY <2>1 DEF CancelChildTurn, PauseSlotWork, mailVars
    <2>3. \/ UNCHANGED call
          \/ call' = [call EXCEPT ![t] = Idle]
          \/ call' = [call EXCEPT ![t] = Tell(s, "InterruptedNotification")]
      BY <2>1 DEF CancelChildTurn, PauseSlotWork, Interrupt
    <2>. QED BY <1>1, <1>2, <1>3, <1>11, <2>2, <2>3
  <1>12. CASE \E s \in Slots : AttachBegin(t, s)
    <2>1. PICK s \in Slots \ {Lead} : Attach(t, s, "constrain", "Starting")
      BY <1>12 DEF AttachBegin
    <2>2. call'[t] = [at |-> "constrain", slot |-> s, to |-> "Starting"]
      BY <1>1, <2>1 DEF Attach
    <2>. QED BY <2>1, <2>2 DEF CallFits
  <1>13. CASE TellLead(t)
    <2>1. PICK row : /\ rows' = Append(rows, row) /\ row.from = call[t].from
      BY <1>13 DEF TellLead, WriteRow
    <2>2. rows \in Seq([from : Slots \cup {"user"}, kind : {"message", "idle"}])
      BY DEF SessInv, MailInv
    <2>3. Len(rows') \in DOMAIN rows' /\ rows'[Len(rows')] = row
      BY <2>1, <2>2
    <2>4. call'[t] = [at |-> "told", from |-> call[t].from, source |-> call[t].source,
                      row |-> Len(rows')]
      BY <1>1, <1>13 DEF TellLead
    <2>. QED BY <2>1, <2>3, <2>4 DEF CallFits
  <1>14. CASE WakeLeader(t)
    <2>1. Lead \in Slots
      BY SessionAssumption
    <2>. QED BY <1>1, <1>2, <1>4, <1>14, <2>1 DEF WakeLeader
  <1>15. CASE AttachTold(t) \/ \E to \in {"Ready", "Failed"} : AttachEnds(t, to)
    <2>1. call[t].slot # Lead
      BY <1>0, <1>15 DEF AttachTold, AttachEnds, CallFits
    <2>2. ASSUME NEW pc, NEW to, Attach(t, call[t].slot, pc, to),
                 pc \in {"constrain", "attaching", "again"}
          PROVE  CallFits(call[t])'
      <3>1. call'[t] = [at |-> pc, slot |-> call[t].slot, to |-> to]
        BY <1>1, <2>2 DEF Attach
      <3>. QED BY <2>1, <2>2, <3>1 DEF CallFits
    <2>3. CASE AttachTold(t)
      <3>1. \/ \E pc, to : Attach(t, call[t].slot, pc, to) /\ pc \in {"constrain", "attaching", "again"}
            \/ call' = [call EXCEPT ![t] = Tell(call[t].slot, "SpawnAttachFailure")]
            \/ call' = [call EXCEPT ![t] = Idle]
        BY <2>3 DEF AttachTold
      <3>. QED BY <1>1, <1>2, <1>11, <2>2, <3>1
    <2>4. CASE \E to \in {"Ready", "Failed"} : AttachEnds(t, to)
      BY <2>2, <2>4 DEF AttachEnds
    <2>. QED BY <1>15, <2>3, <2>4
  <1>. QED
    BY <1>5, <1>6, <1>7, <1>8, <1>9, <1>10, <1>12, <1>13, <1>14, <1>15, <1>16
    DEF Serves, EnqueueStep, CallerBegins

\* No step of a call closes the slot of the lead.
LEMMA ServesLead ==
  ASSUME SessInv, LeadReady, NEW t \in Tasks, Serves(t)
  PROVE  LeadReady'
  <1>0. /\ call[t] \in CallStates /\ CallFits(call[t]) /\ Lead \in Slots
        /\ runtime \in [Slots -> Runtimes]
    BY SessionAssumption DEF SessInv, CallInv, MemberInv, LeadReady
  <1>1. \A u \in Tasks : u # t => call'[u] = call[u]
    BY ServesMoves, MovesOnlyItsOwn
  <1>2. UNCHANGED rows \/ \E s, from, kind : WriteRow(s, from, kind)
    BY ServesRows DEF WriteMessage, TellLead
  <1>3. runtime'[Lead] = "Ready"
    <2>1. CASE \E s \in Slots : AttachBegin(t, s)
      BY <1>0, <2>1 DEF AttachBegin, LeadReady
    <2>2. CASE \E to \in {"Ready", "Failed"} : AttachEnds(t, to)
      BY <1>0, <2>2 DEF AttachEnds, CallFits, LeadReady
    <2>3. CASE UNCHANGED runtime
      BY <2>3 DEF LeadReady
    <2>. QED
      BY <2>1, <2>2, <2>3 DEF Serves, EnqueueStep, PublishConstraint, Acquire, WriteMessage,
         WriteFails, Commit, CallerBegins, UserMessage, AgentMessage, CancelRunBegin,
         CancelChildTurn, PauseSlotWork, CancelRunWork, TellLead, TellFails, WakeLeader,
         AttachTold, memberVars
  <1>4. constraint'[Lead] \in {"Ready", "Starting"} /\ ~removed'[Lead]
    <2>1. CASE PublishConstraint(t)
      <3>1. call[t] \in PublishCalls
        BY <1>0, <2>1, CallKinds DEF PublishConstraint
      <3>2. call[t].slot \in Slots /\ (call[t].slot = Lead => call[t].saw = "Ready")
        BY <1>0, <2>1, <3>1 DEF PublishConstraint, PublishCalls, CallFits
      <3>3. Constrain(t, call[t].slot, call[t].saw, <<>>)
        BY <2>1 DEF PublishConstraint
      <3>4. \/ call[t].slot = Lead /\ constraint'[Lead] = call[t].saw
            \/ call[t].slot # Lead /\ constraint'[Lead] = constraint[Lead]
        BY <1>0, <3>2, <3>3, ConstrainFields
      <3>5. removed' = removed
        BY <3>2, <3>3, ConstrainFields
      <3>. QED BY <3>2, <3>4, <3>5 DEF LeadReady
    <2>2. CASE AttachTold(t)
      <3>1. call[t] \in AttachCalls
        BY <1>0, <2>2, CallKinds DEF AttachTold
      <3>2. call[t].slot \in Slots /\ call[t].slot # Lead
        BY <1>0, <2>2, <3>1 DEF AttachTold, AttachCalls, CallFits
      <3>3. PICK c, rest : Constrain(t, call[t].slot, c, rest)
        BY <2>2 DEF AttachTold
      <3>4. constraint'[Lead] = constraint[Lead] /\ removed' = removed
        BY <1>0, <3>2, <3>3, ConstrainFields
      <3>. QED BY <3>4 DEF LeadReady
    <2>. QED BY <2>1, <2>2, ServesSlots DEF LeadReady
  <1>5. loop'[Lead].at = "constrain" => loop'[Lead].saw = "Ready"
    BY ServesMoves DEF LeadReady
  <1>. QED BY <1>1, <1>2, <1>3, <1>4, <1>5, ServesFits, LeadStays

\* No step of a loop closes the slot of the lead.
LEMMA DrainsLead ==
  ASSUME SessInv, LeadReady, NEW s \in Slots, Drains(s)
  PROVE  LeadReady'
  <1>0. Lead \in Slots /\ s \in Tasks /\ runtime' = runtime /\ runtime[Lead] = "Ready"
    BY SessionAssumption, DrainsMoves DEF LeadReady, Tasks
  <1>1. \A u \in Tasks : u # s => call'[u] = call[u]
    BY <1>0, DrainsMoves, MovesOnlyItsOwn
  <1>2. UNCHANGED rows \/ \E x, from, kind : WriteRow(x, from, kind)
    BY DrainsRows DEF ReportIdle
  <1>3. constraint'[Lead] \in {"Ready", "Starting"} /\ ~removed'[Lead]
    <2>1. CASE PrepareConstraint(s)
      <3>1. Constrain(s, s, loop[s].saw, <<>>) /\ loop[s].at = "constrain"
        BY <2>1 DEF PrepareConstraint, LoopAt
      <3>2. \/ s = Lead /\ constraint'[Lead] = loop[s].saw
            \/ s # Lead /\ constraint'[Lead] = constraint[Lead]
        BY <1>0, <3>1, ConstrainFields
      <3>3. removed' = removed
        BY <3>1, ConstrainFields
      <3>. QED BY <3>1, <3>2, <3>3 DEF LeadReady
    <2>. QED BY <2>1, DrainsSlots DEF LeadReady
  <1>4. CallFits(call[s])'
    <2>1. CASE Request(s, Lead, "IdleNotification", "ActiveRunOrBackground", NoMsg)
      <3>1. call'[s] = [at |-> "publish", slot |-> Lead, source |-> "IdleNotification",
                        binding |-> "ActiveRunOrBackground", msg |-> NoMsg, saw |-> runtime[Lead]]
        BY <1>0, <2>1 DEF Request, SessInv, CallInv
      <3>. QED BY <1>0, <3>1 DEF CallFits
    <2>2. CASE UNCHANGED call
      BY <2>2, DrainsMoves DEF CallFits, Idle
    <2>. QED
      BY <2>1, <2>2 DEF Drains, Wake, Prepare, PrepareConstraint, Peek, Reconcile, Claim, NoClaim,
         SettleSignals, ListTasksFails, TransportFails, GiveBack, Execute, StartSkipped, StartTurn,
         Launch, TurnErrs, TurnEnds, MarkIdle, ReportIdle, ReportFails, WakeSettledLead
  <1>5. loop'[Lead].at = "constrain" => loop'[Lead].saw = "Ready"
    <2>1. CASE s # Lead
      BY <1>0, <2>1, DrainsMoves DEF LeadReady
    <2>2. \A q : Goto(s, q) => loop'[s] = q
      BY DEF Goto, SessInv, LoopInv
    <2>3. CASE Prepare(s) /\ s = Lead
      BY <1>0, <2>2, <2>3 DEF Prepare
    <2>4. CASE Launch(s)
      <3>1. loop[s] \in TurnLoops(BatchesOf(s), DOMAIN rows)
        BY <2>4, LoopKinds DEF Launch, LoopAt, SessInv, LoopInv
      <3>2. loop'[s] = [loop[s] EXCEPT !.turn = "live"]
        BY <2>2, <2>4 DEF Launch
      <3>3. loop'[s].at = "turn"
        BY <3>1, <3>2 DEF TurnLoops
      <3>. QED BY <2>1, <3>3
    <2>5. CASE ~Prepare(s) /\ ~Launch(s)
      <3>1. \E q : Goto(s, q) /\ q.at # "constrain"
        BY <2>5 DEF Drains, Wake, PrepareConstraint, Peek, Reconcile, Claim, NoClaim,
           SettleSignals, ListTasksFails, TransportFails, GiveBack, Execute, StartSkipped,
           StartTurn,
           TurnErrs, TurnEnds, MarkIdle, ReportIdle, ReportFails, WakeSettledLead, At
      <3>. QED BY <2>1, <2>2, <3>1
    <2>. QED BY <2>1, <2>3, <2>4, <2>5
  <1>. QED BY <1>0, <1>1, <1>2, <1>3, <1>4, <1>5, LeadStays

\* No effect closes the slot of the lead.
LEMMA ContinueLead ==
  ASSUME SessInv, LeadReady, NEW t \in Tasks, Continue(t)
  PROVE  LeadReady'
  <1>1. Lead \in Slots
    BY SessionAssumption
  <1>2. CallFits(call[t])'
    BY ContinueMoves DEF LeadReady, CallFits
  <1>3. loop'[Lead].at = "constrain" => loop'[Lead].saw = "Ready"
    BY <1>1, ContinueMoves DEF LeadReady
  <1>. QED BY <1>2, <1>3, ContinueMoves, LeadStays DEF LeadReady

\* A task that serves a call is a caller that begins one or has one.
LEMMA ServesCalls ==
  ASSUME NEW t \in Slots, Serves(t)
  PROVE  EnqueueStep(t) /\ call[t] # Idle
  <1>1. t \notin Callers
    BY SessionAssumption
  <1>. QED
    BY <1>1 DEF Serves, EnqueueStep, PublishConstraint, Acquire, WriteMessage, WriteFails, Commit,
       Idle

\* What the loops that look for work have just done.
LEMMA DrainsTo ==
  ASSUME SessInv, NEW s \in Slots, Drains(s)
  PROVE  /\ loop'[s].at = "peek" => PrepareConstraint(s)
         /\ loop'[s].at = "reconcile" => Peek(s)
         /\ loop'[s].at = "next" => Reconcile(s)
         /\ loop'[s].at = "wait" => NoClaim(s) \/ ListTasksFails(s) \/ StartSkipped(s) \/ TransportFails(s)
         /\ call' # call => WakeSettledLead(s) /\ loop'[s].at = "prepare"
  <1>1. \A q : Goto(s, q) => loop'[s] = q
    BY DEF Goto, SessInv, LoopInv
  <1>2. CASE Launch(s)
    <2>1. loop[s] \in TurnLoops(BatchesOf(s), DOMAIN rows)
      BY <1>2, LoopKinds DEF Launch, LoopAt, SessInv, LoopInv
    <2>2. loop'[s] = [loop[s] EXCEPT !.turn = "live"]
      BY <1>1, <1>2 DEF Launch
    <2>. QED BY <1>2, <2>1, <2>2 DEF TurnLoops, Launch
  <1>3. CASE PrepareConstraint(s) \/ Peek(s) \/ Reconcile(s)
    BY <1>1, <1>3 DEF PrepareConstraint, Peek, Reconcile, At
  <1>4. CASE NoClaim(s) \/ ListTasksFails(s) \/ StartSkipped(s) \/ TransportFails(s)
    BY <1>1, <1>4 DEF NoClaim, ListTasksFails, StartSkipped, GiveBack, TransportFails, At
  <1>5. CASE WakeSettledLead(s)
    BY <1>1, <1>5 DEF WakeSettledLead, At
  <1>6. CASE \/ Wake(s) \/ Prepare(s) \/ Claim(s) \/ SettleSignals(s) \/ Execute(s) \/ StartTurn(s)
             \/ TurnErrs(s) \/ MarkIdle(s) \/ ReportIdle(s) \/ ReportFails(s)
             \/ \E st \in {"Completed", "Failed"} : TurnEnds(s, st)
    <2>1. UNCHANGED call
      BY <1>6 DEF Wake, Prepare, Claim, SettleSignals, Execute, StartTurn, TurnErrs, MarkIdle,
         ReportIdle, ReportFails, TurnEnds
    <2>2. \E q : Goto(s, q) /\ q.at \notin {"peek", "reconcile", "next", "wait"}
      BY <1>6 DEF Wake, Prepare, Claim, SettleSignals, Execute, StartTurn, TurnErrs, MarkIdle,
         ReportIdle, ReportFails, TurnEnds, At
    <2>. QED BY <1>1, <2>1, <2>2
  <1>. QED BY <1>2, <1>3, <1>4, <1>5, <1>6 DEF Drains

\* A loop gets no call or effect by a step of a call.
LEMMA ServesQuiet ==
  ASSUME SessInv, Quiet, NEW t \in Tasks, Serves(t)
  PROVE  Quiet'
  <1> SUFFICES ASSUME NEW s \in Slots
               PROVE  /\ loop'[s].at # "prepare" => call'[s] = Idle
                      /\ loop'[s].at \in {"reconcile", "next"} => todo'[s] = <<>>
    BY DEF Quiet
  <1>1. loop' = loop
    BY ServesMoves
  <1>2. CASE s = t
    <2>1. loop[s].at = "prepare"
      BY <1>2, ServesCalls DEF Quiet
    <2>. QED BY <1>1, <2>1
  <1>3. CASE s # t
    <2>1. call'[s] = call[s] /\ todo'[s] = todo[s]
      BY <1>3, ServesMoves, MovesOnlyItsOwn DEF Tasks
    <2>. QED BY <1>1, <2>1 DEF Quiet
  <1>. QED BY <1>2, <1>3

\* A loop looks for work only when it has nothing else to do.
LEMMA DrainsQuiet ==
  ASSUME SessInv, Quiet, NEW x \in Slots, Drains(x)
  PROVE  Quiet'
  <1> SUFFICES ASSUME NEW s \in Slots
               PROVE  /\ loop'[s].at # "prepare" => call'[s] = Idle
                      /\ loop'[s].at \in {"reconcile", "next"} => todo'[s] = <<>>
    BY DEF Quiet
  <1>1. CASE s = x
    <2>1. loop'[s].at # "prepare" => call'[s] = Idle
      BY <1>1, DrainsTo, DrainsMoves
    <2>2. loop'[s].at \in {"reconcile", "next"} => UNCHANGED todo
      BY <1>1, DrainsTo DEF Peek, Reconcile
    <2>. QED BY <1>1, <2>1, <2>2, DrainsMoves DEF Moves, Free
  <1>2. CASE s # x
    <2>1. call'[s] = call[s] /\ todo'[s] = todo[s] /\ loop'[s] = loop[s]
      BY <1>2, DrainsMoves, MovesOnlyItsOwn DEF Tasks
    <2>. QED BY <2>1 DEF Quiet
  <1>. QED BY <1>1, <1>2

\* Carrying out an effect leaves a quiet loop quiet.
LEMMA ContinueQuiet ==
  ASSUME SessInv, Quiet, NEW t \in Tasks, Continue(t)
  PROVE  Quiet'
  <1> SUFFICES ASSUME NEW s \in Slots
               PROVE  /\ loop'[s].at # "prepare" => call'[s] = Idle
                      /\ loop'[s].at \in {"reconcile", "next"} => todo'[s] = <<>>
    BY DEF Quiet
  <1>1. call' = call /\ loop'[s].at = loop[s].at
    BY ContinueMoves
  <1>2. s # t => todo'[s] = todo[s]
    BY ContinueMoves DEF Tasks
  <1>3. s = t => todo[s] # <<>>
    BY ContinueMoves
  <1>. QED BY <1>1, <1>2, <1>3 DEF Quiet

\* A slot that is about to be opened still is, if task t was not to open it.
LEMMA OpeningStays ==
  ASSUME SessInv, NEW t \in Tasks, NEW s, ~Opens(call[t], s), Opening(s),
         \A u \in Tasks : u # t => call'[u] = call[u]
  PROVE  Opening(s)'
  BY DEF Opening

\* A slot stays steady if its constraint stays.
LEMMA SteadyStays ==
  ASSUME NEW s \in Slots, SteadySlot(s),
         loop'[s].at \in {"peek", "reconcile", "next"} => loop[s].at \in {"peek", "reconcile", "next"},
         runtime'[s] = "Ready" => runtime[s] = "Ready" \/ Opening(s)',
         slots \subseteq slots', constraint'[s] = constraint[s], s \in deaf => s \in deaf',
         Opening(s) => Opening(s)'
  PROVE  SteadySlot(s)'
  BY DEF SteadySlot

\* Who closes an open slot by a stale constraint makes it deaf or opens it again.
LEMMA ServesSteady ==
  ASSUME SessInv, NEW t \in Tasks, Serves(t), NEW s \in Slots, SteadySlot(s)
  PROVE  SteadySlot(s)'
  <1>1. loop' = loop /\ \A u \in Tasks : u # t => call'[u] = call[u]
    BY ServesMoves, MovesOnlyItsOwn
  <1>2. call[t] \in CallStates
    BY DEF SessInv, CallInv
  <1>3. \A q : call' = [call EXCEPT ![t] = q] => call'[t] = q
    BY DEF SessInv, CallInv
  <1>4. ASSUME NEW x \in Slots, NEW c, NEW rest, Constrain(t, x, c, rest), UNCHANGED runtime,
               deaf' = deaf \cup Misled(x, c), Opens(call[t], s) => s = x
        PROVE  SteadySlot(s)'
    <2>1. /\ slots' = slots \cup {x} /\ constraint'[x] = c
          /\ \A u \in Slots : u # x => constraint'[u] = constraint[u]
      BY <1>4, ConstrainFields
    <2>2. CASE s = x
      BY <1>4, <2>1, <2>2 DEF SteadySlot, Misled
    <2>3. CASE s # x
      <3>1. Opening(s) => Opening(s)'
        BY <1>1, <1>4, <2>3, OpeningStays
      <3>. QED BY <1>1, <1>4, <2>1, <2>3, <3>1, SteadyStays
    <2>. QED BY <2>2, <2>3
  <1>5. CASE PublishConstraint(t)
    <2>1. call[t] \in PublishCalls
      BY <1>2, <1>5, CallKinds DEF PublishConstraint
    <2>2. call[t].slot \in Slots /\ ~Opens(call[t], s)
      BY <1>5, <2>1 DEF PublishCalls, Opens, PublishConstraint
    <2>3. /\ Constrain(t, call[t].slot, call[t].saw, <<>>) /\ UNCHANGED runtime
          /\ deaf' = deaf \cup Misled(call[t].slot, call[t].saw)
      BY <1>5 DEF PublishConstraint
    <2>. QED BY <1>4, <2>2, <2>3
  <1>6. CASE AttachTold(t)
    <2>1. call[t] \in AttachCalls
      BY <1>2, <1>6, CallKinds DEF AttachTold
    <2>2. call[t].slot \in Slots /\ (Opens(call[t], s) => s = call[t].slot)
      BY <2>1 DEF AttachCalls, Opens
    <2>3. PICK rest : Constrain(t, call[t].slot, call[t].to, rest)
      BY <1>6 DEF AttachTold
    <2>4. UNCHANGED runtime /\ deaf' = deaf \cup Misled(call[t].slot, call[t].to)
      BY <1>6 DEF AttachTold
    <2>. QED BY <1>4, <2>2, <2>3, <2>4
  <1>7. CASE ~PublishConstraint(t) /\ ~AttachTold(t)
    <2>1. slots \subseteq slots' /\ UNCHANGED constraint
      BY <1>7, ServesSlots
    <2>2. s \in deaf => s \in deaf'
      BY <1>7 DEF Serves, EnqueueStep, Acquire, WriteMessage, WriteFails, Commit, CallerBegins,
         UserMessage, AgentMessage, CancelRunBegin, CancelChildTurn, PauseSlotWork, AttachBegin,
         CancelRunWork, TellLead, TellFails, WakeLeader, AttachEnds, memberVars
    <2>3. ~Opens(call[t], s)
      <3>1. call[t].at \notin {"constrain", "again"}
        BY <1>7 DEF Serves, EnqueueStep, Acquire, WriteMessage, WriteFails, Commit, CallerBegins,
           UserMessage, AgentMessage, CancelRunBegin, CancelChildTurn, PauseSlotWork, AttachBegin,
           CancelRunWork, TellLead, TellFails, WakeLeader, AttachEnds, Idle
      <3>. QED BY <3>1 DEF Opens
    <2>4. Opening(s) => Opening(s)'
      BY <1>1, <2>3, OpeningStays
    <2>5. runtime'[s] = "Ready" => runtime[s] = "Ready" \/ Opening(s)'
      <3>0. runtime \in [Slots -> Runtimes]
        BY DEF SessInv, MemberInv
      <3>1. CASE \E x \in Slots : AttachBegin(t, x)
        BY <3>0, <3>1 DEF AttachBegin
      <3>2. ASSUME NEW to \in {"Ready", "Failed"}, AttachEnds(t, to)
            PROVE  runtime'[s] = "Ready" => runtime[s] = "Ready" \/ Opening(s)'
        <4>1. call'[t] = [at |-> "constrain", slot |-> call[t].slot, to |-> to]
          BY <1>3, <3>2 DEF AttachEnds, Attach
        <4>2. runtime' = [runtime EXCEPT ![call[t].slot] = to]
          BY <3>2 DEF AttachEnds
        <4>3. CASE s = call[t].slot /\ to = "Ready"
          BY <4>1, <4>3 DEF Opening, Opens
        <4>. QED BY <3>0, <4>2, <4>3
      <3>3. CASE UNCHANGED runtime
        BY <3>3
      <3>. QED
        BY <1>7, <3>1, <3>2, <3>3 DEF Serves, EnqueueStep, Acquire, WriteMessage, WriteFails,
           Commit,
           CallerBegins, UserMessage, AgentMessage, CancelRunBegin, CancelChildTurn, PauseSlotWork,
           CancelRunWork, TellLead, TellFails, WakeLeader, memberVars
    <2>. QED BY <1>1, <2>1, <2>2, <2>4, <2>5, SteadyStays
  <1>. QED BY <1>5, <1>6, <1>7

\* A loop looks for work after it told the coordinator what it read.
LEMMA DrainsSteady ==
  ASSUME SessInv, NEW x \in Slots, Drains(x), NEW s \in Slots, SteadySlot(s)
  PROVE  SteadySlot(s)'
  <1>0. /\ x \in Tasks /\ UNCHANGED runtime
        /\ \A u \in Tasks : u # x => call'[u] = call[u]
    BY DrainsMoves, MovesOnlyItsOwn DEF Tasks
  <1>1. Opening(s) => Opening(s)'
    <2>1. ~Opens(call[x], s)
      BY DrainsMoves DEF Opens, Idle
    <2>. QED BY <1>0, <2>1, OpeningStays
  <1>2. CASE PrepareConstraint(x)
    <2>1. /\ Constrain(x, x, loop[x].saw, <<>>)
          /\ deaf' = (deaf \ {x}) \cup Misled(x, loop[x].saw)
      BY <1>2 DEF PrepareConstraint
    <2>2. /\ slots' = slots \cup {x} /\ constraint'[x] = loop[x].saw
          /\ \A u \in Slots : u # x => constraint'[u] = constraint[u]
      BY <2>1, ConstrainFields
    <2>3. CASE s = x
      BY <1>0, <2>1, <2>2, <2>3 DEF SteadySlot, Misled
    <2>4. CASE s # x
      <3>1. loop'[s] = loop[s]
        BY <2>4, DrainsMoves
      <3>. QED BY <1>0, <1>1, <2>1, <2>2, <2>4, <3>1, SteadyStays
    <2>. QED BY <2>3, <2>4
  <1>3. CASE ~PrepareConstraint(x)
    <2>1. loop'[s].at \in {"peek", "reconcile", "next"} => loop[s].at \in {"peek", "reconcile", "next"}
      BY <1>3, DrainsMoves, DrainsTo DEF Peek, Reconcile, LoopAt
    <2>. QED BY <1>0, <1>1, <1>3, <2>1, DrainsSlots, SteadyStays
  <1>. QED BY <1>2, <1>3

\* Carrying out an effect changes no constraint.
LEMMA ContinueSteady ==
  ASSUME SessInv, NEW t \in Tasks, Continue(t), NEW s \in Slots, SteadySlot(s)
  PROVE  SteadySlot(s)'
  <1>1. Opening(s) => Opening(s)'
    BY ContinueMoves DEF Opening
  <1>2. loop'[s].at = loop[s].at
    BY ContinueMoves
  <1>. QED BY <1>1, <1>2, ContinueMoves, SteadyStays

-----------------------------------------------------------------------------
(* The steps of calls keep watch                                            *)

\* A commit notifies the loop of its slot.
LEMMA CommitCalls ==
  ASSUME SessInv, NEW t \in Tasks, Commit(t), CommitEnqueue(call[t].lease, call[t].msg),
         NEW s, s = call[t].lease.slot
  PROVE  Called(s)'
  <1>. DEFINE l == call[t].lease
              S == EffectSet(TrueSummaries', BatchesOf(t)')
              ans == IF l.source \in ForegroundSources THEN {l.run} ELSE {}
  <1>1. call[t] \in LeaseCalls
    BY CallKinds DEF Commit, SessInv, CallInv
  <1>2. l \in Lease /\ l.run \in Runs \cup {NoRun} /\ l.slot \in Slots /\ l \in leases
    BY <1>1 DEF LeaseCalls, Lease, CommitEnqueue
  <1>3. <<"notify", {l.slot}>> \in S /\ <<"answer", ans>> \in S
    BY <1>2, EffectIntro
  <1>4. /\ Publish({l.run}) \in Seq(S)
        /\ Effect("notify", {l.slot}) \in Seq(S)
        /\ Effect("answer", ans) \in Seq(S)
    BY <1>2, <1>3, EffectSeq, PublishSeq
  <1>5. Then(t, (Publish({l.run}) \o Effect("notify", {l.slot})) \o Effect("answer", ans))
    BY <1>2 DEF Commit, CommitEnqueue
  <1>6. l.slot = s /\ Has(Effect("notify", {l.slot}), "notify", s)
    BY HasEffect
  <1>. HIDE DEF l, S, ans
  <1>7. Has((Publish({l.run}) \o Effect("notify", {l.slot})) \o Effect("answer", ans), "notify", s)
    BY <1>4, <1>6, HasConcat3
  <1>8. Pending("notify", s)'
    BY <1>5, <1>7, ThenPending
  <1>. QED BY <1>8 DEF Called

\* A commit that is rejected marks its message read.
LEMMA CommitReads ==
  ASSUME SessInv, NEW t \in Tasks, call[t].at = "commit", NEW m, m = call[t].msg, m # NoMsg,
         Abort(t, call[t].lease, MarkRead({m}))
  PROVE  ToRead(m)'
  <1>. DEFINE l == call[t].lease
              S == EffectSet(TrueSummaries', BatchesOf(t)')
              r == MarkRead({m})
              runs == IF AbortEmptiesRun(l) THEN {l.run} ELSE {}
  <1>1. call[t] \in LeaseCalls
    BY CallKinds DEF SessInv, CallInv
  <1>2. l.run \in Runs \cup {NoRun} /\ m \in MsgOrNone
    BY <1>1 DEF LeaseCalls, Lease
  <1>3. r \in Seq(S) /\ m \in {m} /\ m \in {m} \ {NoMsg}
    BY <1>2, MarkReadSeq
  <1>4. Has(r, "read", {m} \ {NoMsg})
    BY <1>3, MarkReadHas
  <1>5. <<"unbind", runs>> \in S
    BY <1>2, EffectIntro
  <1>6. Effect("unbind", runs) \in Seq(S) /\ Publish({l.run}) \in Seq(S)
    BY <1>2, <1>5, EffectSeq, PublishSeq
  <1>7. \/ Then(t, (Effect("unbind", runs) \o Publish({l.run})) \o r)
        \/ Then(t, r)
    BY DEF Abort
  <1>. HIDE DEF l, S, r, runs
  <1>8. Has((Effect("unbind", runs) \o Publish({l.run})) \o r, "read", {m} \ {NoMsg})
    BY <1>3, <1>4, <1>6, HasConcat3
  <1>9. Pending("read", {m} \ {NoMsg})'
    BY <1>4, <1>7, <1>8, ThenPending
  <1>. QED BY <1>3, <1>9 DEF ToRead

\* What a commit comes to.
LEMMA CommitKinds ==
  ASSUME NEW t \in Tasks, Commit(t)
  PROVE  /\ call[t].at = "commit" /\ Moves(t)
         /\ UNCHANGED deaf
         /\ \/ CommitEnqueue(call[t].lease, call[t].msg) /\ UNCHANGED untold
            \/ /\ Abort(t, call[t].lease, MarkRead({call[t].msg}))
               /\ UNCHANGED <<paused, intents>>
               /\ untold' = untold \cup (IF call[t].lease.source = "IdleNotification"
                                         THEN {t} ELSE {})
  BY DEF Commit, Moves, Abort, AbortEnqueue, slotVars, vars, memberVars

\* An open slot was open before, or its loop is about to be woken.
LEMMA ServesOpen ==
  ASSUME SessInv, NEW t \in Tasks, Serves(t), NEW s \in Slots, SlotOpen(s)'
  PROVE  SlotOpen(s) \/ Called(s)'
  <1>0. runtime \in [Slots -> Runtimes] /\ paused \in [Slots -> BOOLEAN]
    BY DEF SessInv, MemberInv, IInv, TypeOK
  <1>1. CASE Commit(t)
    <2>1. UNCHANGED <<runtime, deaf>>
      BY <1>1 DEF Commit, memberVars
    <2>2. CASE CommitEnqueue(call[t].lease, call[t].msg) /\ s # call[t].lease.slot
      <3>1. paused'[s] = paused[s]
        BY <1>0, <2>2 DEF CommitEnqueue
      <3>. QED BY <2>1, <3>1 DEF SlotOpen
    <2>3. CASE CommitEnqueue(call[t].lease, call[t].msg) /\ s = call[t].lease.slot
      BY <1>1, <2>3, CommitCalls
    <2>4. CASE UNCHANGED paused
      BY <2>1, <2>4 DEF SlotOpen
    <2>. QED BY <1>1, <2>2, <2>3, <2>4, CommitKinds
  <1>2. CASE \E to \in {"Ready", "Failed"} : AttachEnds(t, to)
    <2>1. PICK to \in {"Ready", "Failed"} : AttachEnds(t, to)
      BY <1>2
    <2>2. UNCHANGED <<paused, deaf>> /\ runtime' = [runtime EXCEPT ![call[t].slot] = to]
      BY <2>1 DEF AttachEnds, vars
    <2>3. CASE s # call[t].slot
      BY <1>0, <2>2, <2>3 DEF SlotOpen
    <2>4. CASE s = call[t].slot
      <3>1. to = "Ready"
        BY <1>0, <2>2, <2>4 DEF SlotOpen
      <3>2. call'[t] = [at |-> "constrain", slot |-> s, to |-> "Ready"]
        BY <2>1, <2>4, <3>1 DEF AttachEnds, Attach, SessInv, CallInv
      <3>. QED BY <3>2 DEF Called, Opening, Opens
    <2>. QED BY <2>3, <2>4
  <1>3. CASE \E x \in Slots : AttachBegin(t, x)
    <2>1. PICK x \in Slots : AttachBegin(t, x)
      BY <1>3
    <2>2. UNCHANGED <<paused, deaf>> /\ runtime' = [runtime EXCEPT ![x] = "Starting"]
      BY <2>1 DEF AttachBegin, vars
    <2>. QED BY <1>0, <2>2 DEF SlotOpen
  <1>4. CASE \E x \in Slots : PauseSlotWork(t, x)
    <2>1. PICK x \in Slots : PauseSlotWork(t, x)
      BY <1>4
    <2>2. UNCHANGED <<runtime, deaf>> /\ paused' = [paused EXCEPT ![x] = TRUE]
      BY <2>1 DEF PauseSlotWork, PauseSlot, memberVars
    <2>. QED BY <1>0, <2>2 DEF SlotOpen
  <1>5. CASE PublishConstraint(t) \/ AttachTold(t)
    <2>1. \E x, c, rest : Constrain(t, x, c, rest)
      BY <1>5 DEF PublishConstraint, AttachTold
    <2>2. UNCHANGED paused
      BY <2>1 DEF Constrain, SetRuntimeConstraint
    <2>3. UNCHANGED runtime /\ deaf \subseteq deaf'
      BY <1>5 DEF PublishConstraint, AttachTold
    <2>. QED BY <2>2, <2>3 DEF SlotOpen
  <1>6. CASE Acquire(t) \/ WriteMessage(t) \/ WriteFails(t)
    <2>1. UNCHANGED <<runtime, paused, deaf>>
      BY <1>6 DEF Acquire, AcquireEnqueue, WriteMessage, WriteFails, Abort, AbortEnqueue, slotVars,
         vars,
         memberVars
    <2>. QED BY <2>1 DEF SlotOpen
  <1>7. CASE \/ \E x \in Slots : UserMessage(t, x) \/ CancelChildTurn(t, x)
             \/ \E f, x \in Slots : AgentMessage(t, f, x)
             \/ CancelRunBegin(t) \/ CancelRunWork(t) \/ TellLead(t) \/ TellFails(t) \/ WakeLeader(t)
    <2>1. UNCHANGED <<runtime, paused>> /\ deaf \subseteq deaf'
      BY <1>7 DEF UserMessage, CancelChildTurn, AgentMessage, CancelRunBegin, CancelRunWork,
         CancelRun,
         TellLead, TellFails, WakeLeader, vars, memberVars
    <2>. QED BY <2>1 DEF SlotOpen
  <1>. QED
    BY <1>1, <1>2, <1>3, <1>4, <1>5, <1>6, <1>7 DEF Serves, EnqueueStep, CallerBegins

\* A call that was to open a slot notifies its loop.
LEMMA ServesOpens ==
  ASSUME SessInv, NEW t \in Tasks, Serves(t), NEW s \in Slots, Opens(call[t], s)
  PROVE  Called(s)'
  <1>. DEFINE S == EffectSet(TrueSummaries', BatchesOf(t)')
              ended == {i \in LiveOf(s) : call[t].to = "Failed" /\ intents[i].run # NoRun}
              p == Publish(RunsOf(ended))
              r == MarkRead(MessagesOf(ended))
              e == Effect("notify", {s})
  <1>1. AttachTold(t) /\ call[t].to = "Ready" /\ call[t].slot = s
    BY DEF Opens, Serves, EnqueueStep, PublishConstraint, Acquire, WriteMessage, WriteFails, Commit,
       CallerBegins, UserMessage, AgentMessage, CancelRunBegin, CancelChildTurn, PauseSlotWork,
       AttachBegin, CancelRunWork, TellLead, TellFails, WakeLeader, AttachEnds, Idle
  <1>2. Then(t, (p \o r) \o e)
    BY <1>1 DEF AttachTold, Constrain
  <1>3. ended \in SUBSET DOMAIN intents
    BY DEF LiveOf
  <1>4. p \in Seq(S) /\ r \in Seq(S)
    BY <1>3, IntentFacts, PublishSeq, MarkReadSeq DEF SessInv
  <1>5. e \in Seq(S)
    BY EffectIntro, EffectSeq
  <1>6. Has(e, "notify", s)
    BY HasEffect
  <1>. HIDE DEF S, ended, p, r, e
  <1>7. Has((p \o r) \o e, "notify", s)
    BY <1>4, <1>5, <1>6, HasConcat3
  <1>8. Pending("notify", s)'
    BY <1>2, <1>7, ThenPending
  <1>. QED BY <1>8 DEF Called

\* What an accepted acquire leaves: a lease for the slot that was asked for.
LEMMA AcquireShape ==
  ASSUME NEW t \in Tasks, Acquire(t), AcceptsEnqueue(call[t].slot)
  PROVE  \E source, r, from :
            /\ call[t].source # "UserMessage" => source = call[t].source
            /\ call' = [call EXCEPT ![t] =
                 [at    |-> IF call[t].source # "IdleNotification" /\ call[t].msg = NoMsg
                            THEN "write" ELSE "commit",
                  lease |-> [id |-> t, slot |-> call[t].slot, source |-> source, run |-> r],
                  from  |-> from, msg |-> call[t].msg]]
  <1>. DEFINE src == IF call[t].source = "UserMessage" /\ M!IsActive THEN "UserIntervention"
                     ELSE call[t].source
              from == IF call[t].binding \in Slots THEN call[t].binding ELSE "user"
  <1>1. \E r \in Runs \cup {NoRun} :
            call' = [call EXCEPT ![t] =
              [at    |-> IF call[t].source # "IdleNotification" /\ call[t].msg = NoMsg
                         THEN "write" ELSE "commit",
               lease |-> [id |-> t, slot |-> call[t].slot, source |-> src, run |-> r],
               from  |-> from, msg |-> call[t].msg]]
    BY DEF Acquire
  <1>2. call[t].source # "UserMessage" => src = call[t].source
    OBVIOUS
  <1>. HIDE DEF src, from
  <1>3. PICK r \in Runs \cup {NoRun} :
            call' = [call EXCEPT ![t] =
              [at    |-> IF call[t].source # "IdleNotification" /\ call[t].msg = NoMsg
                         THEN "write" ELSE "commit",
               lease |-> [id |-> t, slot |-> call[t].slot, source |-> src, run |-> r],
               from  |-> from, msg |-> call[t].msg]]
    BY <1>1
  <1>. WITNESS src, r, from
  <1>. QED BY <1>2, <1>3

\* A call that was to enqueue a message still is, or has done so, or gives it up.
LEMMA ServesBrings ==
  ASSUME SessInv, LeadReady, NEW t \in Tasks, Serves(t), NEW s \in Slots, NEW m \in unread[s],
         Brings(call[t], s, m)
  PROVE  Hope(s, m)'
  <1>0. call[t] \in CallStates /\ CallFits(call[t]) /\ m # NoMsg
    BY UnreadMessage DEF SessInv, CallInv, LeadReady
  <1>1. \A q : call' = [call EXCEPT ![t] = q] => call'[t] = q
    BY DEF SessInv, CallInv
  <1>2. \A q : call'[t] = q /\ Brings(q, s, m) => Hope(s, m)'
    BY DEF Hope, Brought
  <1>3. \/ PublishConstraint(t) \/ Acquire(t) \/ Commit(t) \/ WakeLeader(t)
    BY DEF Brings, Serves, EnqueueStep, WriteMessage, WriteFails, CallerBegins, UserMessage,
       AgentMessage, CancelRunBegin, CancelChildTurn, PauseSlotWork, AttachBegin, CancelRunWork,
       TellLead, TellFails, AttachTold, AttachEnds, Idle
  <1>4. CASE PublishConstraint(t)
    <2>1. call[t].at = "publish" /\ call[t].slot = s /\ call[t].msg = m
      BY <1>4 DEF PublishConstraint, Brings
    <2>2. call'[t] = [at |-> "acquire", slot |-> call[t].slot, source |-> call[t].source,
                      binding |-> call[t].binding, msg |-> call[t].msg]
      BY <1>1, <1>4 DEF PublishConstraint
    <2>3. Brings([at |-> "acquire", slot |-> call[t].slot, source |-> call[t].source,
                  binding |-> call[t].binding, msg |-> call[t].msg], s, m)
      BY <2>1 DEF Brings
    <2>. QED BY <1>2, <2>2, <2>3
  <1>5. CASE Acquire(t)
    <2>1. call[t].at = "acquire" /\ call[t].slot = s /\ call[t].msg = m
      BY <1>5 DEF Acquire, Brings
    <2>2. AcceptsEnqueue(call[t].slot)
      BY <1>0, <2>1 DEF AcceptsEnqueue, CallFits, LeadReady
    <2>3. \E source, r, from :
            call' = [call EXCEPT ![t] =
              [at    |-> IF call[t].source # "IdleNotification" /\ call[t].msg = NoMsg
                         THEN "write" ELSE "commit",
               lease |-> [id |-> t, slot |-> call[t].slot, source |-> source, run |-> r],
               from  |-> from, msg |-> call[t].msg]]
      BY <1>5, <2>2, AcquireShape
    <2>4. PICK source, r, from :
            call' = [call EXCEPT ![t] =
              [at    |-> IF call[t].source # "IdleNotification" /\ call[t].msg = NoMsg
                         THEN "write" ELSE "commit",
               lease |-> [id |-> t, slot |-> call[t].slot, source |-> source, run |-> r],
               from  |-> from, msg |-> call[t].msg]]
      BY <2>3
    <2>5. call'[t] = [at |-> "commit",
                      lease |-> [id |-> t, slot |-> s, source |-> source, run |-> r],
                      from |-> from, msg |-> m]
      BY <1>0, <1>1, <2>1, <2>4
    <2>6. Brings([at |-> "commit", lease |-> [id |-> t, slot |-> s, source |-> source, run |-> r],
                  from |-> from, msg |-> m], s, m)
      BY DEF Brings
    <2>. QED BY <1>2, <2>5, <2>6
  <1>6. CASE Commit(t)
    <2>1. call[t].lease.slot = s /\ call[t].msg = m /\ call[t].at = "commit"
      BY <1>6 DEF Commit, Brings
    <2>2. CASE CommitEnqueue(call[t].lease, call[t].msg)
      BY <1>6, <2>1, <2>2, CommitCalls DEF Hope
    <2>3. CASE Abort(t, call[t].lease, MarkRead({call[t].msg}))
      BY <1>0, <2>1, <2>3, CommitReads DEF Hope
    <2>. QED BY <1>6, <2>2, <2>3, CommitKinds
  <1>7. CASE WakeLeader(t)
    <2>. DEFINE found == {n \in unread[Lead] : rows[n].from = call[t].from}
    <2>1. call[t].at = "told" /\ s = Lead /\ call[t].row = m
      BY <1>7 DEF WakeLeader, Brings
    <2>2. m \in found
      BY <1>0, <2>1 DEF CallFits
    <2>3. PICK n \in found :
            /\ Request(t, Lead, call[t].source, call[t].from, n)
            /\ deaf' = deaf \cup (IF call[t].row \in found \ {n} THEN {Lead} ELSE {})
      BY <1>7, <2>2 DEF WakeLeader
    <2>4. CASE n # m
      BY <2>1, <2>2, <2>3, <2>4 DEF Hope, SlotOpen
    <2>5. CASE n = m
      <3>1. call'[t] = [at |-> "publish", slot |-> Lead, source |-> call[t].source,
                        binding |-> call[t].from, msg |-> m, saw |-> runtime[Lead]]
        BY <1>1, <2>3, <2>5 DEF Request
      <3>2. Brings([at |-> "publish", slot |-> Lead, source |-> call[t].source,
                    binding |-> call[t].from, msg |-> m, saw |-> runtime[Lead]], s, m)
        BY <2>1 DEF Brings
      <3>. QED BY <1>2, <3>1, <3>2
    <2>. QED BY <2>4, <2>5
  <1>. QED BY <1>3, <1>4, <1>5, <1>6, <1>7

\* What is queued stays queued or is marked read.
LEMMA ServesQueued ==
  ASSUME SessInv, NEW t \in Tasks, Serves(t), NEW s \in Slots, NEW m \in Messages, QueuedIn(s, m)
  PROVE  QueuedIn(s, m)' \/ ToRead(m)'
  <1>0. call[t] \in CallStates /\ <<>> \in Seq(EffectSet(TrueSummaries', BatchesOf(t)'))
    BY EmptySeq DEF SessInv, CallInv
  <1>1. CASE PublishConstraint(t)
    <2>1. call[t] \in PublishCalls
      BY <1>0, <1>1, CallKinds DEF PublishConstraint
    <2>2. call[t].slot \in Slots /\ call[t].saw \in Runtimes
      BY <2>1 DEF PublishCalls
    <2>3. Constrain(t, call[t].slot, call[t].saw, <<>>)
      BY <1>1 DEF PublishConstraint
    <2>. QED BY <1>0, <2>2, <2>3, ConstrainQueued
  <1>2. CASE AttachTold(t)
    <2>. DEFINE e == Effect("notify", IF call[t].to = "Ready" THEN {call[t].slot} ELSE {})
    <2>1. call[t] \in AttachCalls
      BY <1>0, <1>2, CallKinds DEF AttachTold
    <2>2. call[t].slot \in Slots /\ call[t].to \in Runtimes
      BY <2>1 DEF AttachCalls
    <2>3. Constrain(t, call[t].slot, call[t].to, e)
      BY <1>2 DEF AttachTold
    <2>4. e \in Seq(EffectSet(TrueSummaries', BatchesOf(t)'))
      BY <2>2, EffectIntro, EffectSeq
    <2>. HIDE DEF e
    <2>. QED BY <2>2, <2>3, <2>4, ConstrainQueued
  <1>3. CASE CancelRunWork(t)
    <2>1. CASE t \in Callers
      BY <1>3, <2>1, CancelQueued
    <2>2. CASE t \in Slots
      BY <1>3, <2>2, ServesCalls DEF CancelRunWork, EnqueueStep, PublishConstraint, Acquire,
         WriteMessage, WriteFails, Commit
    <2>. QED BY <2>1, <2>2 DEF Tasks
  <1>4. CASE Commit(t)
    <2>1. CASE CommitEnqueue(call[t].lease, call[t].msg)
      BY <2>1, CommitQueued
    <2>2. CASE UNCHANGED intents
      BY <2>2 DEF QueuedIn
    <2>. QED BY <1>4, <2>1, <2>2, CommitKinds
  <1>5. CASE UNCHANGED intents
    BY <1>5 DEF QueuedIn
  <1>. QED
    BY <1>1, <1>2, <1>3, <1>4, <1>5 DEF Serves, EnqueueStep, Acquire, AcquireEnqueue, WriteMessage,
       WriteFails, Abort, AbortEnqueue, CallerBegins, UserMessage, AgentMessage, CancelRunBegin,
       CancelChildTurn, PauseSlotWork, PauseSlot, AttachBegin, TellLead, TellFails, WakeLeader,
       AttachEnds, vars

\* Unread messages keep their hope.
LEMMA ServesHope ==
  ASSUME SessInv, LeadReady, NEW t \in Tasks, Serves(t), NEW s \in Slots, NEW m \in unread[s],
         Hope(s, m)
  PROVE  Hope(s, m)'
  <1>1. m \in Messages
    BY UnreadMessage
  <1>2. Moves(t) /\ loop'[s] = loop[s] /\ signal'[s] = signal[s]
    BY ServesMoves
  <1>3. SlotOpen(s)' => SlotOpen(s) \/ Called(s)'
    BY ServesOpen
  <1>4. Opens(call[t], s) => Called(s)'
    BY ServesOpens
  <1>5. Brings(call[t], s, m) => Hope(s, m)'
    BY ServesBrings
  <1>6. QueuedIn(s, m) => QueuedIn(s, m)' \/ ToRead(m)'
    BY <1>1, ServesQueued
  <1>. QED BY <1>2, <1>3, <1>4, <1>5, <1>6, TaskHope

\* No call forgets that somebody could not tell the lead.
LEMMA ServesUntold ==
  ASSUME NEW t \in Tasks, Serves(t)
  PROVE  untold \subseteq untold'
  BY DEF Serves, EnqueueStep, PublishConstraint, Acquire, WriteMessage, WriteFails, Commit,
     CallerBegins, UserMessage, AgentMessage, CancelRunBegin, CancelChildTurn, PauseSlotWork,
     AttachBegin, CancelRunWork, TellLead, TellFails, WakeLeader, AttachTold, AttachEnds, mailVars

\* The signal that the team has settled is delivered, or known not to be.
LEMMA ServesDuty ==
  ASSUME SessInv, LeadReady, NEW t \in Tasks, Serves(t), Duty
  PROVE  Duty' \/ Called(Lead)'
  <1>0. call[t] \in CallStates /\ CallFits(call[t]) /\ Lead \in Slots
    BY SessionAssumption DEF SessInv, CallInv, LeadReady
  <1>1. /\ UNCHANGED <<loop, status>>
        /\ \A u \in Tasks : u # t => call'[u] = call[u]
    BY ServesMoves, MovesOnlyItsOwn
  <1>2. \A q : call' = [call EXCEPT ![t] = q] => call'[t] = q
    BY DEF SessInv, CallInv
  <1>3. \A q : call'[t] = q /\ Settles(q) => Duty'
    BY DEF Duty, Settling
  <1>4. CASE ~Settles(call[t])
    BY <1>1, <1>4, ServesUntold DEF Duty, Settling
  <1>5. CASE Settles(call[t])
    <2>1. PublishConstraint(t) \/ Acquire(t) \/ Commit(t)
      BY <1>5 DEF Settles, Serves, EnqueueStep, WriteMessage, WriteFails, CallerBegins, UserMessage,
         AgentMessage, CancelRunBegin, CancelRunWork, CancelChildTurn, PauseSlotWork, AttachBegin,
         TellLead, TellFails, WakeLeader, AttachTold, AttachEnds, Idle
    <2>2. CASE PublishConstraint(t)
      <3>1. call[t].source = "IdleNotification" /\ call[t].slot = Lead
        BY <1>5, <2>2 DEF PublishConstraint, Settles
      <3>2. call'[t] = [at |-> "acquire", slot |-> call[t].slot, source |-> call[t].source,
                        binding |-> call[t].binding, msg |-> call[t].msg]
        BY <1>2, <2>2 DEF PublishConstraint
      <3>3. Settles([at |-> "acquire", slot |-> call[t].slot, source |-> call[t].source,
                     binding |-> call[t].binding, msg |-> call[t].msg])
        BY <3>1 DEF Settles
      <3>. QED BY <1>3, <3>2, <3>3
    <2>3. CASE Acquire(t)
      <3>1. call[t].source = "IdleNotification" /\ call[t].slot = Lead
        BY <1>5, <2>3 DEF Acquire, Settles
      <3>2. AcceptsEnqueue(call[t].slot)
        BY <3>1 DEF AcceptsEnqueue, LeadReady
      <3>3. PICK source, r, from :
              /\ call[t].source # "UserMessage" => source = call[t].source
              /\ call' = [call EXCEPT ![t] =
                   [at    |-> IF call[t].source # "IdleNotification" /\ call[t].msg = NoMsg
                              THEN "write" ELSE "commit",
                    lease |-> [id |-> t, slot |-> call[t].slot, source |-> source, run |-> r],
                    from  |-> from, msg |-> call[t].msg]]
        BY <2>3, <3>2, AcquireShape
      <3>4. source = "IdleNotification"
        BY <3>1, <3>3
      <3>5. call'[t] = [at |-> "commit",
                        lease |-> [id |-> t, slot |-> Lead, source |-> source, run |-> r],
                        from |-> from, msg |-> call[t].msg]
        BY <1>2, <3>1, <3>3
      <3>6. Settles([at |-> "commit",
                     lease |-> [id |-> t, slot |-> Lead, source |-> source, run |-> r],
                     from |-> from, msg |-> call[t].msg])
        BY <3>4 DEF Settles
      <3>. QED BY <1>3, <3>5, <3>6
    <2>4. CASE Commit(t)
      <3>1. call[t].lease.source = "IdleNotification" /\ call[t].lease.slot = Lead
        BY <1>5, <2>4 DEF Commit, Settles
      <3>2. CASE CommitEnqueue(call[t].lease, call[t].msg)
        BY <2>4, <3>1, <3>2, CommitCalls
      <3>3. CASE t \in untold'
        BY <3>3 DEF Duty
      <3>. QED BY <2>4, <3>1, <3>2, <3>3, CommitKinds
    <2>. QED BY <2>1, <2>2, <2>3, <2>4
  <1>. QED BY <1>4, <1>5

\* Who writes a row is going to enqueue it.
LEMMA ServesNewRow ==
  ASSUME SessInv, NEW t \in Tasks, Serves(t), NEW s \in Slots, NEW m \in unread'[s], m \notin unread[s]
  PROVE  Hope(s, m)'
  <1>0. call[t] \in CallStates /\ unread \in [Slots -> SUBSET DOMAIN rows] /\ Lead \in Slots
    BY SessionAssumption DEF SessInv, CallInv, MailInv
  <1>1. CASE WriteMessage(t)
    <2>1. call[t] \in LeaseCalls
      BY <1>0, <1>1, CallKinds DEF WriteMessage
    <2>2. s = call[t].lease.slot /\ m = Len(rows')
      BY <1>0, <1>1 DEF WriteMessage, WriteRow
    <2>3. call' = [call EXCEPT ![t] = [call[t] EXCEPT !.at = "commit", !.msg = Len(rows')]]
      BY <1>1 DEF WriteMessage
    <2>4. call'[t] = [call[t] EXCEPT !.at = "commit", !.msg = Len(rows')]
      BY <2>3 DEF SessInv, CallInv
    <2>5. call'[t].at = "commit" /\ call'[t].lease = call[t].lease /\ call'[t].msg = m
      BY <2>1, <2>2, <2>4 DEF LeaseCalls
    <2>. QED BY <2>2, <2>5 DEF Hope, Brought, Brings
  <1>2. CASE TellLead(t)
    <2>1. s = Lead /\ m = Len(rows')
      BY <1>0, <1>2 DEF TellLead, WriteRow
    <2>2. call'[t] = [at |-> "told", from |-> call[t].from, source |-> call[t].source, row |-> m]
      BY <1>2, <2>1 DEF TellLead, SessInv, CallInv
    <2>. QED BY <2>1, <2>2 DEF Hope, Brought, Brings
  <1>. QED BY <1>1, <1>2, ServesRows

\* Steps of calls keep watch.
LEMMA ServesWatched ==
  ASSUME SessInv, LeadReady, Watched, NEW t \in Tasks, Serves(t)
  PROVE  Watched'
  <1>1. UNCHANGED rows \/ \E s, from, kind : WriteRow(s, from, kind)
    BY ServesRows DEF WriteMessage, TellLead
  <1>2. ASSUME NEW s \in Slots, NEW m \in unread'[s]
        PROVE  \/ Hope(s, m)'
               \/ m \in unread[s] /\ rows'[m] = rows[m] /\ ~Hope(s, m)
    <2>1. CASE m \notin unread[s]
      BY <2>1, ServesNewRow
    <2>2. CASE m \in unread[s] /\ Hope(s, m)
      BY <2>2, ServesHope
    <2>3. CASE m \in unread[s] /\ ~Hope(s, m)
      <3>1. m \in DOMAIN rows
        BY <2>3, UnreadMessage
      <3>. QED BY <1>1, <2>3, <3>1, RowsStay
    <2>. QED BY <2>1, <2>2, <2>3
  <1>3. Duty => Duty' \/ \A m \in unread'[Lead] : Hope(Lead, m)'
    BY ServesDuty DEF Hope
  <1>. QED BY <1>2, <1>3, WatchedStays

-----------------------------------------------------------------------------
(* Carrying out an effect keeps watch                                       *)

\* What a task has pending stays so until it is carried out.
LEMMA ContinueKeeps ==
  ASSUME SessInv, NEW t \in Tasks, Continue(t), NEW kind \in {"read", "notify"}, NEW y,
         Pending(kind, y)
  PROVE  \/ Pending(kind, y)'
         \/ kind = "read" /\ Read(t, y)
         \/ kind = "notify" /\ Notify(t, y)
  <1>. DEFINE k == Head(todo[t])[1]
              args == Head(todo[t])[2]
              S == EffectSet(TrueSummaries', BatchesOf(t)')
  <1>0. todo[t] # <<>> /\ [Next]_vars /\ <<>> \in Seq(S)
    BY ContinueInv, ContinueMoves, EmptySeq
  <1>1. PICK u \in Tasks : Has(todo[u], kind, y)
    BY DEF Pending
  <1>2. CASE u # t
    BY <1>1, <1>2, ContinueMoves DEF Pending
  <1>3. CASE u = t
    <2>. SUFFICES ASSUME ~(kind = "read" /\ Read(t, y)), ~(kind = "notify" /\ Notify(t, y))
                  PROVE  Has(todo'[t], kind, y)
      BY DEF Pending
    <2>1. CASE k = "end"
      <3>1. PICK x \in args : EndBatch(t, x[1], x[2])
        BY <2>1 DEF Continue
      <3>2. x[1] \in BatchesOf(t)
        BY <1>0, <2>1, HeadFacts, EffectKinds
      <3>3. RunsOf(batches[x[1]].members) \in SUBSET (Runs \cup {NoRun})
        BY <3>2, IntentFacts DEF SessInv, MembersExist, BatchesOf
      <3>4. Publish(RunsOf(batches[x[1]].members)) \in Seq(S)
        BY <3>3, PublishSeq
      <3>5. \E more \in Seq(S) : Carried(t, <<x[1], x[2]>>, more)
        BY <1>0, <3>1, <3>4 DEF EndBatch
      <3>. QED BY <1>0, <1>1, <1>3, <2>1, <3>5, CarriedKeeps
    <2>2. CASE k = "read"
      <3>1. PICK x : Read(t, x)
        BY <2>2 DEF Continue
      <3>2. Carried(t, x, <<>>) /\ (kind = "read" => x # y)
        BY <3>1 DEF Read
      <3>. QED BY <1>0, <1>1, <1>3, <2>2, <3>2, CarriedKeeps
    <2>3. CASE k = "notify"
      <3>1. PICK x : Notify(t, x)
        BY <2>3 DEF Continue
      <3>2. Carried(t, x, <<>>) /\ (kind = "notify" => x # y)
        BY <3>1 DEF Notify
      <3>. QED BY <1>0, <1>1, <1>3, <2>3, <3>2, CarriedKeeps
    <2>4. CASE k \notin {"read", "notify", "end"}
      <3>1. PICK x : Carried(t, x, <<>>)
        BY <2>4 DEF Continue, Apply, Unbind, StopTurn, SetStatus, Answer
      <3>. QED BY <1>0, <1>1, <1>3, <2>4, <3>1, CarriedKeeps
    <2>. QED BY <2>1, <2>2, <2>3, <2>4
  <1>. QED BY <1>2, <1>3

\* A loop that is to be woken still is, or has got its permit.
LEMMA ContinueCalls ==
  ASSUME SessInv, NEW t \in Tasks, Continue(t), NEW s \in Slots, Called(s)
  PROVE  Called(s)'
  <1>1. CASE signal[s]
    <2>1. signal' = signal \/ \E u : signal' = [signal EXCEPT ![u] = TRUE]
      BY DEF Continue, Apply, Unbind, Read, Notify, StopTurn, SetStatus, EndBatch, Answer
    <2>2. signal'[s]
      BY <1>1, <2>1 DEF SessInv, MemberInv
    <2>. QED BY <2>2 DEF Called
  <1>2. CASE Opening(s)
    BY <1>2, ContinueMoves DEF Called, Opening
  <1>3. CASE Pending("notify", s)
    <2>1. Pending("notify", s)' \/ Notify(t, s)
      BY <1>3, ContinueKeeps
    <2>2. CASE Notify(t, s)
      BY <2>2 DEF Notify, SessInv, MemberInv, Called
    <2>. QED BY <2>1, <2>2 DEF Called
  <1>. QED BY <1>1, <1>2, <1>3 DEF Called

\* A message that is to be marked read still is, or has been.
LEMMA ContinueReads ==
  ASSUME SessInv, NEW t \in Tasks, Continue(t), NEW s \in Slots, NEW m \in unread'[s], ToRead(m)
  PROVE  ToRead(m)'
  <1>1. PICK A : Pending("read", A) /\ m \in A
    BY DEF ToRead
  <1>2. ~Read(t, A)
    BY <1>1 DEF Read
  <1>. QED BY <1>1, <1>2, ContinueKeeps DEF ToRead

\* What is queued stays queued while effects are carried out.
LEMMA ContinueQueued ==
  ASSUME SessInv, NEW t \in Tasks, Continue(t), NEW s \in Slots, NEW m, QueuedIn(s, m)
  PROVE  QueuedIn(s, m)'
  <1>1. CASE UNCHANGED intents
    BY <1>1 DEF QueuedIn
  <1>2. CASE Head(todo[t])[1] = "end"
    <2>1. PICK x \in Head(todo[t])[2] : EndBatch(t, x[1], x[2])
      BY <1>2 DEF Continue
    <2>2. x[1] \in BatchesOf(t)
      BY <1>2, ContinueMoves, HeadFacts, EffectKinds
    <2>3. CASE TerminalizeBatch(x[1], x[2])
      BY <2>2, <2>3, BatchQueued DEF TerminalizeBatch, BatchesOf
    <2>. QED BY <1>1, <2>1, <2>3 DEF EndBatch, vars
  <1>. QED
    BY <1>1, <1>2 DEF Continue, Apply, Unbind, Read, Notify, StopTurn, SetStatus, Answer, vars

\* No pending effect makes a member idle.
LEMMA ContinueDuty ==
  ASSUME SessInv, "busy" \notin Faults, NEW t \in Tasks, Continue(t), Duty
  PROVE  Duty'
  <1>1. CASE Settling \/ untold # {}
    BY <1>1, ContinueMoves DEF Duty, Settling
  <1>2. CASE \E g \in Slots : status[g] # "Idle" \/ loop[g].at \in {"report", "settled"}
    <2>1. PICK g \in Slots : status[g] # "Idle" \/ loop[g].at \in {"report", "settled"}
      BY <1>2
    <2>2. CASE loop[g].at \in {"report", "settled"}
      BY <2>2, ContinueMoves DEF Duty
    <2>3. CASE UNCHANGED status /\ status[g] # "Idle"
      BY <2>3 DEF Duty
    <2>4. CASE Head(todo[t])[1] = "status" /\ status[g] # "Idle"
      <3>1. PICK x \in Head(todo[t])[2] : SetStatus(t, x[1], x[2])
        BY <2>4 DEF Continue
      <3>2. x[2] # "Idle"
        BY <2>4, ContinueMoves, HeadFacts, EffectKinds DEF LaterStatuses
      <3>3. status'[g] \in {status[g], x[2]}
        BY <3>1 DEF SetStatus, SessInv, MemberInv
      <3>. QED BY <2>4, <3>2, <3>3 DEF Duty
    <2>. QED
      BY <2>1, <2>2, <2>3, <2>4 DEF Continue, Apply, Unbind, Read, Notify, StopTurn, EndBatch,
         Answer,
         memberVars
  <1>. QED BY <1>1, <1>2 DEF Duty

\* Carrying out an effect keeps watch.
LEMMA ContinueWatched ==
  ASSUME SessInv, Watched, "busy" \notin Faults, NEW t \in Tasks, Continue(t)
  PROVE  Watched'
  <1>1. \A s \in Slots : unread'[s] \subseteq unread[s]
    BY DEF Continue, Apply, Unbind, Read, Notify, StopTurn, SetStatus, EndBatch, Answer, mailVars
  <1>2. ASSUME NEW s \in Slots, NEW m \in unread'[s], Hope(s, m)
        PROVE  Hope(s, m)'
    <2>1. SlotOpen(s)' => SlotOpen(s)
      BY ContinueMoves DEF SlotOpen
    <2>2. Called(s) => Called(s)'
      BY ContinueCalls
    <2>3. Sees(s, m) => Sees(s, m)'
      <3>1. loop'[s] = loop[s] \/ (loop[s].at = "turn" /\ loop'[s].at = "turn")
        BY ContinueMoves
      <3>. QED BY <3>1, ContinueQueued DEF Sees, Awake
    <2>4. Brought(s, m) => Brought(s, m)'
      BY ContinueMoves DEF Brought
    <2>5. ToRead(m) => ToRead(m)'
      BY ContinueReads
    <2>. QED BY <1>2, <2>1, <2>2, <2>3, <2>4, <2>5 DEF Hope
  <1>3. Duty => Duty'
    BY ContinueDuty
  <1>4. UNCHANGED rows
    BY ContinueMoves
  <1>. QED BY <1>1, <1>2, <1>3, <1>4, WatchedStays

-----------------------------------------------------------------------------
(* The loops keep watch                                                     *)

\* No batch is given back and no claim is abandoned.
NothingGivenBack == Faults \cap {"busy", "tasks", "transport"} = {}

\* What the loop of one slot does leaves the work of the others queued.
LEMMA DrainsQueued ==
  ASSUME SessInv, NothingGivenBack, NEW x \in Slots, Drains(x), NEW s \in Slots, s # x,
         NEW m \in Messages, QueuedIn(s, m)
  PROVE  QueuedIn(s, m)' \/ ToRead(m)'
  <1>0. x \in Tasks /\ m # NoMsg
    BY SlotWorkAssumption DEF Tasks
  <1>1. CASE PrepareConstraint(x)
    <2>1. loop[x] \in SawLoops(BatchesOf(x), DOMAIN rows)
      BY <1>1, LoopKinds DEF PrepareConstraint, LoopAt, SessInv, LoopInv
    <2>2. loop[x].saw \in Runtimes
      BY <2>1 DEF SawLoops
    <2>3. Constrain(x, x, loop[x].saw, <<>>)
      BY <1>1 DEF PrepareConstraint
    <2>4. <<>> \in Seq(EffectSet(TrueSummaries', BatchesOf(x)'))
      BY EmptySeq
    <2>. QED BY <1>0, <2>2, <2>3, <2>4, ConstrainQueued
  <1>2. CASE Reconcile(x)
    BY <1>2, OtherReconciles DEF Reconcile
  <1>3. CASE Claim(x)
    BY <1>3, OtherClaims DEF Claim
  <1>4. CASE SettleSignals(x)
    <2>1. CASE UNCHANGED intents
      BY <2>1 DEF QueuedIn
    <2>2. CASE CompleteSignals(x, loop[x].signals)
      BY <1>0, <2>2, SignalsQueued
    <2>. QED BY <1>4, <2>1, <2>2 DEF SettleSignals, vars
  <1>5. CASE StartTurn(x)
    <2>1. CASE UNCHANGED intents
      BY <2>1 DEF QueuedIn
    <2>2. CASE MarkStarted(loop[x].batch)
      <3>1. loop[x] \in BatchLoops(BatchesOf(x), DOMAIN rows)
        BY <1>5, LoopKinds DEF StartTurn, LoopAt, SessInv, LoopInv
      <3>2. loop[x].batch \in DOMAIN batches
        BY <3>1 DEF BatchLoops, BatchesOf
      <3>. QED BY <2>2, <3>2, BatchQueued DEF MarkStarted
    <2>. QED BY <1>5, <2>1, <2>2 DEF StartTurn, vars
  <1>6. CASE UNCHANGED intents
    BY <1>6 DEF QueuedIn
  <1>. QED
    BY <1>1, <1>2, <1>3, <1>4, <1>5, <1>6 DEF Drains, Wake, Prepare, Peek, NoClaim, ListTasksFails,
       TransportFails, Execute, StartSkipped, Launch, TurnErrs, TurnEnds, MarkIdle, ReportIdle,
       ReportFails, WakeSettledLead, NothingGivenBack, vars

\* The steps of a loop open no slot but its own.
LEMMA DrainsOpen ==
  ASSUME SessInv, NEW x \in Slots, Drains(x), NEW s \in Slots, SlotOpen(s)'
  PROVE  SlotOpen(s) \/ Awake(s)'
  <1>1. CASE PrepareConstraint(x)
    <2>1. UNCHANGED <<runtime, paused>>
      BY <1>1 DEF PrepareConstraint, Constrain, SetRuntimeConstraint
    <2>2. deaf \ {x} \subseteq deaf'
      BY <1>1 DEF PrepareConstraint
    <2>3. loop'[x].at = "peek"
      BY <1>1 DEF PrepareConstraint, Goto, At, SessInv, LoopInv
    <2>. QED BY <2>1, <2>2, <2>3 DEF SlotOpen, Awake
  <1>2. CASE ~PrepareConstraint(x)
    BY <1>2, DrainsSlots, DrainsMoves DEF SlotOpen
  <1>. QED BY <1>1, <1>2

\* What the loop of one slot does leaves the messages of the others their hope.
LEMMA DrainsOthers ==
  ASSUME SessInv, NothingGivenBack, NEW x \in Slots, Drains(x), NEW s \in Slots, s # x,
         NEW m \in unread[s], Hope(s, m)
  PROVE  Hope(s, m)'
  <1>1. x \in Tasks /\ Moves(x) /\ call[x] = Idle /\ loop'[s] = loop[s]
    BY DrainsMoves DEF Tasks
  <1>2. m \in Messages
    BY UnreadMessage
  <1>3. signal'[s] = signal[s]
    <2>1. UNCHANGED signal \/ signal' = [signal EXCEPT ![x] = FALSE]
      BY DEF Drains, Wake, Prepare, PrepareConstraint, Peek, Reconcile, Claim, NoClaim,
         SettleSignals,
         ListTasksFails, TransportFails, GiveBack, Execute, StartSkipped, StartTurn, Launch,
         TurnErrs,
         TurnEnds, MarkIdle, ReportIdle, ReportFails, WakeSettledLead
    <2>. QED BY <2>1 DEF SessInv, MemberInv
  <1>4. SlotOpen(s)' => SlotOpen(s) \/ Hope(s, m)'
    BY DrainsOpen DEF Hope, Sees
  <1>5. ~Opens(call[x], s) /\ ~Brings(call[x], s, m)
    BY <1>1 DEF Opens, Brings, Idle
  <1>6. QueuedIn(s, m) => QueuedIn(s, m)' \/ ToRead(m)'
    BY <1>2, DrainsQueued
  <1>7. CASE SlotOpen(s)' /\ ~SlotOpen(s)
    BY <1>4, <1>7
  <1>8. CASE SlotOpen(s)' => SlotOpen(s)
    BY <1>1, <1>3, <1>5, <1>6, <1>8, TaskHope
  <1>. QED BY <1>7, <1>8

\* A loop that reconciles or looks for work has nothing pending and no batch.
LEMMA IdleSlot ==
  ASSUME Quiet, NEW s \in Slots, HasOwner(s), loop[s].at \in {"reconcile", "next"}
  PROVE  active[s] = 0
  BY NoBatch DEF Quiet, Free

\* A loop does not wait again before it has dealt with every unread message that
\* it is shown.
LEMMA DrainsOwn ==
  ASSUME SessInv, NothingGivenBack, Quiet, NEW s \in Slots, HasOwner(s), SteadySlot(s), Drains(s),
         NEW m \in unread[s], Shown(m, s), Hope(s, m)
  PROVE  Hope(s, m)'
  <1>0. s \in Tasks /\ Moves(s) /\ UNCHANGED runtime
    BY DrainsMoves DEF Tasks
  <1>1. \A q : Goto(s, q) => loop'[s] = q
    BY DEF Goto, SessInv, LoopInv
  <1>2. ToRead(m) => ToRead(m)'
    BY <1>0, MovesKeepPending DEF ToRead
  <1>3. CASE Awake(s)'
    BY <1>3 DEF Hope, Sees
  <1>4. CASE Peek(s)
    BY <1>1, <1>4 DEF Peek, Shown, Hope, Sees
  <1>5. CASE Reconcile(s)
    <2>1. active[s] = 0 /\ loop[s].at = "reconcile"
      BY <1>5, IdleSlot DEF Reconcile, LoopAt
    <2>2. SlotOpen(s)' => SlotOpen(s)
      BY <1>5, DrainsSlots, DrainsMoves, DrainsTo, <1>1 DEF SlotOpen, Reconcile, PrepareConstraint,
         LoopAt
    <2>3. UNCHANGED <<signal, call>>
      BY <1>5 DEF Reconcile
    <2>4. Called(s) => Called(s)'
      BY <1>0, <2>3, MovesKeepPending DEF Called, Opening
    <2>5. Brought(s, m) => Hope(s, m)'
      BY <2>3 DEF Brought, Hope
    <2>6. Sees(s, m) => Hope(s, m)'
      <3>1. CASE m \in loop[s].seen
        <4>1. ReconcileMailbox(s, loop[s].seen) /\ loop'[s].at = "next"
          BY <1>1, <1>5 DEF Reconcile
        <4>2. QueuedIn(s, m)'
          BY <2>1, <3>1, <4>1, ReconcileQueues
        <4>. QED BY <4>1, <4>2 DEF Hope, Sees
      <3>. QED BY <2>1, <3>1 DEF Sees, Awake
    <2>. QED BY <1>2, <2>2, <2>4, <2>5, <2>6, HopeStays
  <1>6. CASE NoClaim(s) /\ loop'[s].at = "wait"
    <2>1. /\ UNCHANGED <<signal, call, paused, deaf>>
          /\ loop[s].at = "next"
      BY <1>6 DEF NoClaim, LoopAt, vars, memberVars
    <2>2. SlotOpen(s)' => SlotOpen(s)
      BY <1>0, <2>1 DEF SlotOpen
    <2>3. Called(s) => Called(s)'
      BY <1>0, <2>1, MovesKeepPending DEF Called, Opening
    <2>4. Brought(s, m) => Hope(s, m)'
      BY <2>1 DEF Brought, Hope
    <2>5. ASSUME Sees(s, m) PROVE Hope(s, m)'
      <3>1. QueuedIn(s, m)
        BY <2>1, <2>5 DEF Sees, Awake
      <3>2. SignalsToSettle(s) = {}
        BY <1>1, <1>6 DEF NoClaim, At
      <3>3. ~MayClaim(s)
        BY <1>6, <3>1, <3>2, QueuedIsSelected DEF NoClaim
      <3>4. active[s] = 0
        BY <2>1, IdleSlot
      <3>5. ~SlotOpen(s) \/ Opening(s)
        BY <2>1, <3>3, <3>4 DEF SteadySlot, MayClaim, SlotOpen
      <3>. QED BY <2>2, <2>3, <3>5 DEF Hope, Called
    <2>. QED BY <1>2, <2>2, <2>3, <2>4, <2>5, HopeStays
  <1>7. ~ListTasksFails(s) /\ ~StartSkipped(s) /\ ~TransportFails(s)
    BY DEF NothingGivenBack, ListTasksFails, StartSkipped, TransportFails
  <1>. QED BY <1>3, <1>4, <1>5, <1>6, <1>7, DrainsTo DEF Awake

\* The last teammate to settle signals the lead or is known not to, or the lead
\* looks by itself.
LEMMA DrainsDuty ==
  ASSUME SessInv, NEW s \in Slots, Drains(s), Duty
  PROVE  Duty' \/ Awake(Lead)'
  <1>1. \A q : Goto(s, q) => loop'[s] = q
    BY DEF Goto, SessInv, LoopInv
  <1>2. \A u \in Slots : u # s => loop'[u] = loop[u]
    BY DrainsMoves
  <1>3. CASE MarkIdle(s)
    BY <1>1, <1>3 DEF MarkIdle, At, Duty, Awake
  <1>4. CASE ReportIdle(s)
    BY <1>1, <1>4 DEF ReportIdle, At, Duty
  <1>7. CASE ReportFails(s)
    BY <1>7 DEF ReportFails, Duty
  <1>8. CASE PrepareConstraint(s) /\ s = Lead
    BY <1>1, <1>8 DEF PrepareConstraint, At, Awake
  <1>5. CASE WakeSettledLead(s)
    <2>0. s \in Tasks /\ Lead \in Slots
      BY SessionAssumption DEF Tasks
    <2>1. CASE AllSettled /\ status[Lead] = "Idle"
      <3>1. call'[s] = [at |-> "publish", slot |-> Lead, source |-> "IdleNotification",
                        binding |-> "ActiveRunOrBackground", msg |-> NoMsg, saw |-> runtime[Lead]]
        BY <1>5, <2>0, <2>1 DEF WakeSettledLead, Request, SessInv, CallInv
      <3>2. Settles(call'[s])
        BY <3>1 DEF Settles
      <3>. QED BY <2>0, <3>2 DEF Duty, Settling
    <2>2. CASE ~(AllSettled /\ status[Lead] = "Idle")
      <3>1. \E g \in Slots : status[g] # "Idle"
        BY <2>0, <2>2 DEF AllSettled
      <3>2. UNCHANGED status
        BY <1>5 DEF WakeSettledLead, memberVars
      <3>. QED BY <3>1, <3>2 DEF Duty
    <2>. QED BY <2>1, <2>2
  <1>6. CASE /\ ~MarkIdle(s) /\ ~ReportIdle(s) /\ ~ReportFails(s) /\ ~WakeSettledLead(s)
             /\ ~(PrepareConstraint(s) /\ s = Lead)
    <2>1. UNCHANGED <<status, call, untold>> /\ loop[s].at \notin {"report", "settled"}
      BY <1>6 DEF Drains, Wake, Prepare, PrepareConstraint, Peek, Reconcile, Claim, NoClaim,
         SettleSignals, ListTasksFails, TransportFails, GiveBack, Execute, StartSkipped, StartTurn,
         Launch, TurnErrs, TurnEnds, LoopAt, mailVars, memberVars
    <2>. QED BY <1>2, <2>1 DEF Duty, Settling
  <1>. QED BY <1>3, <1>4, <1>5, <1>6, <1>7, <1>8

\* The steps of the loops keep watch.
LEMMA DrainsWatched ==
  ASSUME SessInv, NothingGivenBack, Quiet, Watched, NEW x \in Slots, HasOwner(x), SteadySlot(x), Drains(x)
  PROVE  Watched'
  <1>1. UNCHANGED rows \/ \E s, from, kind : WriteRow(s, from, kind)
    BY DrainsRows DEF ReportIdle
  <1>2. ASSUME NEW s \in Slots, NEW m \in unread'[s]
        PROVE  \/ Hope(s, m)'
               \/ rows'[m].kind = "idle" /\ Duty'
               \/ m \in unread[s] /\ rows'[m] = rows[m] /\ (Shown(m, s) => ~Hope(s, m))
    <2>1. CASE m \notin unread[s]
      <3>1. ReportIdle(x)
        BY <2>1, DrainsRows
      <3>2. /\ rows' = Append(rows, [from |-> x, kind |-> "idle"])
            /\ unread' = [unread EXCEPT ![Lead] = @ \cup {Len(rows')}]
            /\ loop'[x].at = "settled"
        BY <3>1 DEF ReportIdle, WriteRow, Goto, At, SessInv, LoopInv
      <3>3. m = Len(rows')
        BY <2>1, <3>2 DEF SessInv, MailInv
      <3>4. rows \in Seq([from : Slots \cup {"user"}, kind : {"message", "idle"}])
        BY DEF SessInv, MailInv
      <3>5. rows'[m] = [from |-> x, kind |-> "idle"]
        BY <3>2, <3>3, <3>4
      <3>6. Duty'
        <4>1. loop'[x].at \in {"report", "settled"}
          BY <3>2
        <4>. QED BY <4>1 DEF Duty
      <3>. QED BY <3>5, <3>6
    <2>2. CASE m \in unread[s] /\ Hope(s, m) /\ Shown(m, s)
      BY <2>2, DrainsOthers, DrainsOwn
    <2>3. CASE m \in unread[s] /\ (Shown(m, s) => ~Hope(s, m))
      <3>1. m \in DOMAIN rows
        BY <2>3, UnreadMessage
      <3>. QED BY <1>1, <2>3, <3>1, RowsStay
    <2>. QED BY <2>1, <2>2, <2>3
  <1>3. Duty => Duty' \/ \A m \in unread'[Lead] : Hope(Lead, m)'
    BY DrainsDuty DEF Hope, Sees
  <1>. QED BY <1>2, <1>3, WatchedStays

-----------------------------------------------------------------------------
(* A session that rests has read what was sent to it                        *)

\* The watch begins with nothing to read.
LEMMA WatchInit ==
  ASSUME SessionInit
  PROVE  WatchInv
  <1>1. LeadReady
    BY SessionAssumption DEF SessionInit, Init, LeadReady, CallFits, Idle, At, Tasks
  <1>2. Quiet /\ Steady /\ Watched
    BY DEF SessionInit, Quiet, Steady, SteadySlot, Watched, Idle, At, Tasks
  <1>. QED BY <1>1, <1>2 DEF WatchInv

\* Every step keeps watch.
LEMMA WatchStep ==
  ASSUME NothingGivenBack, SessInv, BatchHasItsLoop, WatchInv, [SessionNext]_sessionVars
  PROVE  WatchInv'
  <1>0. /\ LeadReady /\ Quiet /\ Watched /\ "busy" \notin Faults
        /\ \A s \in Slots : SteadySlot(s) /\ HasOwner(s)
    BY OwnersAreLoops DEF WatchInv, Steady, NothingGivenBack
  <1>1. CASE UNCHANGED sessionVars
    <2>1. UNCHANGED <<vars, mailVars, memberVars, taskVars>>
      BY <1>1 DEF sessionVars
    <2>2. LeadReady' /\ Quiet'
      BY <1>0, <2>1 DEF vars, mailVars, memberVars, taskVars, LeadReady, CallFits, Quiet
    <2>3. \A s : Called(s)' <=> Called(s)
      BY <2>1 DEF taskVars, Called, Pending, Has, Opening, Opens
    <2>4. Steady'
      BY <1>0, <2>1 DEF vars, memberVars, taskVars, Steady, SteadySlot, Opening, Opens
    <2>5. \A s, m : QueuedIn(s, m)' <=> QueuedIn(s, m)
      BY <2>1 DEF vars, QueuedIn
    <2>6. \A s, m : Hope(s, m)' <=> Hope(s, m)
      BY <2>1, <2>3, <2>5 DEF vars, memberVars, taskVars, Hope, SlotOpen, Sees, Awake, Brought,
         Brings,
         ToRead, Pending, Has
    <2>7. Duty' <=> Duty
      BY <2>1 DEF mailVars, memberVars, taskVars, Duty, Settling, Settles
    <2>8. Watched'
      BY <1>0, <2>1, <2>6, <2>7 DEF mailVars, Watched, Shown
    <2>. QED BY <2>2, <2>4, <2>8 DEF WatchInv
  <1>2. CASE \E t \in Tasks : Serves(t)
    <2>1. LeadReady' /\ Quiet' /\ Watched'
      BY <1>0, <1>2, ServesLead, ServesQuiet, ServesWatched
    <2>2. Steady'
      BY <1>0, <1>2, ServesSteady DEF Steady
    <2>. QED BY <2>1, <2>2 DEF WatchInv
  <1>3. CASE \E t \in Tasks : Continue(t)
    <2>1. LeadReady' /\ Quiet' /\ Watched'
      BY <1>0, <1>3, ContinueLead, ContinueQuiet, ContinueWatched
    <2>2. Steady'
      BY <1>0, <1>3, ContinueSteady DEF Steady
    <2>. QED BY <2>1, <2>2 DEF WatchInv
  <1>4. CASE \E s \in Slots : Drains(s)
    <2>1. LeadReady' /\ Quiet' /\ Watched'
      BY <1>0, <1>4, DrainsLead, DrainsQuiet, DrainsWatched
    <2>2. Steady'
      BY <1>0, <1>4, DrainsSteady DEF Steady
    <2>. QED BY <2>1, <2>2 DEF WatchInv
  <1>. QED BY <1>1, <1>2, <1>3, <1>4, StepKinds

\* The watch is kept in every session where no batch is given back or abandoned.
LEMMA WatchSpecInv ==
  ASSUME NothingGivenBack
  PROVE  SessionSpec => []WatchInv
  <1>1. SessionInit => WatchInv
    BY WatchInit
  <1>2. SessInv /\ BatchHasItsLoop /\ WatchInv /\ [SessionNext]_sessionVars => WatchInv'
    BY WatchStep
  <1>3. SessionSpec => []BatchHasItsLoop
    BY BatchesHaveLoops DEF NothingGivenBack
  <1>. QED BY <1>1, <1>2, <1>3, SessionSpecInv, PTL DEF SessionSpec

\* Nobody deals with anything any more in a session that rests.
LEMMA RestingIsHopeless ==
  ASSUME Resting
  PROVE  /\ \A s \in Slots : \A m : Hope(s, m) => ~SlotOpen(s)
         /\ Duty => (\E s \in Slots : status[s] # "Idle") \/ untold # {}
  <1>1. \A t \in Tasks : todo[t] = <<>> /\ call[t] = Idle
    BY DEF Resting, Free
  <1>2. \A kind, x : ~Pending(kind, x)
    BY <1>1, HasNothing DEF Pending
  <1>3. /\ \A s, m : ~Brought(s, m)
        /\ \A s : ~Opening(s)
        /\ ~Settling
    BY <1>1 DEF Brought, Brings, Opening, Opens, Settling, Settles, Idle
  <1>4. \A s \in Slots : \A m : ~Sees(s, m) /\ ~Called(s) /\ ~ToRead(m)
    BY <1>2, <1>3 DEF Resting, Sees, Awake, Called, ToRead
  <1>5. \A g \in Slots : loop[g].at = "wait"
    BY DEF Resting
  <1>. QED BY <1>3, <1>4, <1>5 DEF Hope, Duty

\* However commits, cancellations, attachments and pauses (session.rs) interleave
\* with the loops (event_loop.rs), and whatever writes fail: when a session comes to
\* rest, every slot that is open has read every message that others enqueued for it.
\* The write, the commit and the notification of one message are separate steps, and
\* the loop consumes its permit before it peeks; between them somebody always still
\* deals with the message.  What a slot sends to itself is left out of every peek and
\* may stay unread (session.rs:350).  Batches that are given back are excluded: the
\* loop that gives one back waits for a permit that nobody sends (event_loop.rs:184).
THEOREM WakeupsAreKept ==
  Faults \cap {"busy", "tasks", "transport"} = {} => (SessionSpec => []NoLostWakeup)
  <1> SUFFICES ASSUME NothingGivenBack
               PROVE  SessionSpec => []NoLostWakeup
    BY DEF NothingGivenBack
  <1>1. SessionSpec => []WatchInv
    BY WatchSpecInv
  <1>2. WatchInv => NoLostWakeup
    BY RestingIsHopeless DEF WatchInv, Watched, NoLostWakeup
  <1>. QED BY <1>1, <1>2, PTL

\* The lead hears of every teammate that became idle: when a session without errors
\* rests, the open slot of the lead has read every report of mark_idle, although the
\* report is not enqueued.  Until then some member is not idle, or the teammate that
\* was the last to become idle is about to signal the lead, or the lead is awake.
\* Excepted, and recorded in untold: the lead was not signalled since it last drained,
\* because a report could not be written (scheduler/state.rs:79) or the run of the
\* signal was cancelled on its way.
THEOREM LeadIsTold ==
  Faults \cap {"busy", "tasks", "transport"} = {} => (SessionSpec => []LeadHearsSettledTeam)
  <1> SUFFICES ASSUME NothingGivenBack
               PROVE  SessionSpec => []LeadHearsSettledTeam
    BY DEF NothingGivenBack
  <1>1. SessionSpec => []WatchInv
    BY WatchSpecInv
  <1>2. WatchInv => LeadHearsSettledTeam
    <2>1. Lead \in Slots
      BY SessionAssumption
    <2>. QED BY <2>1, RestingIsHopeless DEF WatchInv, Watched, LeadHearsSettledTeam
  <1>. QED BY <1>1, <1>2, PTL

=============================================================================
