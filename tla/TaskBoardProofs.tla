-------------------------- MODULE TaskBoardProofs --------------------------
(***************************************************************************)
(* Proofs about TaskBoard, for every set of callers and owners, every set  *)
(* of update requests and every number of tasks.  LinksRecorded is         *)
(* inductive with the types; UnblockedOnCompletion needs WillBeUnblocked,  *)
(* which says who will unblock a task that waits for a completed one, and  *)
(* that whoever is about to complete a task has read all it must unblock.  *)
(***************************************************************************)
EXTENDS TaskBoard, SequenceTheorems, TLAPS

\* Caller c is to unblock task t because it has completed task d.
Unblocking(c, t, d) ==
    /\ call[c].pc = "unblock" /\ call[c].task = d
    /\ call[c].update.status = "completed"
    /\ t \in call[c].todo

\* Caller c is about to complete task d.
AboutToComplete(c, d) ==
    call[c].pc = "write" /\ call[c].task = d /\ call[c].update.status = "completed"

WillBeUnblocked ==
    \A t, d \in TaskIds :
        WaitsFor(t, d) /\ ~Linking(t, d) /\ <<t, d>> \notin late =>
            /\ tasks[d].status = "completed" => \E c \in Callers : Unblocking(c, t, d)
            /\ \A c \in Callers : AboutToComplete(c, d) => t \in call[c].todo

BoardInv == BoardTypeOK /\ LinksRecorded /\ WillBeUnblocked

-----------------------------------------------------------------------------

\* What a call looks like after Continue.
LEMMA ContinueFacts ==
    ASSUME BoardTypeOK, NEW c \in Callers, NEW pc \in {"link", "unblock"},
           NEW task \in 1..MaxTasks, NEW u \in Updates \cup {NoUpdate},
           NEW todo \in SUBSET (1..MaxTasks), Continue(c, pc, task, u, todo)
    PROVE  /\ call' \in [Callers -> Calls]
           /\ \A b \in Callers \ {c} : call'[b] = call[b]
           /\ call'[c].todo = todo
           /\ todo = {} => call'[c].pc = "idle"
           /\ todo # {} => call'[c].pc = pc /\ call'[c].task = task /\ call'[c].update = u
  <1>1. Idle \in Calls /\ Idle.pc = "idle" /\ Idle.todo = {}
    BY BoardAssumption DEF Idle, Call, Calls
  <1>2. Call(pc, task, u, todo) \in Calls
    BY BoardAssumption DEF Call, Calls
  <1>. QED BY <1>1, <1>2 DEF Continue, BoardTypeOK, Call

\* A row is appended to the board.
LEMMA AppendFacts ==
    ASSUME BoardTypeOK, Len(tasks) < MaxTasks, NEW row \in TaskRows, tasks' = Append(tasks, row)
    PROVE  /\ tasks' \in Seq(TaskRows)
           /\ Len(tasks') = Len(tasks) + 1
           /\ Len(tasks) \in Nat
           /\ Len(tasks') \in 1..MaxTasks
           /\ TaskIds' = TaskIds \cup {Len(tasks')}
           /\ Len(tasks') \notin TaskIds
           /\ tasks'[Len(tasks')] = row
           /\ \A t \in TaskIds : tasks'[t] = tasks[t]
  BY BoardAssumption, LenProperties DEF BoardTypeOK, TaskIds

\* A row of the board is replaced.
LEMMA ReplaceFacts ==
    ASSUME BoardTypeOK, NEW d \in TaskIds, NEW row \in TaskRows,
           tasks' = [tasks EXCEPT ![d] = row]
    PROVE  /\ tasks' \in Seq(TaskRows)
           /\ Len(tasks') = Len(tasks)
           /\ TaskIds' = TaskIds
           /\ tasks'[d] = row
           /\ \A t \in TaskIds \ {d} : tasks'[t] = tasks[t]
  <1>1. tasks \in Seq(TaskRows) /\ d \in 1..Len(tasks)
    BY DEF BoardTypeOK, TaskIds
  <1>. QED BY <1>1, ExceptSeq DEF TaskIds

\* One list of a row is replaced; the rest of the board stays.
LEMMA EditFacts ==
    ASSUME BoardTypeOK, NEW d \in TaskIds, NEW S \in SUBSET (1..MaxTasks),
           \/ tasks' = [tasks EXCEPT ![d].blocks = S]
           \/ tasks' = [tasks EXCEPT ![d].blockedBy = S]
    PROVE  /\ tasks' \in Seq(TaskRows)
           /\ Len(tasks') = Len(tasks)
           /\ TaskIds' = TaskIds
           /\ \A t \in TaskIds \ {d} : tasks'[t] = tasks[t]
           /\ tasks'[d].status = tasks[d].status
           /\ tasks' = [tasks EXCEPT ![d].blocks = S] =>
                 tasks'[d].blocks = S /\ tasks'[d].blockedBy = tasks[d].blockedBy
           /\ tasks' = [tasks EXCEPT ![d].blockedBy = S] =>
                 tasks'[d].blockedBy = S /\ tasks'[d].blocks = tasks[d].blocks
  <1>1. tasks \in [1..Len(tasks) -> TaskRows] /\ d \in 1..Len(tasks) /\ tasks[d] \in TaskRows
        /\ Len(tasks) \in Nat
    BY LenProperties DEF BoardTypeOK, TaskIds
  <1>2. tasks' \in [1..Len(tasks) -> TaskRows]
    BY <1>1 DEF TaskRows
  <1>3. tasks' \in Seq(TaskRows) /\ Len(tasks') = Len(tasks)
    BY <1>1, <1>2
  <1>. QED BY <1>1, <1>3 DEF TaskIds, TaskRows

\* Positions and rows.
LEMMA RowFacts ==
    ASSUME BoardTypeOK
    PROVE  /\ Len(tasks) \in Nat
           /\ TaskIds \subseteq 1..MaxTasks
           /\ \A t \in TaskIds : tasks[t] \in TaskRows
  BY BoardAssumption, LenProperties DEF BoardTypeOK, TaskIds

-----------------------------------------------------------------------------

\* A call that links its new task: the pair is recorded, or left to be.
LEMMA CreateInv ==
    ASSUME BoardInv, NEW c \in Callers, NEW owner \in Slots \cup {NoOwner},
           NEW deps \in SUBSET (1..MaxTasks), CreateTask(c, owner, deps)
    PROVE  BoardInv'
  <1>0. PICK n : n = Len(tasks')
    OBVIOUS
  <1>1. BoardTypeOK /\ LinksRecorded /\ WillBeUnblocked /\ deps \subseteq TaskIds
    BY DEF BoardInv, CreateTask
  <1>2. Task(owner, deps) \in TaskRows /\ Task(owner, deps).blocks = {}
        /\ Task(owner, deps).blockedBy = deps /\ Task(owner, deps).status = "pending"
    BY DEF Task, TaskRows, Statuses
  <1>3. /\ tasks' \in Seq(TaskRows) /\ n = Len(tasks) + 1 /\ Len(tasks) \in Nat /\ n \in 1..MaxTasks
        /\ TaskIds' = TaskIds \cup {n} /\ n \notin TaskIds /\ tasks'[n] = Task(owner, deps)
        /\ \A t \in TaskIds : tasks'[t] = tasks[t]
    BY <1>0, <1>1, <1>2, AppendFacts DEF CreateTask
  <1>4. /\ call' \in [Callers -> Calls]
        /\ \A b \in Callers \ {c} : call'[b] = call[b]
        /\ call'[c].todo = deps
        /\ deps = {} => call'[c].pc = "idle"
        /\ deps # {} => call'[c].pc = "link" /\ call'[c].task = n
    BY <1>0, <1>1, <1>3, ContinueFacts DEF CreateTask
  <1>5. relinked' = relinked /\ late' = late /\ call[c].pc = "idle"
    BY DEF CreateTask
  <1>6. BoardTypeOK'
    <2>1. /\ Len(tasks') <= MaxTasks /\ relinked' \subseteq TaskIds' /\ late' \subseteq (TaskIds \X TaskIds)'
      BY <1>0, <1>1, <1>3, <1>5, BoardAssumption DEF BoardTypeOK
    <2>2. \A t \in TaskIds' : tasks'[t].blocks \subseteq TaskIds'
      BY <1>1, <1>2, <1>3 DEF BoardTypeOK
    <2>3. \A b \in Callers : call'[b].todo \subseteq TaskIds'
      BY <1>1, <1>3, <1>4 DEF BoardTypeOK
    <2>4. \A b \in Callers : call'[b].pc # "idle" => call'[b].task \in TaskIds'
      BY <1>1, <1>3, <1>4 DEF BoardTypeOK
    <2>. QED BY <1>3, <1>4, <2>1, <2>2, <2>3, <2>4 DEF BoardTypeOK
  <1>7. \A t \in TaskIds : \A d : WaitsFor(t, d)' <=> WaitsFor(t, d)
    BY <1>3, <1>5 DEF WaitsFor
  <1>8. \A t \in TaskIds : \A d : Linking(t, d)' <=> Linking(t, d)
    BY <1>3, <1>4, <1>5 DEF Linking
  <1>9. \A d : WaitsFor(n, d)' => d \in deps /\ Linking(n, d)'
    BY <1>2, <1>3, <1>4 DEF WaitsFor, Linking
  <1>10. TaskIds \subseteq 1..MaxTasks /\ \A t \in TaskIds : t < n
    BY <1>1, <1>3, RowFacts DEF TaskIds
  <1>11. LinksRecorded'
    <2> SUFFICES ASSUME NEW t \in TaskIds', NEW d \in 1..MaxTasks, WaitsFor(t, d)'
                 PROVE  d < t /\ (t \in tasks'[d].blocks \/ Linking(t, d)')
      BY DEF LinksRecorded
    <2>1. CASE t = n
      BY <1>1, <1>9, <1>10, <2>1
    <2>2. CASE t \in TaskIds
      <3>1. d < t /\ (t \in tasks[d].blocks \/ Linking(t, d))
        BY <1>1, <1>7, <2>2 DEF LinksRecorded
      <3>2. d \in TaskIds
        BY <3>1, <2>2, <1>3 DEF TaskIds
      <3>. QED BY <3>1, <3>2, <1>3, <1>8, <2>2
    <2>. QED BY <1>3, <2>1, <2>2
  <1>12. WillBeUnblocked'
    <2> SUFFICES ASSUME NEW t \in TaskIds', NEW d \in TaskIds',
                        WaitsFor(t, d)', ~Linking(t, d)', <<t, d>> \notin late
                 PROVE  /\ tasks'[d].status = "completed" => \E b \in Callers : Unblocking(b, t, d)'
                        /\ \A b \in Callers : AboutToComplete(b, d)' => t \in call'[b].todo
      BY <1>5 DEF WillBeUnblocked
    <2>1. t \in TaskIds
      BY <1>3, <1>9
    <2>2. d \in TaskIds
      BY <1>3, <1>6, <1>10, <1>11, <2>1, RowFacts DEF LinksRecorded
    <2>3. /\ tasks[d].status = "completed" => \E b \in Callers : Unblocking(b, t, d)
          /\ \A b \in Callers : AboutToComplete(b, d) => t \in call[b].todo
      BY <1>1, <1>7, <1>8, <2>1, <2>2 DEF WillBeUnblocked
    <2>. QED BY <1>3, <1>4, <1>5, <2>2, <2>3 DEF Unblocking, AboutToComplete
  <1>. QED BY <1>6, <1>11, <1>12 DEF BoardInv

\* One link is recorded.  If the older task is done, or about to be, the pair
\* is late; otherwise nobody is to unblock the younger one yet.
LEMMA LinkInv ==
    ASSUME BoardInv, NEW c \in Callers, NEW d \in TaskIds, LinkDependency(c, d)
    PROVE  BoardInv'
  <1> DEFINE n == call[c].task
  <1>1. BoardTypeOK /\ LinksRecorded /\ WillBeUnblocked
    BY DEF BoardInv
  <1>2. /\ call[c].pc = "link" /\ d \in call[c].todo /\ n \in TaskIds
        /\ call[c].todo \subseteq TaskIds
    BY <1>1 DEF LinkDependency, BoardTypeOK
  <1>3. tasks[d].blocks \cup {n} \in SUBSET (1..MaxTasks)
    BY <1>1, <1>2, RowFacts DEF TaskRows
  <1>4. /\ tasks' \in Seq(TaskRows) /\ Len(tasks') = Len(tasks) /\ TaskIds' = TaskIds
        /\ tasks'[d].blocks = tasks[d].blocks \cup {n} /\ tasks'[d].blockedBy = tasks[d].blockedBy
        /\ tasks'[d].status = tasks[d].status
        /\ \A t \in TaskIds \ {d} : tasks'[t] = tasks[t]
    BY <1>1, <1>3, EditFacts DEF LinkDependency
  <1>5. /\ call' \in [Callers -> Calls]
        /\ \A b \in Callers \ {c} : call'[b] = call[b]
        /\ call'[c].todo = call[c].todo \ {d}
        /\ call'[c].todo = {} => call'[c].pc = "idle"
        /\ call'[c].todo # {} => call'[c].pc = "link" /\ call'[c].task = n
    <2>1. n \in 1..MaxTasks /\ call[c].todo \ {d} \in SUBSET (1..MaxTasks)
      BY <1>1, <1>2, RowFacts
    <2>2. Continue(c, "link", n, NoUpdate, call[c].todo \ {d})
      BY DEF LinkDependency
    <2>. QED BY <1>1, <2>1, <2>2, ContinueFacts
  <1>6. relinked' = relinked
    BY DEF LinkDependency
  <1>7. late \subseteq late' /\ late' \subseteq TaskIds \X TaskIds
    BY <1>1, <1>2 DEF LinkDependency, BoardTypeOK
  <1>8. BoardTypeOK'
    <2>1. \A t \in TaskIds' : tasks'[t].blocks \subseteq TaskIds'
      BY <1>1, <1>2, <1>3, <1>4 DEF BoardTypeOK
    <2>2. \A b \in Callers : call'[b].todo \subseteq TaskIds'
      BY <1>1, <1>2, <1>4, <1>5 DEF BoardTypeOK
    <2>3. \A b \in Callers : call'[b].pc # "idle" => call'[b].task \in TaskIds'
      BY <1>1, <1>2, <1>4, <1>5 DEF BoardTypeOK
    <2>. QED BY <1>1, <1>4, <1>5, <1>6, <1>7, <2>1, <2>2, <2>3 DEF BoardTypeOK
  <1>9. \A t \in TaskIds : \A e : WaitsFor(t, e)' <=> WaitsFor(t, e)
    BY <1>3, <1>4, <1>6 DEF WaitsFor
  <1>10. \A t, e : Linking(t, e) => Linking(t, e)' \/ (t = n /\ e = d)
    <2> SUFFICES ASSUME NEW t, NEW e, Linking(t, e), ~(t = n /\ e = d)
                 PROVE  Linking(t, e)'
      OBVIOUS
    <2>1. PICK b \in Callers : call[b].pc = "link" /\ call[b].task = t /\ e \in call[b].todo
      BY DEF Linking
    <2>2. call'[b].pc = "link" /\ call'[b].task = t /\ e \in call'[b].todo
      BY <1>5, <2>1
    <2>. QED BY <2>2 DEF Linking
  <1>11. LinksRecorded'
    <2> SUFFICES ASSUME NEW t \in TaskIds, NEW e \in 1..MaxTasks, WaitsFor(t, e)'
                 PROVE  e < t /\ (t \in tasks'[e].blocks \/ Linking(t, e)')
      BY <1>4 DEF LinksRecorded
    <2>1. e < t /\ (t \in tasks[e].blocks \/ Linking(t, e))
      BY <1>1, <1>9 DEF LinksRecorded
    <2>2. e \in TaskIds
      BY <1>1, <2>1, RowFacts DEF TaskIds
    <2>. QED BY <1>3, <1>4, <1>10, <2>1, <2>2
  <1>12. WillBeUnblocked'
    <2> SUFFICES ASSUME NEW t \in TaskIds, NEW e \in TaskIds,
                        WaitsFor(t, e)', ~Linking(t, e)', <<t, e>> \notin late'
                 PROVE  /\ tasks'[e].status = "completed" => \E b \in Callers : Unblocking(b, t, e)'
                        /\ \A b \in Callers : AboutToComplete(b, e)' => t \in call'[b].todo
      BY <1>4 DEF WillBeUnblocked
    <2>1. tasks'[e].status = tasks[e].status
      BY <1>3, <1>4
    <2>2. \A b \in Callers : AboutToComplete(b, e)' => AboutToComplete(b, e) /\ call'[b].todo = call[b].todo
      BY <1>5 DEF AboutToComplete
    <2>3. \A b \in Callers : Unblocking(b, t, e) => Unblocking(b, t, e)'
      BY <1>2, <1>5 DEF Unblocking
    <2>4. CASE t = n /\ e = d
      <3>1. tasks[d].status # "completed" /\ ~Completing(d)
        BY <2>4 DEF LinkDependency
      <3>. QED BY <3>1, <2>1, <2>2, <2>4 DEF Completing, AboutToComplete
    <2>5. CASE ~(t = n /\ e = d)
      <3>1. WaitsFor(t, e) /\ ~Linking(t, e) /\ <<t, e>> \notin late
        BY <1>7, <1>9, <1>10, <2>5
      <3>. QED BY <1>1, <2>1, <2>2, <2>3, <3>1 DEF WillBeUnblocked
    <2>. QED BY <2>4, <2>5
  <1>. QED BY <1>8, <1>11, <1>12 DEF BoardInv

\* A caller reads all that it will have to unblock.
LEMMA ReadInv ==
    ASSUME BoardInv, NEW c \in Callers, NEW n \in TaskIds, NEW u \in Updates, ReadForUpdate(c, n, u)
    PROVE  BoardInv'
  <1>1. BoardTypeOK /\ LinksRecorded /\ WillBeUnblocked
    BY DEF BoardInv
  <1>2. /\ tasks' = tasks /\ relinked' = relinked /\ late' = late /\ TaskIds' = TaskIds
        /\ call[c].pc = "idle"
    BY DEF ReadForUpdate, TaskIds
  <1>3. /\ call' \in [Callers -> Calls]
        /\ \A b \in Callers \ {c} : call'[b] = call[b]
        /\ call'[c].pc = "write" /\ call'[c].task = n /\ call'[c].todo = tasks[n].blocks
    <2>1. tasks[n] \in TaskRows /\ n \in 1..MaxTasks
      BY <1>1, RowFacts
    <2>2. Call("write", n, u, tasks[n].blocks) \in Calls
      BY <2>1, BoardAssumption DEF Call, Calls, TaskRows
    <2>. QED BY <1>1, <2>2 DEF ReadForUpdate, BoardTypeOK, Call
  <1>4. BoardTypeOK'
    BY <1>1, <1>2, <1>3 DEF BoardTypeOK
  <1>5. \A t, d : WaitsFor(t, d)' <=> WaitsFor(t, d)
    BY <1>2 DEF WaitsFor
  <1>6. \A t, d : Linking(t, d)' <=> Linking(t, d)
    BY <1>2, <1>3 DEF Linking
  <1>7. LinksRecorded'
    BY <1>1, <1>2, <1>5, <1>6 DEF LinksRecorded
  <1>8. WillBeUnblocked'
    <2> SUFFICES ASSUME NEW t \in TaskIds, NEW d \in TaskIds,
                        WaitsFor(t, d), ~Linking(t, d), <<t, d>> \notin late
                 PROVE  /\ tasks[d].status = "completed" => \E b \in Callers : Unblocking(b, t, d)'
                        /\ \A b \in Callers : AboutToComplete(b, d)' => t \in call'[b].todo
      BY <1>2, <1>5, <1>6 DEF WillBeUnblocked
    <2>1. t \in tasks[d].blocks
      BY <1>1, RowFacts DEF LinksRecorded
    <2>2. \A b \in Callers : Unblocking(b, t, d) => Unblocking(b, t, d)'
      BY <1>2, <1>3 DEF Unblocking
    <2>3. \A b \in Callers \ {c} : AboutToComplete(b, d)' => AboutToComplete(b, d)
      BY <1>3 DEF AboutToComplete
    <2>4. AboutToComplete(c, d)' => t \in call'[c].todo
      BY <1>3, <2>1 DEF AboutToComplete
    <2>. QED BY <1>1, <1>3, <2>2, <2>3, <2>4 DEF WillBeUnblocked
  <1>. QED BY <1>4, <1>7, <1>8 DEF BoardInv

\* The row is written; whoever completed the task has its list to go through.
LEMMA WriteInv ==
    ASSUME BoardInv, NEW c \in Callers, WriteUpdate(c)
    PROVE  BoardInv'
  <1>0. PICK n, u, todo : n = call[c].task /\ u = call[c].update /\ todo = call[c].todo
    OBVIOUS
  <1> DEFINE row == [status |-> IF u.status = Keep THEN tasks[n].status ELSE u.status,
                     owner |-> IF u.owner = Keep THEN tasks[n].owner ELSE u.owner,
                     blockedBy |-> IF u.relink THEN u.deps ELSE tasks[n].blockedBy,
                     blocks |-> tasks[n].blocks]
  <1> DEFINE left == IF u.status = "completed" THEN todo ELSE {}
  <1>1. BoardTypeOK /\ LinksRecorded /\ WillBeUnblocked
    BY DEF BoardInv
  <1>2. /\ call[c].pc = "write" /\ n \in TaskIds /\ todo \subseteq TaskIds
        /\ u \in Updates \cup {NoUpdate} /\ n \in 1..MaxTasks /\ left \in SUBSET (1..MaxTasks)
    BY <1>0, <1>1, RowFacts DEF WriteUpdate, BoardTypeOK, Calls
  <1>3. row \in TaskRows
    <2>1. tasks[n] \in TaskRows
      BY <1>1, <1>2, RowFacts
    <2>2. /\ u.status \in Statuses \cup {Keep} /\ u.owner \in Slots \cup {Keep}
          /\ u.deps \subseteq 1..MaxTasks
      BY <1>2, BoardAssumption DEF NoUpdate
    <2>. QED BY <2>1, <2>2 DEF TaskRows
  <1>4. tasks' = [tasks EXCEPT ![n] = row] /\ late' = late
        /\ relinked' = (IF u.relink THEN relinked \cup {n} ELSE relinked)
        /\ Continue(c, "unblock", n, u, left)
    BY <1>0 DEF WriteUpdate
  <1>5. /\ tasks' \in Seq(TaskRows) /\ Len(tasks') = Len(tasks) /\ TaskIds' = TaskIds
        /\ tasks'[n] = row /\ \A t \in TaskIds \ {n} : tasks'[t] = tasks[t]
    BY <1>1, <1>2, <1>3, <1>4, ReplaceFacts
  <1>6. /\ call' \in [Callers -> Calls]
        /\ \A b \in Callers \ {c} : call'[b] = call[b]
        /\ call'[c].todo = left
        /\ left = {} => call'[c].pc = "idle"
        /\ left # {} => call'[c].pc = "unblock" /\ call'[c].task = n /\ call'[c].update = u
    BY <1>1, <1>2, <1>4, ContinueFacts
  <1>7. BoardTypeOK'
    <2>1. \A t \in TaskIds' : tasks'[t].blocks \subseteq TaskIds'
      BY <1>1, <1>2, <1>5 DEF BoardTypeOK
    <2>2. \A b \in Callers : call'[b].todo \subseteq TaskIds'
      BY <1>1, <1>2, <1>5, <1>6 DEF BoardTypeOK
    <2>3. \A b \in Callers : call'[b].pc # "idle" => call'[b].task \in TaskIds'
      BY <1>1, <1>2, <1>5, <1>6 DEF BoardTypeOK
    <2>4. relinked' \subseteq TaskIds'
      BY <1>1, <1>2, <1>4, <1>5 DEF BoardTypeOK
    <2>. QED BY <1>1, <1>4, <1>5, <1>6, <2>1, <2>2, <2>3, <2>4 DEF BoardTypeOK
  <1>8. \A t \in TaskIds : \A d : WaitsFor(t, d)' => WaitsFor(t, d)
    <2> SUFFICES ASSUME NEW t \in TaskIds, NEW d, WaitsFor(t, d)' PROVE WaitsFor(t, d)
      OBVIOUS
    <2>1. CASE t = n
      <3>1. ~u.relink /\ t \notin relinked
        BY <1>4, <2>1 DEF WaitsFor
      <3>2. tasks'[t].blockedBy = tasks[t].blockedBy
        BY <1>5, <2>1, <3>1
      <3>. QED BY <3>1, <3>2 DEF WaitsFor
    <2>2. CASE t # n
      BY <1>4, <1>5, <2>2 DEF WaitsFor
    <2>. QED BY <2>1, <2>2
  <1>9. \A t, d : Linking(t, d)' <=> Linking(t, d)
    BY <1>2, <1>6 DEF Linking
  <1>10. \A d \in TaskIds : tasks'[d].blocks = tasks[d].blocks
    BY <1>2, <1>5
  <1>11. LinksRecorded'
    <2> SUFFICES ASSUME NEW t \in TaskIds, NEW d \in 1..MaxTasks, WaitsFor(t, d)'
                 PROVE  d < t /\ (t \in tasks'[d].blocks \/ Linking(t, d)')
      BY <1>5 DEF LinksRecorded
    <2>1. d < t /\ (t \in tasks[d].blocks \/ Linking(t, d))
      BY <1>1, <1>8 DEF LinksRecorded
    <2>2. d \in TaskIds
      BY <1>1, <2>1, RowFacts DEF TaskIds
    <2>. QED BY <1>9, <1>10, <2>1, <2>2
  <1>12. WillBeUnblocked'
    <2> SUFFICES ASSUME NEW t \in TaskIds, NEW d \in TaskIds,
                        WaitsFor(t, d), ~Linking(t, d), <<t, d>> \notin late
                 PROVE  /\ tasks'[d].status = "completed" => \E b \in Callers : Unblocking(b, t, d)'
                        /\ \A b \in Callers : AboutToComplete(b, d)' => t \in call'[b].todo
      BY <1>4, <1>5, <1>8, <1>9 DEF WillBeUnblocked
    <2>1. /\ tasks[d].status = "completed" => \E b \in Callers : Unblocking(b, t, d)
          /\ \A b \in Callers : AboutToComplete(b, d) => t \in call[b].todo
      BY <1>1 DEF WillBeUnblocked
    <2>2. \A b \in Callers : Unblocking(b, t, d) => Unblocking(b, t, d)'
      BY <1>2, <1>6 DEF Unblocking
    <2>3. \A b \in Callers : AboutToComplete(b, d)' => AboutToComplete(b, d) /\ call'[b].todo = call[b].todo
      BY <1>6 DEF AboutToComplete
    <2>4. CASE d = n /\ u.status = "completed"
      <3>1. t \in left
        BY <1>0, <1>2, <2>1, <2>4 DEF AboutToComplete
      <3>2. Unblocking(c, t, d)'
        BY <1>6, <2>4, <3>1 DEF Unblocking
      <3>. QED BY <2>1, <2>3, <3>2
    <2>5. CASE ~(d = n /\ u.status = "completed")
      <3>1. tasks'[d].status = "completed" => tasks[d].status = "completed"
        BY <1>5, <2>5
      <3>. QED BY <2>1, <2>2, <2>3, <3>1
    <2>. QED BY <2>4, <2>5
  <1>. QED BY <1>7, <1>11, <1>12 DEF BoardInv

\* One task no longer waits.
LEMMA UnblockInv ==
    ASSUME BoardInv, NEW c \in Callers, NEW m \in TaskIds, Unblock(c, m)
    PROVE  BoardInv'
  <1>0. PICK n, u, todo : n = call[c].task /\ u = call[c].update /\ todo = call[c].todo
    OBVIOUS
  <1>1. BoardTypeOK /\ LinksRecorded /\ WillBeUnblocked
    BY DEF BoardInv
  <1>2. /\ call[c].pc = "unblock" /\ n \in TaskIds /\ todo \subseteq TaskIds /\ m \in todo
        /\ u \in Updates \cup {NoUpdate} /\ n \in 1..MaxTasks /\ todo \ {m} \in SUBSET (1..MaxTasks)
    BY <1>0, <1>1, RowFacts DEF Unblock, BoardTypeOK, Calls
  <1>3. tasks[m].blockedBy \ {n} \in SUBSET (1..MaxTasks)
    BY <1>1, RowFacts DEF TaskRows
  <1>4. tasks' = [tasks EXCEPT ![m].blockedBy = tasks[m].blockedBy \ {n}] /\ late' = late
        /\ relinked' = relinked /\ Continue(c, "unblock", n, u, todo \ {m})
    BY <1>0 DEF Unblock
  <1>5. /\ tasks' \in Seq(TaskRows) /\ Len(tasks') = Len(tasks) /\ TaskIds' = TaskIds
        /\ tasks'[m].blockedBy = tasks[m].blockedBy \ {n}
        /\ tasks'[m].blocks = tasks[m].blocks /\ tasks'[m].status = tasks[m].status
        /\ \A t \in TaskIds \ {m} : tasks'[t] = tasks[t]
    BY <1>1, <1>3, <1>4, EditFacts
  <1>6. /\ call' \in [Callers -> Calls]
        /\ \A b \in Callers \ {c} : call'[b] = call[b]
        /\ call'[c].todo = todo \ {m}
        /\ todo \ {m} = {} => call'[c].pc = "idle"
        /\ todo \ {m} # {} => call'[c].pc = "unblock" /\ call'[c].task = n /\ call'[c].update = u
    BY <1>1, <1>2, <1>4, ContinueFacts
  <1>7. BoardTypeOK'
    <2>1. \A t \in TaskIds' : tasks'[t].blocks \subseteq TaskIds'
      BY <1>1, <1>2, <1>5 DEF BoardTypeOK
    <2>2. \A b \in Callers : call'[b].todo \subseteq TaskIds'
      BY <1>1, <1>2, <1>5, <1>6 DEF BoardTypeOK
    <2>3. \A b \in Callers : call'[b].pc # "idle" => call'[b].task \in TaskIds'
      BY <1>1, <1>2, <1>5, <1>6 DEF BoardTypeOK
    <2>. QED BY <1>1, <1>4, <1>5, <1>6, <2>1, <2>2, <2>3 DEF BoardTypeOK
  <1>8. \A t \in TaskIds : \A d : WaitsFor(t, d)' => WaitsFor(t, d) /\ ~(t = m /\ d = n)
    BY <1>4, <1>5 DEF WaitsFor
  <1>9. \A t, d : Linking(t, d)' <=> Linking(t, d)
    BY <1>2, <1>6 DEF Linking
  <1>10. \A d \in TaskIds : tasks'[d].blocks = tasks[d].blocks /\ tasks'[d].status = tasks[d].status
    BY <1>5
  <1>11. LinksRecorded'
    <2> SUFFICES ASSUME NEW t \in TaskIds, NEW d \in 1..MaxTasks, WaitsFor(t, d)'
                 PROVE  d < t /\ (t \in tasks'[d].blocks \/ Linking(t, d)')
      BY <1>5 DEF LinksRecorded
    <2>1. d < t /\ (t \in tasks[d].blocks \/ Linking(t, d))
      BY <1>1, <1>8 DEF LinksRecorded
    <2>2. d \in TaskIds
      BY <1>1, <2>1, RowFacts DEF TaskIds
    <2>. QED BY <1>9, <1>10, <2>1, <2>2
  <1>12. WillBeUnblocked'
    <2> SUFFICES ASSUME NEW t \in TaskIds, NEW d \in TaskIds, ~(t = m /\ d = n),
                        WaitsFor(t, d), ~Linking(t, d), <<t, d>> \notin late
                 PROVE  /\ tasks[d].status = "completed" => \E b \in Callers : Unblocking(b, t, d)'
                        /\ \A b \in Callers : AboutToComplete(b, d)' => t \in call'[b].todo
      BY <1>4, <1>5, <1>8, <1>9, <1>10 DEF WillBeUnblocked
    <2>1. /\ tasks[d].status = "completed" => \E b \in Callers : Unblocking(b, t, d)
          /\ \A b \in Callers : AboutToComplete(b, d) => t \in call[b].todo
      BY <1>1 DEF WillBeUnblocked
    <2>2. \A b \in Callers : Unblocking(b, t, d) => Unblocking(b, t, d)'
      <3>1. Unblocking(c, t, d) => Unblocking(c, t, d)'
        BY <1>0, <1>6 DEF Unblocking
      <3>. QED BY <1>6, <3>1 DEF Unblocking
    <2>3. \A b \in Callers : AboutToComplete(b, d)' => AboutToComplete(b, d) /\ call'[b].todo = call[b].todo
      BY <1>6 DEF AboutToComplete
    <2>. QED BY <2>1, <2>2, <2>3
  <1>. QED BY <1>7, <1>11, <1>12 DEF BoardInv

-----------------------------------------------------------------------------

LEMMA BoardInitInv == BoardInit => BoardInv
  <1> SUFFICES ASSUME BoardInit PROVE BoardInv
    OBVIOUS
  <1>1. tasks = <<>> /\ TaskIds = {} /\ relinked = {} /\ late = {}
    BY DEF BoardInit, TaskIds
  <1>2. call \in [Callers -> Calls] /\ \A c \in Callers : call[c].pc = "idle" /\ call[c].todo = {}
    BY BoardAssumption DEF BoardInit, Idle, Call, Calls
  <1>3. BoardTypeOK
    BY <1>1, <1>2, BoardAssumption DEF BoardTypeOK
  <1>. QED BY <1>1, <1>3 DEF BoardInv, LinksRecorded, WillBeUnblocked

LEMMA BoardStepInv ==
    ASSUME BoardInv, NEW c \in Callers, BoardStep(c)
    PROVE  BoardInv'
  BY LinkInv, WriteInv, UnblockInv DEF BoardStep

LEMMA BoardNextInv == BoardInv /\ [BoardNext]_boardVars => BoardInv'
  <1> SUFFICES ASSUME BoardInv, [BoardNext]_boardVars PROVE BoardInv'
    OBVIOUS
  <1>1. CASE BoardNext
    BY <1>1, CreateInv, ReadInv, BoardStepInv DEF BoardNext
  <1>2. CASE UNCHANGED boardVars
    <2>1. tasks' = tasks /\ call' = call /\ relinked' = relinked /\ late' = late
      BY <1>2 DEF boardVars
    <2>2. BoardTypeOK'
      BY <2>1 DEF BoardInv, BoardTypeOK, TaskIds
    <2>3. LinksRecorded'
      BY <2>1 DEF BoardInv, LinksRecorded, WaitsFor, Linking, TaskIds
    <2>4. WillBeUnblocked'
      BY <2>1 DEF BoardInv, WillBeUnblocked, WaitsFor, Linking, Unblocking, AboutToComplete, TaskIds
    <2>. QED BY <2>2, <2>3, <2>4 DEF BoardInv
  <1>. QED BY <1>1, <1>2

\* Nobody is about to complete the task, so nobody is unblocking its dependents.
LEMMA BoardInvUnblocks == BoardInv => UnblockedOnCompletion
  <1> SUFFICES ASSUME BoardInv, NEW t \in TaskIds, NEW d \in TaskIds,
                      WaitsFor(t, d), tasks[d].status = "completed", ~Completing(d),
                      <<t, d>> \notin late, ~Linking(t, d)
               PROVE  FALSE
    BY DEF UnblockedOnCompletion
  <1>1. PICK c \in Callers : Unblocking(c, t, d)
    BY DEF BoardInv, WillBeUnblocked
  <1>. QED BY <1>1 DEF Unblocking, Completing

LEMMA BoardInvariance == BoardSpec => []BoardInv
  BY BoardInitInv, BoardNextInv, PTL DEF BoardSpec

\* The rows that calls of create_task and update_task refer to exist, for any
\* number of callers and tasks.
THEOREM BoardTyped == BoardSpec => []BoardTypeOK
  <1>1. BoardInv => BoardTypeOK
    BY DEF BoardInv
  <1>. QED BY <1>1, BoardInvariance, PTL

\* A dependency of create_task is older than the task and is recorded in both
\* rows, or about to be, whoever writes rows in between.
THEOREM LinksAreRecorded == BoardSpec => []LinksRecorded
  <1>1. BoardInv => LinksRecorded
    BY DEF BoardInv
  <1>. QED BY <1>1, BoardInvariance, PTL

\* update_task leaves nobody waiting for a completed task but the tasks whose
\* link was recorded while it was being completed.
THEOREM CompletionUnblocks == BoardSpec => []UnblockedOnCompletion
  BY BoardInvariance, BoardInvUnblocks, PTL

=============================================================================
