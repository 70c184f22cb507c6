------------------------- MODULE ToolServerProofs --------------------------
(***************************************************************************)
(* The tool server uses the task board as TaskBoard specifies it, so that  *)
(* what TaskBoardProofs shows of the board holds for the tools as well;    *)
(* what the tools may do to the roster and the mailbox; and what a wake    *)
(* summary shows of the board, for every board, roster and limit.          *)
(***************************************************************************)
EXTENDS ToolServer, TaskBoardProofs, FiniteSetTheorems

\* The steps of those that commit rows of others, the last of slot s or those to it.
Recovers(s) == WakeLeader(s) \/ RecoveryDrain(s)

\* The steps of the event loop of slot s, and of those that wake it.
WakeStep(s) ==
    \/ Recovers(s) \/ Peek(s) \/ Claim(s) \/ Mirror(s) \/ \E x \in BOOLEAN : EndWake(s, x)

\* A step of the server is a step of the board, or leaves the board alone.
LEMMA ToolStepIsBoardStep == [Next]_allVars => [BoardNext]_boardVars
  <1> SUFFICES ASSUME [Next]_allVars PROVE [BoardNext]_boardVars
    OBVIOUS
  <1>1. CASE UNCHANGED allVars
    BY <1>1 DEF allVars, boardVars
  <1>2. ASSUME NEW c \in Callers, NEW o \in Slots \cup {NoOwner},
               NEW deps \in SUBSET (1..MaxTasks), TaskCreate(c, o, deps)
        PROVE  BoardNext
    BY <1>2 DEF TaskCreate, BoardNext
  <1>3. ASSUME NEW c \in Callers, NEW t \in TaskIds, NEW u \in Updates, TaskUpdate(c, t, u)
        PROVE  BoardNext
    BY <1>3 DEF TaskUpdate, BoardNext
  <1>4. ASSUME NEW c \in Callers, TaskStep(c)
        PROVE  BoardNext
    BY <1>4 DEF TaskStep, BoardNext
  <1>5. ASSUME NEW c \in Callers,
               \/ Accept(c) \/ Disconnect(c) \/ ProjectSent(c) \/ ShutdownApproved(c)
               \/ ShutdownRejected(c) \/ OtherRequest(c)
               \/ \E s \in Slots \cup {NoSlot} : Initialize(c, s) \/ AcceptHttp(c, s)
               \/ \E T \in SUBSET Slots : SendMessage(c, T)
               \/ \E t \in Slots : SendOne(c, t) \/ ShutdownAgent(c, t)
               \/ SendFails(c) \/ CommitSent(c)
        PROVE  UNCHANGED boardVars
    BY <1>5 DEF Accept, Disconnect, ProjectSent, ShutdownApproved, ShutdownRejected, Initialize,
                AcceptHttp, SendMessage, SendOne, SendFails, CommitSent, ShutdownAgent, OtherRequest
  <1>6. ASSUME \/ StopServer
               \/ \E s \in Slots \cup {NoSlot} : RemoveApproved(s)
               \/ \E s \in Slots : WakeStep(s)
        PROVE  UNCHANGED boardVars
    BY <1>6 DEF StopServer, RemoveApproved, WakeStep, Recovers, WakeLeader, RecoveryDrain,
       CommitEarly, Peek, Claim, Mirror, EndWake
  <1>. QED BY <1>1, <1>2, <1>3, <1>4, <1>5, <1>6 DEF Next, WakeStep, Recovers

\* The tools implement the task board: handle_tools_call reaches the rows of
\* the board only through create_task and update_task.
THEOREM ToolServerImplementsBoard == Spec => BoardSpec
  <1>1. Init => BoardInit
    BY DEF Init
  <1>. QED BY <1>1, ToolStepIsBoardStep, PTL DEF Spec, BoardSpec

\* Hence team_task_create and team_task_update keep the dependency lists of
\* several agents' tasks consistent and complete.
THEOREM ToolsKeepLinks == Spec => []LinksRecorded
  BY ToolServerImplementsBoard, LinksAreRecorded, PTL

\* Hence a task completed by a tool unblocks what was linked to it before.
THEOREM ToolsUnblock == Spec => []UnblockedOnCompletion
  BY ToolServerImplementsBoard, CompletionUnblocks, PTL

-----------------------------------------------------------------------------
(* Who may leave: a removal is scheduled only for who has agreed.           *)

LeaveInv == OnlyVolunteersLeave /\ removal \subseteq approved

\* A step of the server keeps it.
LEMMA LeaveNextInv == LeaveInv /\ [Next]_allVars => LeaveInv'
  <1> SUFFICES ASSUME LeaveInv, [Next]_allVars PROVE LeaveInv'
    OBVIOUS
  <1> USE DEF LeaveInv, OnlyVolunteersLeave
  <1>1. CASE UNCHANGED allVars
    BY <1>1 DEF allVars, toolVars
  <1>2. ASSUME NEW c \in Callers, ShutdownApproved(c)
        PROVE  LeaveInv'
    BY <1>2 DEF ShutdownApproved
  <1>3. ASSUME NEW s \in Slots \cup {NoSlot}, RemoveApproved(s)
        PROVE  LeaveInv'
    BY <1>3 DEF RemoveApproved
  <1>4. ASSUME NEW c \in Callers,
               \/ Accept(c) \/ Disconnect(c) \/ ProjectSent(c) \/ ShutdownRejected(c) \/ TaskStep(c)
               \/ OtherRequest(c)
               \/ \E s \in Slots \cup {NoSlot} : Initialize(c, s) \/ AcceptHttp(c, s)
               \/ \E T \in SUBSET Slots : SendMessage(c, T)
               \/ \E t \in Slots : SendOne(c, t) \/ ShutdownAgent(c, t)
               \/ SendFails(c) \/ CommitSent(c)
               \/ \E o \in Slots \cup {NoOwner}, deps \in SUBSET (1..MaxTasks) : TaskCreate(c, o, deps)
               \/ \E t \in TaskIds, u \in Updates : TaskUpdate(c, t, u)
        PROVE  UNCHANGED <<roster, removal, approved>>
    BY <1>4 DEF Accept, Disconnect, ProjectSent, ShutdownRejected, TaskStep, toolVars, Initialize,
                AcceptHttp, SendMessage, SendOne, SendFails, CommitSent, ShutdownAgent, TaskCreate,
                TaskUpdate, OtherRequest
  <1>5. ASSUME StopServer \/ \E s \in Slots : WakeStep(s)
        PROVE  UNCHANGED <<roster, removal, approved>>
    BY <1>5 DEF StopServer, WakeStep, Recovers, WakeLeader, RecoveryDrain, CommitEarly, Peek,
       Claim, Mirror, EndWake
  <1>. QED BY <1>1, <1>2, <1>3, <1>4, <1>5 DEF Next, WakeStep, Recovers

\* No tool call removes the lead, or a teammate that has not sent
\* shutdown_approved itself, whatever connections do at the same time.
THEOREM OnlyVolunteersEverLeave == Spec => []OnlyVolunteersLeave
  <1>1. Init => LeaveInv
    BY DEF Init, LeaveInv, OnlyVolunteersLeave
  <1>2. LeaveInv => OnlyVolunteersLeave
    BY DEF LeaveInv
  <1>. QED BY <1>1, <1>2, LeaveNextInv, PTL DEF Spec

-----------------------------------------------------------------------------
(* The types of connections and of the rows of the mailbox.                 *)

Connections == [st : {"Free", "Open", "Ready", "Once", "Closed"}, slot : Slots \cup {NoSlot}]
MailRows    == [to : Slots, from : Slots \cup {NoSlot}, kind : Kinds, read : BOOLEAN]

RowsInv ==
    /\ conn \in [Callers -> Connections]
    /\ mail \in Seq(MailRows)

\* A row that is written has its type.
LEMMA WriteRowInv ==
    ASSUME RowsInv, NEW to \in Slots, NEW from \in Slots \cup {NoSlot}, NEW kind \in Kinds,
           WriteRow(to, from, kind)
    PROVE  mail' \in Seq(MailRows)
  <1>1. Row(to, from, kind) \in MailRows
    BY DEF Row, MailRows
  <1>. QED BY <1>1 DEF WriteRow, RowsInv

\* Marking rows as read changes nothing else of them.
LEMMA MarkReadInv ==
    ASSUME RowsInv, NEW rows, MarkRead(rows)
    PROVE  /\ mail' \in Seq(MailRows) /\ Len(mail') = Len(mail)
           /\ \A r \in Rows : /\ mail'[r].to = mail[r].to /\ mail'[r].from = mail[r].from
                              /\ mail'[r].kind = mail[r].kind
  <1>1. mail \in [1..Len(mail) -> MailRows] /\ Len(mail) \in Nat
    BY LenProperties DEF RowsInv
  <1>2. mail' \in [1..Len(mail) -> MailRows]
    BY <1>1 DEF MarkRead, MailRows, Rows
  <1>3. mail' \in Seq(MailRows) /\ Len(mail') = Len(mail)
    BY <1>1, <1>2
  <1>4. ASSUME NEW r \in Rows
        PROVE  mail'[r].to = mail[r].to /\ mail'[r].from = mail[r].from /\ mail'[r].kind = mail[r].kind
    <2>1. mail'[r] = mail[r] \/ mail'[r] = [mail[r] EXCEPT !.read = TRUE]
      BY DEF MarkRead, Rows
    <2>2. mail[r] \in MailRows
      BY <1>1 DEF Rows
    <2>. QED BY <2>1, <2>2 DEF MailRows
  <1>. QED BY <1>3, <1>4

\* A step of the server keeps connections and rows as they should be.
LEMMA RowsNextInv == RowsInv /\ [Next]_allVars => RowsInv'
  <1> SUFFICES ASSUME RowsInv, [Next]_allVars PROVE RowsInv'
    OBVIOUS
  <1>1. CASE UNCHANGED allVars
    BY <1>1 DEF allVars, toolVars, mailVars, RowsInv
  <1>2. ASSUME NEW c \in Callers, NEW s \in Slots \cup {NoSlot},
               Accept(c) \/ Disconnect(c) \/ Initialize(c, s) \/ AcceptHttp(c, s)
        PROVE  RowsInv'
    BY <1>2 DEF Accept, Disconnect, Initialize, AcceptHttp, RowsInv, Connections, mailVars
  <1>3. ASSUME NEW c \in Callers, NextRequest(c)
        PROVE  conn' \in [Callers -> Connections]
    BY <1>3 DEF NextRequest, RowsInv, Connections
  <1>4. ASSUME NEW c \in Callers,
               \/ ShutdownApproved(c) \/ OtherRequest(c)
               \/ \E T \in SUBSET Slots : SendMessage(c, T)
               \/ \E o \in Slots \cup {NoOwner}, deps \in SUBSET (1..MaxTasks) : TaskCreate(c, o, deps)
               \/ \E t \in TaskIds, u \in Updates : TaskUpdate(c, t, u)
        PROVE  RowsInv'
    <2>1. NextRequest(c) /\ mail' = mail
      BY <1>4 DEF ShutdownApproved, SendMessage, TaskCreate, TaskUpdate, OtherRequest,
         BeginRequest, mailVars
    <2>. QED BY <1>3, <2>1 DEF RowsInv
  <1>5. ASSUME NEW c \in Callers, NEW t \in Slots, ShutdownAgent(c, t) \/ ShutdownRejected(c)
        PROVE  RowsInv'
    <2>1. NextRequest(c)
      BY <1>5 DEF ShutdownAgent, ShutdownRejected, BeginRequest
    <2>2. conn[c].slot \in Slots \cup {NoSlot} /\ Lead \in Slots
          /\ "shutdown_request" \in Kinds /\ "shutdown_rejected" \in Kinds
      BY ToolAssumption DEF RowsInv, Connections, Kinds
    <2>3. \/ WriteRow(t, conn[c].slot, "shutdown_request")
          \/ WriteRow(Lead, conn[c].slot, "shutdown_rejected")
      BY <1>5 DEF ShutdownAgent, RequestShutdown, ShutdownRejected
    <2>4. mail' \in Seq(MailRows)
      BY <2>2, <2>3, WriteRowInv
    <2>. QED BY <1>3, <2>1, <2>4 DEF RowsInv
  <1>6. ASSUME NEW c \in Callers, NEW t \in Slots, SendOne(c, t)
        PROVE  RowsInv'
    <2>1. conn[c].slot \in Slots \cup {NoSlot} /\ "message" \in Kinds
      BY DEF RowsInv, Connections, Kinds
    <2>2. WriteRow(t, conn[c].slot, "message") /\ conn' = conn
      BY <1>6 DEF SendOne
    <2>. QED BY <2>1, <2>2, WriteRowInv DEF RowsInv
  <1>7. ASSUME \/ \E c \in Callers : CommitSent(c)
               \/ \E s \in Slots, x \in BOOLEAN : EndWake(s, x)
               \/ \E s \in Slots : Recovers(s)
        PROVE  RowsInv'
    <2>1. conn' = conn /\ (mail' = mail \/ \E rows : MarkRead(rows))
      BY <1>7 DEF CommitSent, EndWake, Recovers, WakeLeader, RecoveryDrain, CommitEarly
    <2>. QED BY <2>1, MarkReadInv DEF RowsInv
  <1>8. ASSUME \/ StopServer
               \/ \E c \in Callers : TaskStep(c) \/ SendFails(c) \/ ProjectSent(c)
               \/ \E s \in Slots \cup {NoSlot} : RemoveApproved(s)
               \/ \E s \in Slots : Peek(s) \/ Claim(s) \/ Mirror(s)
        PROVE  UNCHANGED <<conn, mail>>
    BY <1>8 DEF StopServer, TaskStep, toolVars, mailVars, SendFails, ProjectSent, RemoveApproved,
                Peek, Claim, Mirror
  <1>9. Slots # {}
    BY ToolAssumption
  <1>10. CASE Next
    <2>1. CASE \E c \in Callers, s \in Slots \cup {NoSlot} :
                  Accept(c) \/ Disconnect(c) \/ Initialize(c, s) \/ AcceptHttp(c, s)
      BY <1>2, <2>1
    <2>2. CASE \E c \in Callers : ShutdownRejected(c)
      BY <1>5, <1>9, <2>2
    <2>3. CASE UNCHANGED <<conn, mail>>
      BY <2>3 DEF RowsInv
    <2>. QED BY <1>4, <1>5, <1>6, <1>7, <1>8, <1>9, <1>10, <2>1, <2>2, <2>3 DEF Next, Recovers
  <1>. QED BY <1>1, <1>10

-----------------------------------------------------------------------------
(* Wake summaries: what they show of any board whose rows have their types. *)

\* The tasks of a board of typed rows are active, completed or deleted.
LEMMA BoardParts ==
  ASSUME BoardTypeOK
  PROVE  /\ DOMAIN tasks = TaskIds /\ IsFiniteSet(TaskIds)
         /\ \A t \in TaskIds : /\ tasks[t].status \in Statuses
                               /\ tasks[t].owner \in Slots \cup {NoOwner}
  <1>1. Len(tasks) \in Nat /\ DOMAIN tasks = 1..Len(tasks)
    BY LenProperties DEF BoardTypeOK
  <1>2. IsFiniteSet(1..Len(tasks))
    BY <1>1, FS_Interval
  <1>3. \A t \in 1..Len(tasks) : tasks[t] \in TaskRows
    BY ElementOfSeq DEF BoardTypeOK
  <1>. QED BY <1>1, <1>2, <1>3 DEF TaskIds, TaskRows

\* "Sort, then take n": all of the candidates, or n that come before the others.
LEMMA FirstOnes ==
  ASSUME NEW S, IsFiniteSet(S), NEW n \in Nat, NEW rank, NEW R \in FirstOf(S, n, rank)
  PROVE  /\ R \subseteq S /\ IsFiniteSet(R) /\ Cardinality(R) \in Nat /\ Cardinality(R) <= n
         /\ R = S \/ Cardinality(R) = n
         /\ \A r \in R, h \in S \ R : rank[r] <= rank[h]
  <1>1. Cardinality(S) \in Nat
    BY FS_CardinalityType
  <1>2. CASE Cardinality(S) <= n
    <2>1. R = S
      BY <1>2 DEF FirstOf
    <2>. QED BY <1>1, <1>2, <2>1
  <1>3. CASE ~(Cardinality(S) <= n)
    <2>1. /\ R \subseteq S /\ Cardinality(R) = n
          /\ \A r \in R, h \in S \ R : rank[r] <= rank[h]
      BY <1>3 DEF FirstOf
    <2>2. IsFiniteSet(R)
      BY <2>1, FS_Subset
    <2>. QED BY <2>1, <2>2
  <1>. QED BY <1>2, <1>3

\* A summary: first active tasks by their rank, then completed ones if there is room.
LEMMA SelectionParts ==
  ASSUME BoardTypeOK, NEW S \in SUBSET TaskIds, NEW agent, NEW isLead,
         NEW shown \in Selections(tasks, S, agent, isLead)
  PROVE  \E own, A, C :
           /\ own = OwnActive(tasks, S, agent)
           /\ shown = A \cup C
           /\ A \in FirstOf(ActiveRows(tasks, S, own, isLead), MaxWakeTaskRows, RankOf(tasks, S, own))
           /\ A \subseteq ActiveOf(tasks, S) /\ C \subseteq CompletedOf(tasks, S)
           /\ IsFiniteSet(A) /\ IsFiniteSet(C)
           /\ Cardinality(A) \in Nat /\ Cardinality(C) \in Nat
           /\ Cardinality(A) + Cardinality(C) <= MaxWakeTaskRows
  <1>1. PICK own : own = OwnActive(tasks, S, agent)
    OBVIOUS
  <1>2. PICK most, none, A, C :
          /\ most \in Nat
          /\ shown = A \cup C
          /\ A \in FirstOf(ActiveRows(tasks, S, own, isLead), MaxWakeTaskRows, RankOf(tasks, S, own))
          /\ C \in FirstOf(CompletedRows(tasks, S, agent, isLead),
                           Smaller(most, MaxWakeTaskRows - Cardinality(A)), none)
    BY <1>1, SummaryAssumption DEF Selections
  <1>3. IsFiniteSet(S)
    BY BoardParts, FS_Subset
  <1>4. /\ ActiveRows(tasks, S, own, isLead) \subseteq ActiveOf(tasks, S)
        /\ CompletedRows(tasks, S, agent, isLead) \subseteq CompletedOf(tasks, S)
        /\ ActiveOf(tasks, S) \subseteq S /\ CompletedOf(tasks, S) \subseteq S
    BY DEF ActiveRows, CompletedRows, ActiveOf, CompletedOf
  <1>5. IsFiniteSet(ActiveRows(tasks, S, own, isLead)) /\ IsFiniteSet(CompletedRows(tasks, S, agent, isLead))
    <2>1. ActiveRows(tasks, S, own, isLead) \in SUBSET S /\ CompletedRows(tasks, S, agent, isLead) \in SUBSET S
      BY <1>4
    <2>. QED BY <1>3, <2>1, FS_Subset
  <1>6. /\ A \subseteq ActiveRows(tasks, S, own, isLead) /\ IsFiniteSet(A)
        /\ Cardinality(A) \in Nat /\ Cardinality(A) <= MaxWakeTaskRows
    BY <1>2, <1>5, FirstOnes, SummaryAssumption
  <1>7. Smaller(most, MaxWakeTaskRows - Cardinality(A)) \in Nat
        /\ Smaller(most, MaxWakeTaskRows - Cardinality(A)) <= MaxWakeTaskRows - Cardinality(A)
    BY <1>2, <1>6, SummaryAssumption DEF Smaller
  <1>8. /\ C \subseteq CompletedRows(tasks, S, agent, isLead) /\ IsFiniteSet(C)
        /\ Cardinality(C) \in Nat /\ Cardinality(C) <= Smaller(most, MaxWakeTaskRows - Cardinality(A))
    BY <1>2, <1>5, <1>7, FirstOnes
  <1>9. Cardinality(A) + Cardinality(C) <= MaxWakeTaskRows
    BY <1>6, <1>7, <1>8, SummaryAssumption
  <1>10. A \subseteq ActiveOf(tasks, S) /\ C \subseteq CompletedOf(tasks, S)
    BY <1>4, <1>6, <1>8
  <1>. QED BY <1>1, <1>2, <1>6, <1>8, <1>9, <1>10

\* Sets that have nothing in common.
LEMMA DisjointUnion ==
  ASSUME NEW S, NEW T, IsFiniteSet(S), IsFiniteSet(T), S \cap T = {}
  PROVE  /\ IsFiniteSet(S \cup T) /\ Cardinality(S \cup T) = Cardinality(S) + Cardinality(T)
         /\ Cardinality(S) \in Nat /\ Cardinality(T) \in Nat
  BY FS_Union, FS_EmptySet, FS_CardinalityType

\* What is left of a set without a part of it.
LEMMA RestOf ==
  ASSUME NEW S, IsFiniteSet(S), NEW T \in SUBSET S
  PROVE  /\ IsFiniteSet(S \ T) /\ Cardinality(S \ T) = Cardinality(S) - Cardinality(T)
         /\ Cardinality(S) \in Nat /\ Cardinality(T) \in Nat
  <1>1. IsFiniteSet(T) /\ IsFiniteSet(S \ T)
    BY FS_Subset
  <1>2. PICK U : U = S \ T
    OBVIOUS
  <1>3. T \cup U = S /\ T \cap U = {} /\ IsFiniteSet(U)
    BY <1>1, <1>2
  <1>4. /\ Cardinality(T \cup U) = Cardinality(T) + Cardinality(U)
        /\ Cardinality(T) \in Nat /\ Cardinality(U) \in Nat
    BY <1>1, <1>3, DisjointUnion
  <1>5. Cardinality(S) = Cardinality(T) + Cardinality(U)
    BY <1>3, <1>4
  <1>. QED BY <1>1, <1>2, <1>4, <1>5

\* team_task_list with a filter by status gives the tasks with these states.
LEMMA ListByStatus ==
  ASSUME BoardTypeOK, NEW statuses, statuses # {}
  PROVE  TaskList(Filters(Slots \cup {NoOwner}, statuses, FALSE)) = {t \in TaskIds : tasks[t].status \in statuses}
  BY BoardParts DEF TaskList, Filters

\* What a summary shows and what it counts make up the board.
LEMMA CountsOfSummary ==
  ASSUME BoardTypeOK, NEW visible \in SUBSET TaskIds, NEW agent, NEW isLead,
         NEW shown \in Selections(tasks, visible, agent, isLead)
  PROVE  /\ CountsAddUp(tasks, visible, shown)
         /\ Hidden(tasks, visible, shown) =
              [active    |-> NotShown({"pending", "in_progress"}, shown),
               completed |-> NotShown({"completed"}, shown),
               deleted   |-> NotShown({"deleted"}, shown)]
  <1>1. PICK A, C : /\ shown = A \cup C
                    /\ A \subseteq ActiveOf(tasks, visible) /\ C \subseteq CompletedOf(tasks, visible)
                    /\ IsFiniteSet(A) /\ IsFiniteSet(C)
    BY SelectionParts
  <1>2. PICK X, Y, Z : /\ X = {t \in TaskIds : tasks[t].status \in {"pending", "in_progress"}}
                       /\ Y = {t \in TaskIds : tasks[t].status \in {"completed"}}
                       /\ Z = {t \in TaskIds : tasks[t].status \in {"deleted"}}
    OBVIOUS
  <1>3. /\ X = ActiveOf(tasks, DOMAIN tasks) /\ Y = CompletedOf(tasks, DOMAIN tasks)
        /\ Z = {t \in DOMAIN tasks : tasks[t].status = "deleted"}
    BY <1>2, BoardParts DEF ActiveOf, IsActive, CompletedOf
  <1>4. /\ X \cup Y \cup Z = TaskIds /\ X \cap Y = {} /\ (X \cup Y) \cap Z = {}
    BY <1>2, BoardParts DEF Statuses
  <1>5. A \subseteq X /\ C \subseteq Y
    BY <1>1, <1>2 DEF ActiveOf, IsActive, CompletedOf
  <1>6. /\ A \cap C = {} /\ CompletedOf(tasks, shown) = C
        /\ X \ shown = X \ A /\ Y \ shown = Y \ C /\ Z \ shown = Z
    BY <1>1, <1>2, <1>4, <1>5 DEF CompletedOf
  <1>7. IsFiniteSet(X) /\ IsFiniteSet(Y) /\ IsFiniteSet(Z)
    <2>1. X \in SUBSET TaskIds /\ Y \in SUBSET TaskIds /\ Z \in SUBSET TaskIds
      BY <1>2
    <2>. QED BY <2>1, BoardParts, FS_Subset
  <1>8. Cardinality(X \cup Y) = Cardinality(X) + Cardinality(Y) /\ IsFiniteSet(X \cup Y)
    BY <1>4, <1>7, DisjointUnion
  <1>9. /\ Cardinality(TaskIds) = Cardinality(X) + Cardinality(Y) + Cardinality(Z)
        /\ Cardinality(X) \in Nat /\ Cardinality(Y) \in Nat /\ Cardinality(Z) \in Nat
    BY <1>4, <1>7, <1>8, DisjointUnion
  <1>10. /\ Cardinality(X \ A) = Cardinality(X) - Cardinality(A)
         /\ Cardinality(Y \ C) = Cardinality(Y) - Cardinality(C)
    BY <1>5, <1>7, RestOf
  <1>11. /\ Cardinality(shown) = Cardinality(A) + Cardinality(C)
         /\ Cardinality(A) \in Nat /\ Cardinality(C) \in Nat
    BY <1>1, <1>6, DisjointUnion
  <1>12. PICK h : h = Hidden(tasks, visible, shown)
    OBVIOUS
  <1>13. h = [active |-> Cardinality(X \ A), completed |-> Cardinality(Y) - Cardinality(C),
              deleted |-> Cardinality(Z)]
    BY <1>3, <1>6, <1>12 DEF Hidden
  <1>14. Cardinality(shown) + h.active + h.completed + h.deleted = Cardinality(TaskIds)
    <2>1. /\ h.active = Cardinality(X) - Cardinality(A) /\ h.completed = Cardinality(Y) - Cardinality(C)
          /\ h.deleted = Cardinality(Z)
      BY <1>10, <1>13
    <2>. QED BY <1>9, <1>11, <2>1
  <1>15. /\ NotShown({"pending", "in_progress"}, shown) = Cardinality(X \ A)
         /\ NotShown({"completed"}, shown) = Cardinality(Y \ C)
         /\ NotShown({"deleted"}, shown) = Cardinality(Z)
    BY <1>2, <1>6, ListByStatus DEF NotShown
  <1>16. CountsAddUp(tasks, visible, shown)
    BY <1>12, <1>14, BoardParts DEF CountsAddUp
  <1>. QED BY <1>10, <1>12, <1>13, <1>15, <1>16

\* A board always has its types (module TaskBoardProofs).
LEMMA BoardIsTyped == Spec => []BoardTypeOK
  BY ToolServerImplementsBoard, BoardTyped, PTL

\* The counts of every summary add up to the board, and agree with what
\* team_task_list gives for the states it counts, for any board and any limits.
THEOREM SummariesAddUp == Spec => []SummaryCountsAddUp
  <1>1. BoardTypeOK => SummaryCountsAddUp
    <2> SUFFICES ASSUME BoardTypeOK, NEW visible, visible = FilterSummaryInput(tasks, roster, NoOwner),
                        NEW s \in roster, NEW shown \in SummariesOf(s)
                 PROVE  /\ CountsAddUp(tasks, visible, shown)
                        /\ Hidden(tasks, visible, shown) =
                             [active    |-> NotShown({"pending", "in_progress"}, shown),
                              completed |-> NotShown({"completed"}, shown),
                              deleted   |-> NotShown({"deleted"}, shown)]
      BY DEF SummaryCountsAddUp
    <2>1. visible \in SUBSET TaskIds
      BY BoardParts DEF FilterSummaryInput
    <2>2. shown \in Selections(tasks, visible, s, s = Lead)
      BY DEF SummariesOf
    <2>. QED BY <2>1, <2>2, CountsOfSummary
  <1>. QED BY <1>1, BoardIsTyped, PTL

\* Ranks: own tasks before those they wait for, and these before the others.
LEMMA Ranked ==
  ASSUME NEW S, NEW own, NEW t \in S
  PROVE  /\ t \in own => RankOf(tasks, S, own)[t] \in {0, 1}
         /\ t \in Blockers(tasks, own) \ own => RankOf(tasks, S, own)[t] \in {2, 3}
         /\ t \notin own \cup Blockers(tasks, own) => RankOf(tasks, S, own)[t] \in {4, 5, 6, 9}
  BY DEF RankOf

\* If a candidate that is ranked before all others of W is hidden, only W is shown.
LEMMA ShownFirst ==
  ASSUME NEW S, IsFiniteSet(S), NEW rank, NEW A \in FirstOf(S, MaxWakeTaskRows, rank),
         NEW C, IsFiniteSet(C), Cardinality(C) \in Nat,
         Cardinality(A) + Cardinality(C) <= MaxWakeTaskRows,
         NEW W \in SUBSET S, \A r \in S \ W, w \in W : ~(rank[r] <= rank[w])
  PROVE  W \subseteq A \/ (C = {} /\ A \subseteq W /\ Cardinality(A) = MaxWakeTaskRows)
  <1> SUFFICES ASSUME NEW h \in W, h \notin A
               PROVE  C = {} /\ A \subseteq W /\ Cardinality(A) = MaxWakeTaskRows
    OBVIOUS
  <1>1. /\ A \subseteq S /\ (A = S \/ Cardinality(A) = MaxWakeTaskRows)
        /\ \A r \in A, g \in S \ A : rank[r] <= rank[g]
    BY FirstOnes, SummaryAssumption
  <1>2. A \subseteq W
    BY <1>1
  <1>3. Cardinality(A) = MaxWakeTaskRows
    BY <1>1
  <1>4. Cardinality(C) = 0
    BY <1>3, SummaryAssumption
  <1>. QED BY <1>2, <1>3, <1>4, FS_EmptySet

\* The filter keeps the active tasks of a member of the team, and what they wait for.
LEMMA FilterKeeps ==
  ASSUME BoardTypeOK, NEW s \in roster, NEW S, S = FilterSummaryInput(tasks, roster, NoOwner),
         NEW own, own = OwnActive(tasks, DOMAIN tasks, s)
  PROVE  /\ S \in SUBSET TaskIds /\ OwnActive(tasks, S, s) = own /\ own \subseteq ActiveOf(tasks, S)
         /\ ActiveOf(tasks, DOMAIN tasks) \cap Blockers(tasks, own) \subseteq ActiveOf(tasks, S)
  <1>1. S \in SUBSET TaskIds
    BY BoardParts DEF FilterSummaryInput
  <1>2. own \subseteq S
    BY DEF FilterSummaryInput, OwnActive, ActiveOf, CurrentOrOwnerless
  <1>3. ActiveOf(tasks, DOMAIN tasks) \cap Blockers(tasks, own) \subseteq S
    <2> SUFFICES ASSUME NEW t \in DOMAIN tasks, IsActive(tasks, t), NEW o \in own, t \in tasks[o].blockedBy
                 PROVE  t \in S
      BY DEF Blockers, ActiveOf
    <2>1. o \in DOMAIN tasks /\ IsActive(tasks, o) /\ tasks[o].owner = s
      BY DEF OwnActive, ActiveOf
    <2>2. CurrentOrOwnerless(tasks, o, roster, NoOwner)
      BY <2>1 DEF CurrentOrOwnerless
    <2>. QED BY <2>1, <2>2 DEF FilterSummaryInput, ActiveOf
  <1>4. OwnActive(tasks, S, s) = own
    BY <1>1, <1>2, BoardParts DEF OwnActive, ActiveOf
  <1>. QED BY <1>1, <1>2, <1>3, <1>4 DEF OwnActive, ActiveOf

\* Every summary shows the active tasks of the agent first, and what they wait for
\* next, whatever the board, the roster and the limits are.
THEOREM SummariesShowWhatMatters == Spec => []SummaryShowsWhatMatters
  <1>1. BoardTypeOK => SummaryShowsWhatMatters
    <2> SUFFICES ASSUME BoardTypeOK, NEW s \in roster, NEW shown \in SummariesOf(s)
                 PROVE  ShowsWhatMatters(tasks, s, shown)
      BY DEF SummaryShowsWhatMatters
    <2>1. PICK S, own, wanted :
             /\ S = FilterSummaryInput(tasks, roster, NoOwner)
             /\ own = OwnActive(tasks, DOMAIN tasks, s)
             /\ wanted = ActiveOf(tasks, DOMAIN tasks) \cap (own \cup Blockers(tasks, own))
      OBVIOUS
    <2>2. /\ S \in SUBSET TaskIds /\ OwnActive(tasks, S, s) = own /\ own \subseteq ActiveOf(tasks, S)
          /\ ActiveOf(tasks, DOMAIN tasks) \cap Blockers(tasks, own) \subseteq ActiveOf(tasks, S)
      BY <2>1, FilterKeeps
    <2>3. PICK lead : lead = (s = Lead) /\ shown \in Selections(tasks, S, s, lead)
      BY <2>1 DEF SummariesOf
    <2>4. PICK A, C :
             /\ shown = A \cup C
             /\ A \in FirstOf(ActiveRows(tasks, S, own, lead), MaxWakeTaskRows, RankOf(tasks, S, own))
             /\ IsFiniteSet(A) /\ IsFiniteSet(C)
             /\ Cardinality(A) \in Nat /\ Cardinality(C) \in Nat
             /\ Cardinality(A) + Cardinality(C) <= MaxWakeTaskRows
      <3>1. S \in SUBSET TaskIds /\ shown \in Selections(tasks, S, s, lead)
        BY <2>2, <2>3
      <3>2. \E w, A, C :
              /\ w = OwnActive(tasks, S, s)
              /\ shown = A \cup C
              /\ A \in FirstOf(ActiveRows(tasks, S, w, lead), MaxWakeTaskRows, RankOf(tasks, S, w))
              /\ A \subseteq ActiveOf(tasks, S) /\ C \subseteq CompletedOf(tasks, S)
              /\ IsFiniteSet(A) /\ IsFiniteSet(C)
              /\ Cardinality(A) \in Nat /\ Cardinality(C) \in Nat
              /\ Cardinality(A) + Cardinality(C) <= MaxWakeTaskRows
        BY <3>1, SelectionParts
      <3>. QED BY <2>2, <3>2, Zenon
    <2>5. PICK R, rank : R = ActiveRows(tasks, S, own, lead) /\ rank = RankOf(tasks, S, own)
      OBVIOUS
    <2>6. /\ R \in SUBSET S /\ own \in SUBSET R /\ wanted \in SUBSET R
          /\ R \cap (own \cup Blockers(tasks, own)) \subseteq wanted
      <3>1. own \subseteq ActiveOf(tasks, DOMAIN tasks) /\ ActiveOf(tasks, S) \subseteq ActiveOf(tasks, DOMAIN tasks)
        BY <2>1, <2>2, BoardParts DEF OwnActive, ActiveOf
      <3>2. /\ R \subseteq ActiveOf(tasks, S)
            /\ ActiveOf(tasks, S) \cap (own \cup Blockers(tasks, own)) \subseteq R
        BY <2>5 DEF ActiveRows
      <3>3. ActiveOf(tasks, S) \subseteq S
        BY DEF ActiveOf
      <3>. QED BY <2>1, <2>2, <3>1, <3>2, <3>3
    <2>7. IsFiniteSet(R)
      <3>1. R \in SUBSET TaskIds
        BY <2>2, <2>6
      <3>. QED BY <3>1, BoardParts, FS_Subset
    <2>8. \A r \in R \ own, w \in own : ~(rank[r] <= rank[w])
      BY <2>5, <2>6, Ranked
    <2>9. \A r \in R \ wanted, w \in wanted : ~(rank[r] <= rank[w])
      <3>1. wanted \subseteq own \cup Blockers(tasks, own)
        BY <2>1
      <3>. QED BY <2>5, <2>6, <3>1, Ranked
    <2>10. own \subseteq A \/ (C = {} /\ A \subseteq own /\ Cardinality(A) = MaxWakeTaskRows)
      BY <2>4, <2>5, <2>6, <2>7, <2>8, ShownFirst
    <2>11. wanted \subseteq A \/ (C = {} /\ A \subseteq wanted /\ Cardinality(A) = MaxWakeTaskRows)
      BY <2>4, <2>5, <2>6, <2>7, <2>9, ShownFirst
    <2>12. Cardinality(shown) <= MaxWakeTaskRows
      <3>1. Cardinality(shown) <= Cardinality(A) + Cardinality(C)
        <4>1. PICK I : I = A \cap C
          OBVIOUS
        <4>2. IsFiniteSet(I) /\ Cardinality(I) \in Nat
          BY <2>4, <4>1, FS_Subset, FS_CardinalityType
        <4>3. Cardinality(shown) = Cardinality(A) + Cardinality(C) - Cardinality(I)
          BY <2>4, <4>1, FS_Union
        <4>. QED BY <2>4, <4>2, <4>3
      <3>2. Cardinality(shown) \in Nat
        BY <2>4, FS_Union, FS_CardinalityType
      <3>. QED BY <2>4, <3>1, <3>2, SummaryAssumption
    <2>13. C = {} => shown = A
      BY <2>4
    <2>. QED BY <2>1, <2>4, <2>10, <2>11, <2>12, <2>13 DEF ShowsWhatMatters
  <1>. QED BY <1>1, BoardIsTyped, PTL


-----------------------------------------------------------------------------
(* Types, and who a row of the mailbox comes from.                          *)

\* The row m of the mailbox comes from somebody who may send it.
Sender(m) ==
    /\ m.from \in Slots \cup (IF m.to = Lead THEN {NoSlot} ELSE {})
    /\ m.kind = "shutdown_request" => m.from = Lead /\ m.to # Lead

Projections == [pc : {"none", "find", "insert", "commit"}, row : Nat]
Sends       == [todo : SUBSET Slots, proj : Projections]
Wakes       == [seen : SUBSET Nat, rows : SUBSET Nat, todo : SUBSET Nat, proj : Projections]

\* What a connection projects was written.
SendOK(d) == d.proj.pc # "none" => d.proj.row \in Rows

\* A wake has seen and claimed rows that were written, and projects such rows.
WakeOK(d) == d.todo \subseteq d.rows /\ d.seen \cup d.rows \subseteq Rows

SendInv == send \in [Callers -> Sends] /\ \A c \in Callers : SendOK(send[c])
WakeInv == wake \in [Slots -> Wakes] /\ \A s \in Slots : WakeOK(wake[s])
MailInv == \A r \in Rows : Sender(mail[r])

ToolInv ==
    /\ RowsInv
    /\ roster \subseteq Slots
    /\ bubbles \cup committed \subseteq Rows
    /\ SendInv /\ WakeInv /\ MailInv

\* A row that is written leaves the others as they are.
LEMMA WriteRowSent ==
  ASSUME RowsInv, MailInv, NEW to \in Slots, NEW from \in Slots \cup {NoSlot}, NEW kind \in Kinds,
         WriteRow(to, from, kind),
         from \in Slots \/ to = Lead,
         kind = "shutdown_request" => from = Lead /\ to # Lead
  PROVE  /\ MailInv' /\ Len(mail') = Len(mail) + 1 /\ Len(mail) \in Nat
         /\ \A r \in Rows : mail'[r] = mail[r]
  <1>1. PICK m \in MailRows : m = Row(to, from, kind)
    BY DEF Row, MailRows
  <1>2. Sender(m)
    BY <1>1 DEF Row, Sender
  <1>3. mail \in Seq(MailRows) /\ mail' = Append(mail, m)
    BY <1>1 DEF RowsInv, WriteRow
  <1>4. /\ Len(mail) \in Nat /\ Len(mail') = Len(mail) + 1 /\ mail'[Len(mail) + 1] = m
        /\ \A r \in 1..Len(mail) : mail'[r] = mail[r]
    BY <1>3
  <1>5. ASSUME NEW r \in 1..Len(mail')
        PROVE  Sender(mail'[r])
    <2>1. r \in 1..Len(mail) \/ r = Len(mail) + 1
      BY <1>4
    <2>. QED BY <1>2, <1>4, <2>1 DEF MailInv, Rows
  <1>. QED BY <1>4, <1>5 DEF MailInv, Rows, Sender

\* The mailbox only grows, its rows keep their kind and come from those who may send them.
LEMMA MailStep ==
  ASSUME ToolInv, [Next]_allVars
  PROVE  /\ MailInv' /\ Len(mail) \in Nat /\ Len(mail') \in Nat /\ Len(mail) <= Len(mail')
         /\ Rows \subseteq Rows'
         /\ \A r \in Rows : mail'[r].kind = mail[r].kind
  <1>1. Len(mail) \in Nat /\ RowsInv /\ MailInv /\ roster \subseteq Slots
    BY LenProperties DEF ToolInv, RowsInv
  <1>2. SUFFICES \/ UNCHANGED mail
                 \/ /\ MailInv' /\ Len(mail') \in Nat /\ Len(mail) <= Len(mail')
                    /\ \A r \in Rows : mail'[r].kind = mail[r].kind
    <2>1. CASE UNCHANGED mail
      BY <1>1, <2>1 DEF MailInv, Rows, Sender
    <2>2. ASSUME Len(mail') \in Nat, Len(mail) <= Len(mail')
          PROVE  Rows \subseteq Rows'
      BY <1>1, <2>2 DEF Rows
    <2>. QED BY <1>1, <1>2, <2>1, <2>2
  <1>3. "message" \in Kinds /\ "shutdown_request" \in Kinds /\ "shutdown_rejected" \in Kinds
        /\ Lead \in Slots /\ \A c \in Callers : conn[c].slot \in Slots \cup {NoSlot}
    BY <1>1, ToolAssumption DEF Kinds, RowsInv, Connections
  <1>4. ASSUME NEW c \in Callers, NEW t \in Slots, SendOne(c, t)
        PROVE  MailInv' /\ Len(mail') = Len(mail) + 1 /\ \A r \in Rows : mail'[r] = mail[r]
    <2>1. WriteRow(t, conn[c].slot, "message") /\ conn[c].slot \in Slots
      BY <1>1, <1>4 DEF SendOne
    <2>. QED BY <1>1, <1>3, <2>1, WriteRowSent
  <1>5. ASSUME NEW c \in Callers, NEW t \in Slots, ShutdownAgent(c, t)
        PROVE  MailInv' /\ Len(mail') = Len(mail) + 1 /\ \A r \in Rows : mail'[r] = mail[r]
    <2>1. WriteRow(t, Lead, "shutdown_request") /\ t # Lead
      BY <1>5 DEF ShutdownAgent, RequestShutdown, BeginRequest, Authorized, LeadOnlyTools, IsLead
    <2>2. Lead \in Slots \cup {NoSlot}
      BY <1>3
    <2>. QED BY <1>1, <1>3, <2>1, <2>2, WriteRowSent
  <1>6. ASSUME NEW c \in Callers, ShutdownRejected(c)
        PROVE  MailInv' /\ Len(mail') = Len(mail) + 1 /\ \A r \in Rows : mail'[r] = mail[r]
    <2>1. WriteRow(Lead, conn[c].slot, "shutdown_rejected")
      BY <1>6 DEF ShutdownRejected
    <2>. QED BY <1>1, <1>3, <2>1, WriteRowSent
  <1>7. ASSUME NEW rows, MarkRead(rows)
        PROVE  MailInv' /\ Len(mail') = Len(mail) /\ \A r \in Rows : mail'[r].kind = mail[r].kind
    BY <1>1, <1>7, MarkReadInv DEF MailInv, Rows, Sender
  <1>8. ASSUME \/ \E c \in Callers : CommitSent(c)
               \/ \E s \in Slots, x \in BOOLEAN : EndWake(s, x)
               \/ \E s \in Slots : Recovers(s)
        PROVE  UNCHANGED mail \/ \E rows : MarkRead(rows)
    BY <1>8 DEF CommitSent, EndWake, Recovers, WakeLeader, RecoveryDrain, CommitEarly
  <1>9. ASSUME NEW c \in Callers,
               \/ Accept(c) \/ Disconnect(c) \/ OtherRequest(c) \/ TaskStep(c) \/ ProjectSent(c)
               \/ ShutdownApproved(c) \/ SendFails(c)
               \/ \E s \in Slots \cup {NoSlot} : Initialize(c, s) \/ AcceptHttp(c, s)
               \/ \E T \in SUBSET Slots : SendMessage(c, T)
               \/ \E o \in Slots \cup {NoOwner}, deps \in SUBSET (1..MaxTasks) : TaskCreate(c, o, deps)
               \/ \E t \in TaskIds, u \in Updates : TaskUpdate(c, t, u)
        PROVE  UNCHANGED mail
    BY <1>9 DEF Accept, Disconnect, OtherRequest, TaskStep, toolVars, mailVars, ProjectSent,
                ShutdownApproved, Initialize, AcceptHttp, SendMessage, SendFails, TaskCreate,
                TaskUpdate
  <1>10. ASSUME \/ StopServer \/ UNCHANGED allVars
                \/ \E s \in Slots \cup {NoSlot} : RemoveApproved(s)
                \/ \E s \in Slots : Peek(s) \/ Claim(s) \/ Mirror(s)
         PROVE  UNCHANGED mail
    BY <1>10 DEF StopServer, allVars, toolVars, mailVars, RemoveApproved, Peek, Claim, Mirror
  <1>. QED BY <1>1, <1>4, <1>5, <1>6, <1>7, <1>8, <1>9, <1>10 DEF Next, Recovers

\* What a projection does to the messages of the conversations.
LEMMA ProjectStep ==
  ASSUME NEW p \in Projections, NEW next \in Projections, NEW q, Project(p, next, q)
  PROVE  /\ bubbles \subseteq bubbles' /\ bubbles' \subseteq bubbles \cup {p.row}
         /\ bubbles \cup unshown \subseteq bubbles' \cup unshown'
         /\ p.pc \in {"find", "insert"}
         /\ \/ q = Projection("insert", p.row)
            \/ q = next /\ p.row \in bubbles' \cup unshown'
  BY DEF Project, Found, InsertBubble

\* What a connection still has to send goes to slots, and what it projects was written.
LEMMA SendStep ==
  ASSUME ToolInv, [Next]_allVars
  PROVE  SendInv'
  <1>1. /\ send \in [Callers -> Sends] /\ roster \subseteq Slots
        /\ \A c \in Callers : SendOK(send[c])
        /\ Len(mail) \in Nat /\ Rows \subseteq Rows'
    BY MailStep DEF ToolInv, SendInv
  <1>2. ASSUME NEW c \in Callers, NEW d \in Sends, d.proj.pc = "none" \/ d.proj.row \in Rows',
               send' = [send EXCEPT ![c] = d]
        PROVE  SendInv'
    <2>1. send' \in [Callers -> Sends]
      BY <1>1, <1>2
    <2>2. ASSUME NEW u \in Callers
          PROVE  send'[u].proj.pc # "none" => send'[u].proj.row \in Rows'
      <3>1. send'[u] = IF u = c THEN d ELSE send[u]
        BY <1>1, <1>2
      <3>. QED BY <1>1, <1>2, <3>1 DEF SendOK
    <2>. QED BY <2>1, <2>2 DEF SendInv, SendOK
  <1>3. NotSending \in Sends /\ NoProjection \in Projections
        /\ NotSending.proj.pc = "none" /\ NoProjection.pc = "none"
    BY DEF NotSending, NoProjection, Projection, Projections, Sends
  <1>4. ASSUME NEW c \in Callers, NEW T \in SUBSET Slots, SendMessage(c, T)
        PROVE  SendInv'
    <2>1. PICK d : d = [send[c] EXCEPT !.todo = T]
      OBVIOUS
    <2>2. d \in Sends /\ d.proj = send[c].proj
      BY <1>1, <2>1 DEF Sends
    <2>3. send' = [send EXCEPT ![c] = d]
      BY <1>4, <2>1 DEF SendMessage
    <2>. QED BY <1>1, <1>2, <2>2, <2>3 DEF SendOK
  <1>5. ASSUME NEW c \in Callers, NEW t \in Slots, SendOne(c, t)
        PROVE  SendInv'
    <2>1. PICK d : d = [todo |-> send[c].todo \ {t}, proj |-> Projection("find", Len(mail'))]
      OBVIOUS
    <2>2. Len(mail') \in Nat /\ Len(mail') = Len(mail) + 1
      <3>1. mail \in Seq(MailRows)
        BY DEF ToolInv, RowsInv
      <3>. QED BY <1>1, <1>5, <3>1 DEF SendOne, WriteRow
    <2>3. d \in Sends /\ d.proj.row \in Rows'
      BY <1>1, <2>1, <2>2 DEF Projection, Projections, Sends, Rows
    <2>4. send' = [send EXCEPT ![c] = d]
      BY <1>5, <2>1 DEF SendOne
    <2>. QED BY <1>2, <2>3, <2>4
  <1>6. ASSUME NEW c \in Callers, send' = [send EXCEPT ![c] = NotSending]
        PROVE  SendInv'
    <2>1. PICK d \in Sends : d = NotSending
      BY <1>3
    <2>. QED BY <1>2, <1>3, <1>6, <2>1
  <1>7. ASSUME NEW c \in Callers, NEW p \in Projections, p.pc = "none" \/ p.row \in Rows,
               send' = [send EXCEPT ![c].proj = p]
        PROVE  SendInv'
    <2>1. PICK d : d = [send[c] EXCEPT !.proj = p]
      OBVIOUS
    <2>2. d \in Sends /\ d.proj = p
      BY <1>1, <2>1 DEF Sends
    <2>3. send' = [send EXCEPT ![c] = d]
      BY <1>7, <2>1
    <2>. QED BY <1>1, <1>2, <1>7, <2>2, <2>3
  <1>8. ASSUME NEW c \in Callers, ProjectSent(c)
        PROVE  SendInv'
    <2>1. send[c].proj \in Projections /\ Projection("commit", send[c].proj.row) \in Projections
      BY <1>1 DEF Sends, Projection, Projections
    <2>2. PICK q : /\ Project(send[c].proj, Projection("commit", send[c].proj.row), q)
                   /\ send' = [send EXCEPT ![c].proj = q]
      BY <1>8 DEF ProjectSent
    <2>3. /\ send[c].proj.pc # "none"
          /\ \E pc \in {"insert", "commit"} : q = Projection(pc, send[c].proj.row)
      BY <2>1, <2>2, ProjectStep
    <2>4. q \in Projections /\ q.row = send[c].proj.row
      BY <2>1, <2>3 DEF Projection, Projections
    <2>5. q.row \in Rows
      BY <1>1, <2>3, <2>4 DEF SendOK
    <2>. QED BY <1>7, <2>2, <2>4, <2>5
  <1>9. ASSUME NEW c \in Callers, CommitSent(c)
        PROVE  SendInv'
    <2>1. \/ send' = [send EXCEPT ![c].proj = NoProjection]
          \/ send' = [send EXCEPT ![c] = NotSending]
      BY <1>9 DEF CommitSent
    <2>. QED BY <1>3, <1>6, <1>7, <2>1
  <1>10. CASE UNCHANGED send
    BY <1>1, <1>10 DEF SendInv, SendOK
  <1>11. ASSUME NEW c \in Callers,
               \/ Accept(c) \/ Disconnect(c) \/ OtherRequest(c) \/ TaskStep(c) \/ ShutdownApproved(c)
               \/ ShutdownRejected(c)
               \/ \E s \in Slots \cup {NoSlot} : Initialize(c, s) \/ AcceptHttp(c, s)
               \/ \E t \in Slots : ShutdownAgent(c, t)
               \/ \E o \in Slots \cup {NoOwner}, deps \in SUBSET (1..MaxTasks) : TaskCreate(c, o, deps)
               \/ \E t \in TaskIds, u \in Updates : TaskUpdate(c, t, u)
        PROVE  UNCHANGED send
    BY <1>11 DEF Accept, Disconnect, OtherRequest, TaskStep, toolVars, mailVars, ShutdownApproved,
                 ShutdownRejected, Initialize, AcceptHttp, ShutdownAgent, TaskCreate, TaskUpdate
  <1>12. ASSUME \/ StopServer \/ UNCHANGED allVars
                \/ \E s \in Slots \cup {NoSlot} : RemoveApproved(s)
                \/ \E s \in Slots : WakeStep(s)
         PROVE  UNCHANGED send
    BY <1>12 DEF StopServer, allVars, toolVars, mailVars, RemoveApproved, WakeStep, Recovers,
       WakeLeader, RecoveryDrain, CommitEarly, Peek,
                 Claim, Mirror, EndWake
  <1>13. ASSUME NEW c \in Callers, SendFails(c)
         PROVE  SendInv'
    BY <1>6, <1>13 DEF SendFails
  <1>. QED BY <1>4, <1>5, <1>8, <1>9, <1>10, <1>11, <1>12, <1>13 DEF Next, WakeStep, Recovers

\* A step of Mirror: a row of the input is being projected, or has been.
LEMMA MirrorStep ==
  ASSUME WakeInv, NEW s \in Slots, Mirror(s)
  PROVE  \E row \in wake[s].todo, R \in SUBSET wake[s].todo, q \in Projections :
           /\ wake' = [wake EXCEPT ![s].proj = q, ![s].todo = R]
           /\ bubbles \subseteq bubbles' /\ bubbles' \subseteq bubbles \cup {row}
           /\ bubbles \cup unshown \subseteq bubbles' \cup unshown'
           /\ \/ R = wake[s].todo
              \/ R = wake[s].todo \ {row} /\ row \in bubbles' \cup unshown'
  <1>1. wake[s] \in Wakes /\ wake \in [Slots -> Wakes]
    BY DEF WakeInv
  <1>2. NoProjection \in Projections /\ NoProjection.pc = "none"
    BY DEF NoProjection, Projection, Projections
  <1>3. PICK row, q, p :
          /\ row \in wake[s].todo
          /\ p = Projection("find", row) \/ p = Projection("insert", row)
          /\ Project(p, NoProjection, q)
          /\ wake' = [wake EXCEPT ![s].proj = q,
                                  ![s].todo = IF q = NoProjection THEN @ \ {row} ELSE @]
    BY DEF Mirror
  <1>4. row \in Nat
    BY <1>1, <1>3 DEF Wakes
  <1>5. p \in Projections /\ p.row = row
    BY <1>3, <1>4 DEF Projection, Projections
  <1>6. /\ bubbles \subseteq bubbles' /\ bubbles' \subseteq bubbles \cup {row}
        /\ bubbles \cup unshown \subseteq bubbles' \cup unshown'
        /\ \/ q = Projection("insert", row)
           \/ q = NoProjection /\ row \in bubbles' \cup unshown'
    BY <1>2, <1>3, <1>5, ProjectStep
  <1>7. q \in Projections
    BY <1>2, <1>4, <1>6 DEF Projection, Projections
  <1>8. Projection("insert", row) # NoProjection
    BY DEF Projection, NoProjection
  <1>9. PICK R : R = IF q = NoProjection THEN wake[s].todo \ {row} ELSE wake[s].todo
    OBVIOUS
  <1>10. wake' = [wake EXCEPT ![s].proj = q, ![s].todo = R]
    BY <1>1, <1>3, <1>9
  <1>11. R \in SUBSET wake[s].todo
    BY <1>9
  <1>12. R = wake[s].todo \/ (R = wake[s].todo \ {row} /\ row \in bubbles' \cup unshown')
    BY <1>6, <1>8, <1>9
  <1>. QED BY <1>3, <1>6, <1>7, <1>10, <1>11, <1>12

\* What a wake has seen and claimed are rows of the mailbox.
LEMMA WakeStepInv ==
  ASSUME ToolInv, [Next]_allVars
  PROVE  WakeInv'
  <1>1. /\ wake \in [Slots -> Wakes]
        /\ \A s \in Slots : WakeOK(wake[s])
        /\ Rows \subseteq Rows' /\ Rows \subseteq Nat
    BY MailStep DEF ToolInv, WakeInv, Rows
  <1>2. ASSUME NEW s \in Slots, NEW d \in Wakes, WakeOK(d), wake' = [wake EXCEPT ![s] = d]
        PROVE  WakeInv'
    <2>1. wake' \in [Slots -> Wakes]
      BY <1>1, <1>2
    <2>2. ASSUME NEW u \in Slots
          PROVE  wake'[u].todo \subseteq wake'[u].rows /\ wake'[u].seen \cup wake'[u].rows \subseteq Rows'
      <3>1. wake'[u] = IF u = s THEN d ELSE wake[u]
        BY <1>1, <1>2
      <3>. QED BY <1>1, <1>2, <3>1 DEF WakeOK
    <2>. QED BY <2>1, <2>2 DEF WakeInv, WakeOK
  <1>3. NoProjection \in Projections
    BY DEF NoProjection, Projection, Projections
  <1>4. ASSUME NEW s \in Slots, Peek(s)
        PROVE  WakeInv'
    <2>1. PICK seen : seen = {r \in Unread(s) : mail[r].from # s}
      OBVIOUS
    <2>2. seen \subseteq Rows
      BY <2>1 DEF Unread
    <2>3. PICK d : d = [wake[s] EXCEPT !.seen = seen]
      OBVIOUS
    <2>4. wake[s] \in Wakes /\ WakeOK(wake[s])
      BY <1>1
    <2>5. d \in Wakes /\ d.seen = seen /\ d.rows = wake[s].rows /\ d.todo = wake[s].todo
      BY <1>1, <2>2, <2>3, <2>4 DEF Wakes
    <2>6. wake' = [wake EXCEPT ![s] = d]
      BY <1>4, <2>1, <2>3 DEF Peek
    <2>. QED BY <1>2, <2>2, <2>4, <2>5, <2>6 DEF WakeOK
  <1>5. ASSUME NEW s \in Slots, Claim(s)
        PROVE  WakeInv'
    <2>1. PICK rows \in SUBSET Claimable(s) :
            wake' = [wake EXCEPT ![s] = [seen |-> {}, rows |-> rows, todo |-> rows \cap wake[s].seen,
                                         proj |-> NoProjection]]
      BY <1>5 DEF Claim
    <2>2. rows \subseteq Rows
      BY DEF Claimable, Unread
    <2>3. PICK d : d = [seen |-> {}, rows |-> rows, todo |-> rows \cap wake[s].seen, proj |-> NoProjection]
      OBVIOUS
    <2>4. d \in Wakes /\ WakeOK(d)
      BY <1>1, <1>3, <2>2, <2>3 DEF Wakes, WakeOK
    <2>. QED BY <1>2, <2>1, <2>3, <2>4
  <1>6. ASSUME NEW s \in Slots, Mirror(s)
        PROVE  WakeInv'
    <2>1. PICK R \in SUBSET wake[s].todo, q \in Projections :
            wake' = [wake EXCEPT ![s].proj = q, ![s].todo = R]
      <3>1. WakeInv
        BY DEF ToolInv
      <3>. QED BY <1>6, <3>1, MirrorStep
    <2>2. PICK d : d = [wake[s] EXCEPT !.proj = q, !.todo = R]
      OBVIOUS
    <2>3. wake[s] \in Wakes /\ WakeOK(wake[s])
      BY <1>1
    <2>4. d \in Wakes /\ d.seen = wake[s].seen /\ d.rows = wake[s].rows /\ d.todo = R
      BY <2>1, <2>2, <2>3 DEF Wakes
    <2>5. wake' = [wake EXCEPT ![s] = d]
      BY <1>1, <2>1, <2>2
    <2>6. WakeOK(d)
      BY <2>1, <2>3, <2>4 DEF WakeOK
    <2>. QED BY <1>2, <2>4, <2>5, <2>6
  <1>7. ASSUME NEW s \in Slots, NEW x \in BOOLEAN, EndWake(s, x)
        PROVE  WakeInv'
    <2>1. PICK d : d = NotAwake
      OBVIOUS
    <2>2. d \in Wakes /\ WakeOK(d)
      BY <1>3, <2>1 DEF NotAwake, Wakes, WakeOK
    <2>. QED BY <1>2, <1>7, <2>1, <2>2 DEF EndWake
  <1>8. CASE UNCHANGED wake
    BY <1>1, <1>8 DEF WakeInv, WakeOK
  <1>9. ASSUME NEW c \in Callers,
               \/ Accept(c) \/ Disconnect(c) \/ OtherRequest(c) \/ TaskStep(c) \/ ShutdownApproved(c)
               \/ ShutdownRejected(c) \/ SendFails(c) \/ ProjectSent(c) \/ CommitSent(c)
               \/ \E s \in Slots \cup {NoSlot} : Initialize(c, s) \/ AcceptHttp(c, s)
               \/ \E T \in SUBSET Slots : SendMessage(c, T)
               \/ \E t \in Slots : SendOne(c, t) \/ ShutdownAgent(c, t)
               \/ \E o \in Slots \cup {NoOwner}, deps \in SUBSET (1..MaxTasks) : TaskCreate(c, o, deps)
               \/ \E t \in TaskIds, u \in Updates : TaskUpdate(c, t, u)
        PROVE  UNCHANGED wake
    BY <1>9 DEF Accept, Disconnect, OtherRequest, TaskStep, toolVars, mailVars, ShutdownApproved,
                ShutdownRejected, Initialize, AcceptHttp, SendMessage, SendOne, SendFails,
                ShutdownAgent,
                ProjectSent, CommitSent, TaskCreate, TaskUpdate
  <1>10. ASSUME \/ StopServer \/ UNCHANGED allVars
                \/ \E s \in Slots \cup {NoSlot} : RemoveApproved(s)
                \/ \E s \in Slots : Recovers(s)
         PROVE  UNCHANGED wake
    BY <1>10 DEF StopServer, allVars, toolVars, mailVars, RemoveApproved, Recovers, WakeLeader,
       RecoveryDrain, CommitEarly
  <1>. QED BY <1>4, <1>5, <1>6, <1>7, <1>8, <1>9, <1>10 DEF Next, Recovers

\* Nobody joins by a tool that is modelled here.
LEMMA RosterShrinks == [Next]_allVars => roster' \subseteq roster
  <1> SUFFICES ASSUME [Next]_allVars PROVE roster' \subseteq roster
    OBVIOUS
  <1>1. ASSUME NEW c \in Callers,
               \/ Accept(c) \/ Disconnect(c) \/ ProjectSent(c) \/ CommitSent(c) \/ ShutdownRejected(c)
               \/ TaskStep(c) \/ OtherRequest(c) \/ ShutdownApproved(c) \/ SendFails(c)
               \/ \E s \in Slots \cup {NoSlot} : Initialize(c, s) \/ AcceptHttp(c, s)
               \/ \E T \in SUBSET Slots : SendMessage(c, T)
               \/ \E t \in Slots : SendOne(c, t) \/ ShutdownAgent(c, t)
               \/ \E o \in Slots \cup {NoOwner}, deps \in SUBSET (1..MaxTasks) : TaskCreate(c, o, deps)
               \/ \E t \in TaskIds, u \in Updates : TaskUpdate(c, t, u)
        PROVE  UNCHANGED roster
    BY <1>1 DEF Accept, Disconnect, ProjectSent, CommitSent, ShutdownRejected, TaskStep, toolVars,
                Initialize, AcceptHttp, SendMessage, SendOne, SendFails, ShutdownAgent, TaskCreate,
                TaskUpdate, OtherRequest, ShutdownApproved
  <1>2. ASSUME StopServer \/ UNCHANGED allVars \/ \E s \in Slots : WakeStep(s)
        PROVE  UNCHANGED roster
    BY <1>2 DEF StopServer, WakeStep, Recovers, WakeLeader, RecoveryDrain, CommitEarly, Peek,
       Claim, Mirror, EndWake, allVars, toolVars
  <1>3. ASSUME NEW s \in Slots \cup {NoSlot}, RemoveApproved(s)
        PROVE  roster' \subseteq roster
    BY <1>3 DEF RemoveApproved
  <1>. QED BY <1>1, <1>2, <1>3 DEF Next, WakeStep, Recovers

\* What a step does to the messages and the work: rows that are shown, or excepted,
\* stay so, and work is made of rows that have been projected or are excepted.
LEMMA ShownStep ==
  ASSUME ToolInv, [Next]_allVars
  PROVE  /\ bubbles \cup unshown \subseteq bubbles' \cup unshown'
         /\ bubbles' \cup committed' \subseteq Rows
         /\ \A r \in committed' :
               \/ r \in committed
               \/ r \in bubbles' \cup unshown'
               \/ \E c \in Callers : send[c].proj.pc = "commit" /\ r = send[c].proj.row
  <1>1. bubbles \cup committed \subseteq Rows /\ SendInv /\ WakeInv
    BY DEF ToolInv
  <1>2. ASSUME NEW c \in Callers, ProjectSent(c)
        PROVE  /\ bubbles \cup unshown \subseteq bubbles' \cup unshown'
               /\ bubbles' \subseteq bubbles \cup Rows /\ committed' = committed
    <2>1. send[c].proj \in Projections /\ Projection("commit", send[c].proj.row) \in Projections
      BY <1>1 DEF SendInv, Sends, Projection, Projections
    <2>2. PICK q : Project(send[c].proj, Projection("commit", send[c].proj.row), q)
      BY <1>2 DEF ProjectSent
    <2>3. /\ bubbles' \subseteq bubbles \cup {send[c].proj.row}
          /\ bubbles \cup unshown \subseteq bubbles' \cup unshown'
          /\ send[c].proj.pc # "none"
      BY <2>1, <2>2, ProjectStep
    <2>4. send[c].proj.row \in Rows
      BY <1>1, <2>3 DEF SendInv, SendOK
    <2>. QED BY <1>2, <2>3, <2>4 DEF ProjectSent
  <1>3. ASSUME NEW s \in Slots, Mirror(s)
        PROVE  /\ bubbles \cup unshown \subseteq bubbles' \cup unshown'
               /\ bubbles' \subseteq bubbles \cup Rows /\ committed' = committed
    <2>1. PICK row \in wake[s].todo : /\ bubbles' \subseteq bubbles \cup {row}
                                      /\ bubbles \cup unshown \subseteq bubbles' \cup unshown'
      BY <1>1, <1>3, MirrorStep
    <2>2. row \in Rows
      BY <1>1, <2>1 DEF WakeInv, WakeOK
    <2>. QED BY <1>3, <2>1, <2>2 DEF Mirror
  <1>4. ASSUME NEW s \in Slots, Recovers(s)
        PROVE  /\ bubbles' = bubbles /\ unshown \subseteq unshown'
               /\ \/ committed' \subseteq committed
                  \/ \E row \in Rows : /\ committed' = committed \cup {row}
                                       /\ row \in bubbles' \cup unshown'
    BY <1>4 DEF Recovers, WakeLeader, RecoveryDrain, CommitEarly, MarkRead, Unread
  <1>5. ASSUME NEW c \in Callers, CommitSent(c)
        PROVE  /\ UNCHANGED <<bubbles, unshown>> /\ committed' \subseteq committed \cup {send[c].proj.row}
               /\ send[c].proj.pc = "commit" /\ send[c].proj.row \in Rows
    <2>1. send[c].proj.row \in Rows
      BY <1>1, <1>5 DEF CommitSent, SendInv, SendOK
    <2>. QED BY <1>5, <2>1 DEF CommitSent, MarkRead
  <1>6. ASSUME NEW s \in Slots, NEW x \in BOOLEAN, EndWake(s, x)
        PROVE  UNCHANGED <<bubbles, unshown>> /\ committed' \subseteq committed
    BY <1>6 DEF EndWake, MarkRead
  <1>7. ASSUME NEW c \in Callers,
               \/ Accept(c) \/ Disconnect(c) \/ OtherRequest(c) \/ TaskStep(c) \/ ShutdownApproved(c)
               \/ ShutdownRejected(c) \/ SendFails(c)
               \/ \E s \in Slots \cup {NoSlot} : Initialize(c, s) \/ AcceptHttp(c, s)
               \/ \E T \in SUBSET Slots : SendMessage(c, T)
               \/ \E t \in Slots : SendOne(c, t) \/ ShutdownAgent(c, t)
               \/ \E o \in Slots \cup {NoOwner}, deps \in SUBSET (1..MaxTasks) : TaskCreate(c, o, deps)
               \/ \E t \in TaskIds, u \in Updates : TaskUpdate(c, t, u)
        PROVE  UNCHANGED <<bubbles, unshown, committed>>
    BY <1>7 DEF Accept, Disconnect, OtherRequest, TaskStep, toolVars, mailVars, ShutdownApproved,
                ShutdownRejected, Initialize, AcceptHttp, SendMessage, SendOne, SendFails,
                ShutdownAgent,
                TaskCreate, TaskUpdate
  <1>8. ASSUME \/ StopServer \/ UNCHANGED allVars
               \/ \E s \in Slots \cup {NoSlot} : RemoveApproved(s)
               \/ \E s \in Slots : Peek(s) \/ Claim(s)
        PROVE  UNCHANGED <<bubbles, unshown, committed>>
    BY <1>8 DEF StopServer, allVars, toolVars, mailVars, RemoveApproved, Peek, Claim
  <1>9. CASE UNCHANGED <<bubbles, unshown, committed>>
    BY <1>1, <1>9
  <1>10. CASE \E c \in Callers : ProjectSent(c)
    BY <1>1, <1>2, <1>10
  <1>11. CASE \E s \in Slots : Mirror(s)
    BY <1>1, <1>3, <1>11
  <1>12. CASE \E s \in Slots : Recovers(s)
    BY <1>1, <1>4, <1>12
  <1>13. CASE \E c \in Callers : CommitSent(c)
    BY <1>1, <1>5, <1>13
  <1>14. CASE \E s \in Slots, x \in BOOLEAN : EndWake(s, x)
    BY <1>1, <1>6, <1>14
  <1>. QED BY <1>7, <1>8, <1>9, <1>10, <1>11, <1>12, <1>13, <1>14 DEF Next, Recovers

\* The invariant of the mailbox, its projections and the wakes is inductive.
LEMMA ToolNextInv == ToolInv /\ [Next]_allVars => ToolInv'
  <1> SUFFICES ASSUME ToolInv, [Next]_allVars PROVE ToolInv'
    OBVIOUS
  <1>1. RowsInv'
    BY RowsNextInv DEF ToolInv
  <1>2. roster' \subseteq Slots
    BY RosterShrinks DEF ToolInv
  <1>3. bubbles' \cup committed' \subseteq Rows'
    BY ShownStep, MailStep
  <1>. QED BY <1>1, <1>2, <1>3, MailStep, SendStep, WakeStepInv DEF ToolInv

LEMMA ToolInitInv == Init => ToolInv
  <1> SUFFICES ASSUME Init PROVE ToolInv
    OBVIOUS
  <1>1. NoProjection \in Projections /\ NoProjection.pc = "none"
    BY DEF NoProjection, Projection, Projections
  <1>2. Len(mail) = 0 /\ Rows = {}
    BY DEF Init, Rows
  <1>3. SendInv
    BY <1>1, <1>2 DEF Init, SendInv, NotSending, Sends, SendOK
  <1>4. WakeInv
    BY <1>1, <1>2 DEF Init, WakeInv, NotAwake, Wakes, WakeOK
  <1>5. RowsInv
    BY DEF Init, RowsInv, Connections
  <1>. QED BY <1>2, <1>3, <1>4, <1>5 DEF Init, ToolInv, MailInv

\* Connections, mailbox and wakes keep their types, and a shutdown_request comes from
\* the lead and goes to a teammate, whoever else uses the server at the same time.
THEOREM ToolsTyped == Spec => []ToolsTypeOK
  <1>1. ToolInv /\ BoardTypeOK => ToolsTypeOK
    <2> SUFFICES ASSUME ToolInv, BoardTypeOK PROVE ToolsTypeOK
      OBVIOUS
    <2>1. \A r \in Rows : mail[r] \in MailRows
      BY LenProperties, ElementOfSeq DEF ToolInv, RowsInv, Rows
    <2>2. ASSUME NEW c \in Callers
          PROVE  /\ conn[c].st \in {"Free", "Open", "Ready", "Once", "Closed"}
                 /\ conn[c].slot \in Slots \cup {NoSlot}
                 /\ send[c].todo \subseteq Slots
                 /\ send[c].proj.pc # "none" => send[c].proj.row \in Rows
      BY DEF ToolInv, SendInv, Sends, SendOK, RowsInv, Connections
    <2>3. \A r \in Rows : mail[r].to \in Slots /\ mail[r].kind \in Kinds
      BY <2>1 DEF MailRows
    <2>. QED BY <2>2, <2>3 DEF ToolInv, ToolsTypeOK, MailInv, Sender, WakeInv, WakeOK
  <1>. QED BY <1>1, ToolInitInv, ToolNextInv, BoardIsTyped, PTL DEF Spec

-----------------------------------------------------------------------------
(* What an agent is given is shown: by its sender before it is committed,   *)
(* or by the wake that has seen it before the claim.                        *)

Covered == bubbles \cup unshown

ShownInv ==
    /\ committed \subseteq Covered
    /\ \A c \in Callers : send[c].proj.pc = "commit" => send[c].proj.row \in Covered
    /\ \A s \in Slots : \A r \in wake[s].rows \ wake[s].todo :
          mail[r].kind = "message" => r \in Covered

\* A sender has projected its row when it comes to commit it.
LEMMA SentIsShown ==
  ASSUME ToolInv, ShownInv, [Next]_allVars, NEW c \in Callers, send'[c].proj.pc = "commit"
  PROVE  send'[c].proj.row \in Covered'
  <1>1. Covered \subseteq Covered' /\ send \in [Callers -> Sends]
    BY ShownStep DEF Covered, ToolInv, SendInv
  <1>2. CASE send'[c] = send[c] \/ send'[c].proj = send[c].proj
    BY <1>1, <1>2 DEF ShownInv
  <1>3. CASE ProjectSent(c)
    <2>1. send[c].proj \in Projections /\ Projection("commit", send[c].proj.row) \in Projections
      BY <1>1 DEF Sends, Projection, Projections
    <2>2. PICK q : /\ Project(send[c].proj, Projection("commit", send[c].proj.row), q)
                   /\ send' = [send EXCEPT ![c].proj = q]
      BY <1>3 DEF ProjectSent
    <2>3. send'[c].proj = q
      BY <1>1, <2>2 DEF Sends
    <2>4. \/ q = Projection("insert", send[c].proj.row)
          \/ /\ q = Projection("commit", send[c].proj.row)
             /\ send[c].proj.row \in Covered'
      BY <2>1, <2>2, ProjectStep DEF Covered
    <2>. QED BY <2>3, <2>4 DEF Projection
  <1>4. CASE \E t \in Slots : SendOne(c, t)
    <2>1. send'[c].proj.pc = "find"
      BY <1>1, <1>4 DEF SendOne, Projection
    <2>. QED BY <2>1
  <1>5. CASE SendFails(c) \/ CommitSent(c)
    <2>1. send'[c].proj = NoProjection
      BY <1>1, <1>5 DEF SendFails, CommitSent, NotSending, Sends
    <2>. QED BY <2>1 DEF NoProjection, Projection
  <1>6. CASE \E T \in SUBSET Slots : SendMessage(c, T)
    <2>1. send'[c].proj = send[c].proj
      BY <1>1, <1>6 DEF SendMessage, Sends
    <2>. QED BY <1>2, <2>1
  <1>7. ASSUME NEW d \in Callers, d # c,
               \/ ProjectSent(d) \/ SendFails(d) \/ CommitSent(d)
               \/ \E t \in Slots : SendOne(d, t)
               \/ \E T \in SUBSET Slots : SendMessage(d, T)
        PROVE  send'[c] = send[c]
    BY <1>1, <1>7 DEF ProjectSent, SendFails, CommitSent, SendOne, SendMessage
  <1>8. ASSUME NEW d \in Callers,
               \/ Accept(d) \/ Disconnect(d) \/ OtherRequest(d) \/ TaskStep(d) \/ ShutdownApproved(d)
               \/ ShutdownRejected(d)
               \/ \E s \in Slots \cup {NoSlot} : Initialize(d, s) \/ AcceptHttp(d, s)
               \/ \E t \in Slots : ShutdownAgent(d, t)
               \/ \E o \in Slots \cup {NoOwner}, deps \in SUBSET (1..MaxTasks) : TaskCreate(d, o, deps)
               \/ \E t \in TaskIds, u \in Updates : TaskUpdate(d, t, u)
        PROVE  UNCHANGED send
    BY <1>8 DEF Accept, Disconnect, OtherRequest, TaskStep, toolVars, mailVars, ShutdownApproved,
                ShutdownRejected, Initialize, AcceptHttp, ShutdownAgent, TaskCreate, TaskUpdate
  <1>9. ASSUME \/ StopServer \/ UNCHANGED allVars
               \/ \E s \in Slots \cup {NoSlot} : RemoveApproved(s)
               \/ \E s \in Slots : WakeStep(s)
        PROVE  UNCHANGED send
    BY <1>9 DEF StopServer, allVars, toolVars, mailVars, RemoveApproved, WakeStep, Recovers,
       WakeLeader, RecoveryDrain, CommitEarly, Peek,
                Claim, Mirror, EndWake
  <1>. QED BY <1>2, <1>3, <1>4, <1>5, <1>6, <1>7, <1>8, <1>9 DEF Next, WakeStep, Recovers

\* What a wake has claimed is still to be projected by it, or was projected before.
LEMMA ClaimedIsShown ==
  ASSUME ToolInv, ShownInv, [Next]_allVars, NEW s \in Slots,
         NEW r \in wake'[s].rows \ wake'[s].todo, mail'[r].kind = "message"
  PROVE  r \in Covered'
  <1>1. /\ Covered \subseteq Covered' /\ wake \in [Slots -> Wakes]
        /\ \A u \in Slots : wake[u].rows \subseteq Rows /\ wake[u].seen \subseteq Rows
        /\ \A x \in Rows : mail'[x].kind = mail[x].kind
    BY ShownStep, MailStep DEF Covered, ToolInv, WakeInv, WakeOK
  <1>2. CASE wake'[s].rows = wake[s].rows /\ wake'[s].todo = wake[s].todo
    BY <1>1, <1>2 DEF ShownInv
  <1>3. CASE Peek(s)
    <2>1. wake'[s].rows = wake[s].rows /\ wake'[s].todo = wake[s].todo
      BY <1>1, <1>3 DEF Peek, Wakes
    <2>. QED BY <1>2, <2>1
  <1>4. CASE Claim(s)
    <2>1. PICK rows \in SUBSET Claimable(s) :
            wake' = [wake EXCEPT ![s] = [seen |-> {}, rows |-> rows, todo |-> rows \cap wake[s].seen,
                                         proj |-> NoProjection]]
      BY <1>4 DEF Claim
    <2>2. wake'[s].rows = rows /\ wake'[s].todo = rows \cap wake[s].seen
      BY <1>1, <2>1
    <2>3. r \in Claimable(s) /\ r \notin wake[s].seen /\ mail[r].kind = "message"
      BY <1>1, <2>2 DEF Claimable, Unread
    <2>4. r \in committed
      BY <2>3 DEF Claimable
    <2>. QED BY <1>1, <2>4 DEF ShownInv
  <1>5. CASE Mirror(s)
    <2>1. PICK row \in wake[s].todo, R \in SUBSET wake[s].todo, q \in Projections :
            /\ wake' = [wake EXCEPT ![s].proj = q, ![s].todo = R]
            /\ \/ R = wake[s].todo
               \/ R = wake[s].todo \ {row} /\ row \in bubbles' \cup unshown'
      <3>1. WakeInv
        BY DEF ToolInv
      <3>. QED BY <1>5, <3>1, MirrorStep
    <2>2. wake'[s].rows = wake[s].rows /\ wake'[s].todo = R
      BY <1>1, <2>1 DEF Wakes
    <2>3. r \in wake[s].rows \ wake[s].todo \/ (r = row /\ row \in Covered')
      BY <2>1, <2>2 DEF Covered
    <2>. QED BY <1>1, <2>3 DEF ShownInv
  <1>6. CASE \E x \in BOOLEAN : EndWake(s, x)
    <2>1. wake'[s].rows = {}
      BY <1>1, <1>6 DEF EndWake, NotAwake
    <2>. QED BY <2>1
  <1>7. ASSUME NEW u \in Slots, u # s,
               Peek(u) \/ Claim(u) \/ Mirror(u) \/ \E x \in BOOLEAN : EndWake(u, x)
        PROVE  wake'[s] = wake[s]
    <2>1. CASE Mirror(u)
      BY <1>1, <1>7, <2>1 DEF Mirror
    <2>2. CASE Claim(u)
      <3>1. PICK d : wake' = [wake EXCEPT ![u] = d]
        BY <2>2 DEF Claim
      <3>. QED BY <1>1, <1>7, <3>1
    <2>. QED BY <1>1, <1>7, <2>1, <2>2 DEF Peek, EndWake
  <1>8. ASSUME NEW c \in Callers,
               \/ Accept(c) \/ Disconnect(c) \/ OtherRequest(c) \/ TaskStep(c) \/ ShutdownApproved(c)
               \/ ShutdownRejected(c) \/ SendFails(c) \/ ProjectSent(c) \/ CommitSent(c)
               \/ \E x \in Slots \cup {NoSlot} : Initialize(c, x) \/ AcceptHttp(c, x)
               \/ \E T \in SUBSET Slots : SendMessage(c, T)
               \/ \E t \in Slots : SendOne(c, t) \/ ShutdownAgent(c, t)
               \/ \E o \in Slots \cup {NoOwner}, deps \in SUBSET (1..MaxTasks) : TaskCreate(c, o, deps)
               \/ \E t \in TaskIds, u \in Updates : TaskUpdate(c, t, u)
        PROVE  UNCHANGED wake
    BY <1>8 DEF Accept, Disconnect, OtherRequest, TaskStep, toolVars, mailVars, ShutdownApproved,
                ShutdownRejected, Initialize, AcceptHttp, SendMessage, SendOne, SendFails,
                ShutdownAgent,
                ProjectSent, CommitSent, TaskCreate, TaskUpdate
  <1>9. ASSUME \/ StopServer \/ UNCHANGED allVars
               \/ \E x \in Slots \cup {NoSlot} : RemoveApproved(x)
               \/ \E u \in Slots : Recovers(u)
        PROVE  UNCHANGED wake
    BY <1>9 DEF StopServer, allVars, toolVars, mailVars, RemoveApproved, Recovers, WakeLeader,
       RecoveryDrain, CommitEarly
  <1>. QED BY <1>2, <1>3, <1>4, <1>5, <1>6, <1>7, <1>8, <1>9 DEF Next, Recovers

\* No agent works on a message that its conversation does not show, for any number
\* of senders and wakes that race to project it: unless the store has failed, or
\* another call has made work of the message while its sender was projecting it.
THEOREM MessagesAreAlwaysShown == Spec => []MessagesAreShown
  <1>1. Init => ShownInv
    BY DEF Init, ShownInv, NotSending, NotAwake, NoProjection, Projection
  <1>2. ToolInv /\ ShownInv /\ [Next]_allVars => ShownInv'
    <2> SUFFICES ASSUME ToolInv, ShownInv, [Next]_allVars PROVE ShownInv'
      OBVIOUS
    <2>1. committed' \subseteq Covered'
      BY ShownStep DEF ShownInv, Covered
    <2>2. \A c \in Callers : send'[c].proj.pc = "commit" => send'[c].proj.row \in Covered'
      BY SentIsShown
    <2>3. \A s \in Slots : \A r \in wake'[s].rows \ wake'[s].todo :
             mail'[r].kind = "message" => r \in Covered'
      BY ClaimedIsShown
    <2>. QED BY <2>1, <2>2, <2>3 DEF ShownInv
  <1>3. ShownInv => MessagesAreShown
    BY DEF ShownInv, Covered, MessagesAreShown, TurnRuns
  <1>. QED BY <1>1, <1>2, <1>3, ToolInitInv, ToolNextInv, PTL DEF Spec

=============================================================================
