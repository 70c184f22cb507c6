----------------------------- MODULE TaskBoard -----------------------------
(***************************************************************************)
(* The task board of a team (crates/team/src/task_board.rs on the rows of  *)
(* crates/store/src/team_repo.rs).  A task names the tasks that block it   *)
(* and, the other way round, the tasks it blocks.  The two lists are kept  *)
(* in different rows, each row is written under the lock of the store, and *)
(* nothing holds that lock over two writes, so callers interleave between  *)
(* any two of them.                                                        *)
(*                                                                         *)
(* Rows are never deleted one by one, so looking up the dependencies of a  *)
(* new task and inserting its row are one action.  Left out: subjects,     *)
(* descriptions, metadata, and the lists' order.                           *)
(***************************************************************************)
EXTENDS Naturals, Sequences

CONSTANTS Callers,     \* connections that may use the board
          Slots,       \* agents that may own a task
          NoOwner,     \* a task without an owner
          Updates,     \* the update requests that are tried: [status, owner, relink, deps]
          MaxTasks     \* bound: tasks ever created

Statuses == {"pending", "in_progress", "completed", "deleted"}
Keep     == "keep"     \* a field that the request does not carry

ASSUME BoardAssumption ==
    /\ MaxTasks \in Nat
    /\ Keep \notin Statuses
    /\ \A u \in Updates : /\ u.status \in Statuses \cup {Keep}
                          /\ u.owner \in Slots \cup {Keep}
                          /\ u.relink \in BOOLEAN
                          /\ u.deps \subseteq 1..MaxTasks

VARIABLES tasks,     \* MemoryTeamState.tasks; the id of a task is its position
          call,      \* what every caller is in the middle of
          relinked,  \* history: tasks whose dependency list was replaced
          late       \* history: links recorded when the dependency was done

boardVars == <<tasks, call, relinked, late>>

TaskIds == 1..Len(tasks)

Task(owner, deps) ==
    [status |-> "pending", owner |-> owner, blockedBy |-> deps, blocks |-> {}]

\* A call of the board: the task it is about, the request, the rows it has still to visit.
Call(pc, task, update, todo) ==
    [pc |-> pc, task |-> task, update |-> update, todo |-> todo]

NoUpdate == [status |-> Keep, owner |-> Keep, relink |-> FALSE, deps |-> {}]
Idle     == Call("idle", 0, NoUpdate, {})

\* The caller goes on with pc while rows are left, and returns otherwise.
Continue(c, pc, task, update, todo) ==
    call' = [call EXCEPT ![c] =
               IF todo = {} THEN Idle ELSE Call(pc, task, update, todo)]

BoardInit ==
    /\ tasks = <<>>
    /\ call = [c \in Callers |-> Idle]
    /\ relinked = {}
    /\ late = {}

\* A call that completes task d is between its read of the row and its return.
Completing(d) ==
    \E c \in Callers : /\ call[c].task = d
                       /\ call[c].pc \in {"write", "unblock"}
                       /\ call[c].update.status = "completed"

-----------------------------------------------------------------------------

\* create_task: every dependency must exist, then the row is inserted.
CreateTask(c, owner, deps) ==
    /\ call[c].pc = "idle"
    /\ Len(tasks) < MaxTasks
    /\ deps \subseteq TaskIds
    /\ tasks' = Append(tasks, Task(owner, deps))
    /\ Continue(c, "link", Len(tasks'), NoUpdate, deps)
    /\ UNCHANGED <<relinked, late>>

\* Mutant: the new task is recorded in its own row.
LinkSelf(c, d) ==
    /\ call[c].pc = "link"
    /\ d \in call[c].todo
    /\ tasks' = [tasks EXCEPT ![call[c].task].blocks = @ \cup {call[c].task}]
    /\ late' = IF tasks[d].status = "completed" \/ Completing(d)
               THEN late \cup {<<call[c].task, d>>}
               ELSE late
    /\ Continue(c, "link", call[c].task, NoUpdate, call[c].todo \ {d})
    /\ UNCHANGED relinked

\* create_task: append_to_blocks of one dependency of the new task.
LinkDependency(c, d) ==
    /\ call[c].pc = "link"
    /\ d \in call[c].todo
    /\ tasks' = [tasks EXCEPT ![d].blocks = @ \cup {call[c].task}]
    /\ late' = IF tasks[d].status = "completed" \/ Completing(d)
               THEN late \cup {<<call[c].task, d>>}
               ELSE late
    /\ Continue(c, "link", call[c].task, NoUpdate, call[c].todo \ {d})
    /\ UNCHANGED relinked

\* update_task up to the read of the row; its blocks are kept for check_unblocks.
ReadForUpdate(c, t, update) ==
    /\ call[c].pc = "idle"
    /\ t \in TaskIds
    /\ call' = [call EXCEPT ![c] = Call("write", t, update, tasks[t].blocks)]
    /\ UNCHANGED <<tasks, relinked, late>>

\* Mutant: only a task that was in progress unblocks others.
WriteForgets(c) ==
    LET t == call[c].task
        u == call[c].update
        p == tasks[t]
    IN /\ call[c].pc = "write"
       /\ tasks' = [tasks EXCEPT ![t] =
                      [status |-> IF u.status = Keep THEN p.status ELSE u.status,
                       owner |-> IF u.owner = Keep THEN p.owner ELSE u.owner,
                       blockedBy |-> IF u.relink THEN u.deps ELSE p.blockedBy,
                       blocks |-> p.blocks]]
       /\ relinked' = IF u.relink THEN relinked \cup {t} ELSE relinked
       /\ Continue(c, "unblock", t, u,
                   IF u.status = "completed" /\ p.status = "in_progress" THEN call[c].todo ELSE {})
       /\ UNCHANGED late

\* update_task: the row is written.  A new dependency list is stored as it
\* comes: nothing is recorded in the rows of the dependencies.
WriteUpdate(c) ==
    LET t == call[c].task
        u == call[c].update
        p == tasks[t]
    IN /\ call[c].pc = "write"
       /\ tasks' = [tasks EXCEPT ![t] =
                      [status |-> IF u.status = Keep THEN p.status ELSE u.status,
                       owner |-> IF u.owner = Keep THEN p.owner ELSE u.owner,
                       blockedBy |-> IF u.relink THEN u.deps ELSE p.blockedBy,
                       blocks |-> p.blocks]]
       /\ relinked' = IF u.relink THEN relinked \cup {t} ELSE relinked
       /\ Continue(c, "unblock", t, u, IF u.status = "completed" THEN call[c].todo ELSE {})
       /\ UNCHANGED late

\* check_unblocks: remove_from_blocked_by of one task of the saved list.
Unblock(c, t) ==
    /\ call[c].pc = "unblock"
    /\ t \in call[c].todo
    /\ tasks' = [tasks EXCEPT ![t].blockedBy = @ \ {call[c].task}]
    /\ Continue(c, "unblock", call[c].task, call[c].update, call[c].todo \ {t})
    /\ UNCHANGED <<relinked, late>>

\* The steps of a call after its first.
BoardStep(c) ==
    \/ \E d \in TaskIds : LinkDependency(c, d)
    \/ WriteUpdate(c)
    \/ \E t \in TaskIds : Unblock(c, t)

BoardNext ==
    \E c \in Callers :
        \/ \E owner \in Slots \cup {NoOwner}, deps \in SUBSET (1..MaxTasks) :
              CreateTask(c, owner, deps)
        \/ \E t \in TaskIds, u \in Updates : ReadForUpdate(c, t, u)
        \/ BoardStep(c)

BoardSpec == BoardInit /\ [][BoardNext]_boardVars

-----------------------------------------------------------------------------

TaskRows == [status : Statuses, owner : Slots \cup {NoOwner},
             blockedBy : SUBSET (1..MaxTasks), blocks : SUBSET (1..MaxTasks)]
Calls == [pc : {"idle", "link", "write", "unblock"}, task : 0..MaxTasks,
          update : Updates \cup {NoUpdate}, todo : SUBSET (1..MaxTasks)]

\* Types; and the rows that a call is about, and has still to visit, exist.
BoardTypeOK ==
    /\ tasks \in Seq(TaskRows)
    /\ Len(tasks) <= MaxTasks
    /\ call \in [Callers -> Calls]
    /\ relinked \subseteq TaskIds
    /\ late \subseteq TaskIds \X TaskIds
    /\ \A t \in TaskIds : tasks[t].blocks \subseteq TaskIds
    /\ \A c \in Callers : call[c].todo \subseteq TaskIds
    /\ \A c \in Callers : call[c].pc # "idle" => call[c].task \in TaskIds

\* A caller still has to record that task t waits for task d.
Linking(t, d) ==
    \E c \in Callers : call[c].pc = "link" /\ call[c].task = t /\ d \in call[c].todo

\* Task t waits for task d since it was created: nobody has replaced its list.
WaitsFor(t, d) == t \notin relinked /\ d \in tasks[t].blockedBy

\* What a task waits for is older than the task, so tasks never wait for each
\* other, and is recorded in the row of the older task too, or about to be:
\* create_task writes several rows, and other callers write in between.
LinksRecorded ==
    \A t \in TaskIds : \A d \in 1..MaxTasks :
        WaitsFor(t, d) => d < t /\ (t \in tasks[d].blocks \/ Linking(t, d))

\* Once a task is completed and the calls that complete it have returned, no
\* task that was linked to it before still waits for it (check_unblocks works on
\* a list that was read before the write, so a link made meanwhile is missed).
UnblockedOnCompletion ==
    \A t, d \in TaskIds :
        WaitsFor(t, d) /\ tasks[d].status = "completed" /\ ~Completing(d)
          => <<t, d>> \in late \/ Linking(t, d)
=============================================================================
