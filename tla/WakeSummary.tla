---------------------------- MODULE WakeSummary ----------------------------
(***************************************************************************)
(* The summary of the task board in the prompt that wakes an agent         *)
(* (crates/team/src/prompts/wake_summary.rs): which rows are shown, and    *)
(* the counts of the hidden ones.                                          *)
(*                                                                         *)
(* A board is a sequence of tasks as in TaskBoard.  Rows are ordered by    *)
(* how they concern the agent, then by status, then by time stamps that    *)
(* the properties do not tell apart: a selection is any set of rows that   *)
(* some order of the last kind may give.  Left out: the rendered text.     *)
(***************************************************************************)
EXTENDS Naturals, FiniteSets

CONSTANTS MaxWakeTaskRows,              \* MAX_WAKE_TASK_ROWS
          MaxRecentCompletedRows,       \* MAX_RECENT_COMPLETED_ROWS
          MaxTeammateCompletedRows      \* MAX_TEAMMATE_RECENT_COMPLETED_ROWS

ASSUME SummaryAssumption ==
    MaxWakeTaskRows \in Nat /\ MaxRecentCompletedRows \in Nat /\ MaxTeammateCompletedRows \in Nat

Smaller(m, n) == IF m <= n THEN m ELSE n

IsActive(board, t)  == board[t].status \in {"pending", "in_progress"}
ActiveOf(board, S)  == {t \in S : IsActive(board, t)}
CompletedOf(board, S) == {t \in S : board[t].status = "completed"}

\* The agents of current, and nobody, own visible tasks.
CurrentOrOwnerless(board, t, current, nobody) == board[t].owner \in current \cup {nobody}

\* Mutant: the tasks of removed agents are left out, whomever they block.
FilterForgetsBlockers(board, current, nobody) ==
    {t \in DOMAIN board : CurrentOrOwnerless(board, t, current, nobody)}

\* filter_summary_input: a task of a removed agent is shown only while it
\* blocks an active task of the others.
FilterSummaryInput(board, current, nobody) ==
    LET all  == DOMAIN board
        base == {t \in ActiveOf(board, all) : CurrentOrOwnerless(board, t, current, nobody)}
        blockers == UNION {board[t].blockedBy : t \in base}
    IN {t \in all : \/ CurrentOrOwnerless(board, t, current, nobody)
                    \/ IsActive(board, t) /\ t \in blockers}

OwnActive(board, S, agent) == {t \in ActiveOf(board, S) : board[t].owner = agent}

\* The tasks that the agent's own active tasks wait for.
Blockers(board, own) == UNION {board[t].blockedBy : t \in own}

\* The tasks that wait for the agent, by either of the two lists.
BlockedByOwn(board, S, own) ==
    UNION {board[t].blocks : t \in own}
      \cup {t \in ActiveOf(board, S) : board[t].blockedBy \cap own # {}}

\* active_rank and status_rank as one number.
RankOf(board, S, own) ==
    LET blockers == Blockers(board, own)
        blocked  == BlockedByOwn(board, S, own)
        started(t) == board[t].status = "in_progress"
        rank(t) == IF t \in own THEN 0
                   ELSE IF t \in blockers THEN 1
                   ELSE IF t \in blocked THEN 2
                   ELSE IF started(t) THEN 3 ELSE 4
    IN [t \in S |-> 2 * rank(t) + (IF started(t) THEN 0 ELSE 1)]

\* The sets that "sort by rank, then take n" may give.
FirstOf(S, n, rank) ==
    IF Cardinality(S) <= n THEN {S}
    ELSE {R \in SUBSET S : /\ Cardinality(R) = n
                           /\ \A r \in R, h \in S \ R : rank[r] <= rank[h]}

\* The candidates of select_leader_ and select_teammate_summary_tasks.
ActiveRows(board, S, own, isLead) ==
    IF isLead THEN ActiveOf(board, S)
    ELSE ActiveOf(board, S) \cap (own \cup Blockers(board, own) \cup BlockedByOwn(board, S, own))

CompletedRows(board, S, agent, isLead) ==
    IF isLead THEN CompletedOf(board, S)
    ELSE {t \in CompletedOf(board, S) : board[t].owner = agent}

\* select_summary_tasks: active rows first, recently completed ones if there is room.
Selections(board, S, agent, isLead) ==
    LET own    == OwnActive(board, S, agent)
        rank   == RankOf(board, S, own)
        recent == [t \in S |-> 0]
        most   == IF isLead THEN MaxRecentCompletedRows ELSE MaxTeammateCompletedRows
    IN UNION {{A \cup C : C \in FirstOf(CompletedRows(board, S, agent, isLead),
                                        Smaller(most, MaxWakeTaskRows - Cardinality(A)),
                                        recent)} :
               A \in FirstOf(ActiveRows(board, S, own, isLead), MaxWakeTaskRows, rank)}

\* Mutant: what is hidden is counted among the visible tasks.
HiddenVisible(board, visible, shown) ==
    [active    |-> Cardinality(ActiveOf(board, visible) \ shown),
     completed |-> Cardinality(CompletedOf(board, visible)) - Cardinality(CompletedOf(board, shown)),
     deleted   |-> Cardinality({t \in DOMAIN board : board[t].status = "deleted"})]

\* The counts of render_task_board_summary, over the whole board.
Hidden(board, visible, shown) ==
    [active    |-> Cardinality(ActiveOf(board, DOMAIN board) \ shown),
     completed |-> Cardinality(CompletedOf(board, DOMAIN board))
                     - Cardinality(CompletedOf(board, shown)),
     deleted   |-> Cardinality({t \in DOMAIN board : board[t].status = "deleted"})]

-----------------------------------------------------------------------------

\* The rows shown and the hidden counts of a summary add up to the board, so an
\* agent is never told less than it can find with team_task_list.
CountsAddUp(board, visible, shown) ==
    LET h == Hidden(board, visible, shown)
    IN Cardinality(shown) + h.active + h.completed + h.deleted = Cardinality(DOMAIN board)

\* A summary that hides an active task of the agent shows nothing but such
\* tasks, and one that hides an active task they wait for shows nothing but
\* these two kinds.  Wanted are tasks of the whole board, not of the filter.
ShowsWhatMatters(board, agent, shown) ==
    LET own    == OwnActive(board, DOMAIN board, agent)
        wanted == ActiveOf(board, DOMAIN board) \cap (own \cup Blockers(board, own))
    IN /\ Cardinality(shown) <= MaxWakeTaskRows
       /\ own \subseteq shown \/ (shown \subseteq own /\ Cardinality(shown) = MaxWakeTaskRows)
       /\ wanted \subseteq shown \/ (shown \subseteq wanted /\ Cardinality(shown) = MaxWakeTaskRows)
=============================================================================
