------------------------------ MODULE TeamRun ------------------------------
(***************************************************************************)
(* The run manager of a team session (crates/team/src/team_run).  It keeps *)
(* at most one run record behind a mutex of its own, hands its id to the   *)
(* work that belongs to it, and moves its status by the work summaries the *)
(* coordinator publishes.  Only the last run is remembered: a new run      *)
(* replaces a settled one.                                                 *)
(*                                                                         *)
(* Left out: target, reason, timestamps, the intervention flag and the     *)
(* payload of the broadcast events; of the events only the first one of a  *)
(* run (team.runAccepted) is kept, as accepted.                            *)
(***************************************************************************)
CONSTANTS Runs,   \* run ids generate_id may return
          NoRun   \* no run

VARIABLES run,    \* TeamRunManager.state; its id is NoRun when there is none
          issued  \* run ids handed out so far

runVars == <<run, issued>>

ActiveStatus  == {"Accepted", "Running", "Cancelling"}
SettledStatus == {"Completed", "Failed", "Cancelled"}

NoRecord == [id |-> NoRun, status |-> "Completed", accepted |-> FALSE]

Init == run = NoRecord /\ issued = {}

\* TeamRunRecord::is_active
IsActive == run.status \in ActiveStatus

\* current_active_run_id
CurrentActiveRun == IF IsActive THEN run.id ELSE NoRun

\* bind_user_enqueue returning run r: join the active run or open a new one.
BindUserEnqueue(r) ==
    \/ IsActive /\ r = run.id /\ UNCHANGED runVars
    \/ /\ ~IsActive
       /\ r \in Runs \ issued
       /\ issued' = issued \cup {r}
       /\ run' = [id |-> r, status |-> "Accepted", accepted |-> FALSE]

\* The status apply_work_summary gives the run.
StatusAfter(sum) ==
    IF sum.failed THEN "Failed"
    ELSE IF ~sum.work THEN IF run.status = "Cancelling" THEN "Cancelled" ELSE "Completed"
    ELSE IF sum.running THEN "Running" ELSE run.status

\* apply_work_summary: a summary of any other run is ignored; the first one of
\* a run is announced as its acceptance.
ApplyWorkSummary(sum) ==
    /\ run' = IF run.id = sum.run
              THEN [id |-> run.id, status |-> StatusAfter(sum), accepted |-> TRUE]
              ELSE run
    /\ UNCHANGED issued

\* begin_cancel, for the active run r.
BeginCancel(r) ==
    /\ IsActive
    /\ r = run.id
    /\ run' = [run EXCEPT !.status = "Cancelling"]
    /\ UNCHANGED issued

\* abort_binding: forget the record if it is still the one of run r.
AbortBinding(r) ==
    /\ run' = IF run.id = r THEN NoRecord ELSE run
    /\ UNCHANGED issued

=============================================================================
