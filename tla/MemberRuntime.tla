--------------------------- MODULE MemberRuntime ---------------------------
(***************************************************************************)
(* The registry of member runtimes of one session                          *)
(* (crates/team/src/member_runtime.rs).  It decides which attach or remove *)
(* operation owns a member, and answers everybody who waits for one.       *)
(*                                                                         *)
(* Every method holds the entries lock for its whole body, and the stopped *)
(* flag is only set under it, so every method is one action.  A method     *)
(* that only joins an operation changes nothing: its waiter will see the   *)
(* outcome of that operation's watch channel.  The lease of an operation   *)
(* is held across the launch or the kill of a process, so it may be used   *)
(* at any later time.  Left out: failure texts, the session generation.    *)
(***************************************************************************)
EXTENDS Naturals

CONSTANTS Members,         \* agent ids
          MaxOperations    \* bound: operations ever started

ASSUME MemberRuntimeAssumption == MaxOperations \in Nat

VARIABLES entry,     \* MemberRuntimeRegistry.entries
          lastOp,    \* MemberRuntimeRegistry.next_operation_id - 1
          leases,    \* the member of every attach or remove lease handed out
          outcome,   \* the value of the watch channel of every operation
          stopped    \* MemberRuntimeRegistry.stopped

vars == <<entry, lastOp, leases, outcome, stopped>>

Kinds    == {"Absent", "Attaching", "Ready", "Failed", "Removing"}
Outcomes == {"Ready", "Failed", "Removed", "SessionStopped"}

Entry(kind, op) == [kind |-> kind, op |-> op]

Init ==
    /\ entry = [m \in Members |-> Entry("Absent", 0)]
    /\ lastOp = 0
    /\ leases = [o \in {} |-> {}]
    /\ outcome = [o \in {} |-> {}]
    /\ stopped = FALSE

\* Mutant: next_operation_id is read, but not advanced.
StartReusesId(m, kind) ==
    /\ lastOp < MaxOperations
    /\ entry' = [entry EXCEPT ![m] = Entry(kind, lastOp + 1)]
    /\ leases' = [k \in 1..lastOp + 1 |-> IF k = lastOp + 1 THEN m ELSE leases[k]]
    /\ UNCHANGED lastOp

\* A new operation of member m, with a channel of its own.
Start(m, kind) ==
    /\ lastOp < MaxOperations
    /\ lastOp' = lastOp + 1
    /\ entry' = [entry EXCEPT ![m] = Entry(kind, lastOp')]
    /\ leases' = [k \in 1..lastOp' |-> IF k = lastOp' THEN m ELSE leases[k]]

\* The channels after the operations of S got outcome x; a new one is pending.
Answer(S, x) ==
    outcome' = [k \in 1..lastOp' |->
                  IF k \in S THEN x ELSE IF k <= lastOp THEN outcome[k] ELSE "Pending"]

\* Operation o still owns its member.
Holds(o, kind) == entry[leases[o]].kind = kind /\ entry[leases[o]].op = o

-----------------------------------------------------------------------------

\* seed_ready at the bootstrap of the session.
SeedReady(m) ==
    /\ ~stopped
    /\ entry[m].kind = "Absent"
    /\ entry' = [entry EXCEPT ![m] = Entry("Ready", 0)]
    /\ UNCHANGED <<lastOp, leases, outcome, stopped>>

\* reserve_attach returning Start: a failed member only for a retry.
ReserveAttach(m, retryFailed) ==
    /\ ~stopped
    /\ entry[m].kind = "Absent" \/ (entry[m].kind = "Failed" /\ retryFailed)
    /\ Start(m, "Attaching")
    /\ Answer({}, "Ready")
    /\ UNCHANGED stopped

\* reserve_repair returning Start: the process of a ready member is gone.
ReserveRepair(m) ==
    /\ ~stopped
    /\ entry[m].kind \in {"Ready", "Absent"}
    /\ Start(m, "Attaching")
    /\ Answer({}, "Ready")
    /\ UNCHANGED stopped

\* Mutant: the lease may be of an older operation of the member.
CommitReadyOfAny(o) ==
    /\ ~stopped
    /\ entry[leases[o]].kind = "Attaching"
    /\ entry' = [entry EXCEPT ![leases[o]] = Entry("Ready", 0)]
    /\ UNCHANGED <<lastOp, leases, stopped>>
    /\ Answer({o}, "Ready")

\* commit_ready; false, without an effect, for a stale lease.
CommitReady(o) ==
    /\ ~stopped
    /\ Holds(o, "Attaching")
    /\ entry' = [entry EXCEPT ![leases[o]] = Entry("Ready", 0)]
    /\ UNCHANGED <<lastOp, leases, stopped>>
    /\ Answer({o}, "Ready")

\* Mutant: a failure counts for whatever attach of the member is going on.
CommitFailedOfAny(o) ==
    /\ ~stopped
    /\ entry[leases[o]].kind = "Attaching"
    /\ entry' = [entry EXCEPT ![leases[o]] = Entry("Failed", o)]
    /\ UNCHANGED <<lastOp, leases, stopped>>
    /\ Answer({o}, "Failed")

\* commit_failed
CommitFailed(o) ==
    /\ ~stopped
    /\ Holds(o, "Attaching")
    /\ entry' = [entry EXCEPT ![leases[o]] = Entry("Failed", o)]
    /\ UNCHANGED <<lastOp, leases, stopped>>
    /\ Answer({o}, "Failed")

\* Mutants: the outcome of a failed attach is rewritten; that of a running
\* attach is forgotten.
RewritesFailed(m) == IF entry[m].kind \in {"Attaching", "Failed"} THEN {entry[m].op} ELSE {}
ForgetsAttach(m) == {}

\* begin_remove answers those who wait for an attach that it cancels.
CancelledBy(m) == IF entry[m].kind = "Attaching" THEN {entry[m].op} ELSE {}

\* begin_remove returning Start; a second remover joins the first one.
BeginRemove(m) ==
    /\ ~stopped
    /\ entry[m].kind \notin {"Absent", "Removing"}
    /\ Start(m, "Removing")
    /\ Answer(CancelledBy(m), "Removed")
    /\ UNCHANGED stopped

\* finish_remove
FinishRemove(o) ==
    /\ ~stopped
    /\ Holds(o, "Removing")
    /\ entry' = [entry EXCEPT ![leases[o]] = Entry("Absent", 0)]
    /\ UNCHANGED <<lastOp, leases, stopped>>
    /\ Answer({o}, "Removed")

\* restore_attach_required_after_remove_persist_error
RestoreAfterRemove(o) ==
    /\ ~stopped
    /\ Holds(o, "Removing")
    /\ entry' = [entry EXCEPT ![leases[o]] = Entry("Failed", o)]
    /\ UNCHANGED <<lastOp, leases, stopped>>
    /\ Answer({o}, "Failed")

\* stop: every entry is dropped; operations that were going on are answered.
Stop ==
    /\ ~stopped
    /\ stopped' = TRUE
    /\ entry' = [m \in Members |-> Entry("Absent", 0)]
    /\ UNCHANGED <<lastOp, leases>>
    /\ Answer({entry[m].op : m \in {x \in Members : entry[x].kind \in {"Attaching", "Removing"}}},
              "SessionStopped")

Next ==
    \/ \E m \in Members : SeedReady(m) \/ ReserveRepair(m) \/ BeginRemove(m)
    \/ \E m \in Members, retryFailed \in BOOLEAN : ReserveAttach(m, retryFailed)
    \/ \E o \in DOMAIN leases :
          CommitReady(o) \/ CommitFailed(o) \/ FinishRemove(o) \/ RestoreAfterRemove(o)
    \/ Stop

Spec == Init /\ [][Next]_vars

-----------------------------------------------------------------------------

\* Operations are numbered without a gap and every one of them has a channel.
TypeOK ==
    /\ entry \in [Members -> [kind : Kinds, op : 0..MaxOperations]]
    /\ stopped \in BOOLEAN
    /\ lastOp \in 0..MaxOperations
    /\ leases \in [1..lastOp -> Members]
    /\ outcome \in [1..lastOp -> Outcomes \cup {"Pending"}]

\* Whoever waits for an operation waits for one that still owns its member: its
\* lease holder is the only one who can end it, and it still can.  An operation
\* that was overtaken (by a removal, a new attach or the stop) has been answered.
WaitersHaveAnOwner ==
    \A o \in DOMAIN leases :
        outcome[o] = "Pending" <=> Holds(o, "Attaching") \/ Holds(o, "Removing")

\* The operation that an entry names is the newest one of the member, so a
\* late commit of an older lease never decides about the member.
NewestOperationDecides ==
    \A m \in Members : entry[m].op # 0 =>
        /\ entry[m].op \in DOMAIN leases
        /\ leases[entry[m].op] = m
        /\ \A o \in DOMAIN leases : leases[o] = m => o <= entry[m].op

\* An outcome that was announced is never rewritten (tests
\* failed_attach_outcome_is_not_rewritten_when_remove_begins and
\* failed_attach_outcome_is_not_rewritten_when_session_stops).
OutcomeIsFinal ==
    [][\A o \in DOMAIN leases : outcome[o] # "Pending" => outcome'[o] = outcome[o]]_vars

\* Only an attach of the member itself makes it ready again: a removal in
\* progress is never undone by a late commit_ready.
ReadyNeedsItsAttach ==
    [][\A m \in Members : entry'[m].kind = "Ready" /\ entry[m].kind \notin {"Absent", "Ready"} =>
          /\ entry[m].kind = "Attaching"
          /\ outcome'[entry[m].op] = "Ready"]_vars

=============================================================================
