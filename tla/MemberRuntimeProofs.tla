------------------------ MODULE MemberRuntimeProofs ------------------------
(***************************************************************************)
(* Proofs about MemberRuntime, for every set of members and every bound on *)
(* the number of operations.  The invariants are not inductive without     *)
(* OperationsAreNamed: a member without a going operation names none, and  *)
(* whoever owns a member names an operation of that member.                *)
(***************************************************************************)
EXTENDS MemberRuntime, TLAPS

\* Exactly the entries that an operation made and that can be waited for name it.
OperationsAreNamed ==
    \A m \in Members : entry[m].op = 0 <=> entry[m].kind \in {"Absent", "Ready"}

Inv == TypeOK /\ OperationsAreNamed /\ NewestOperationDecides /\ WaitersHaveAnOwner

\* The registry starts empty, with no operation.
LEMMA InitInv == Init => Inv
  <1> SUFFICES ASSUME Init PROVE Inv
    OBVIOUS
  <1>1. TypeOK
    <2>1. 1..0 = {}
      OBVIOUS
    <2>2. entry \in [Members -> [kind : Kinds, op : 0..MaxOperations]]
      BY MemberRuntimeAssumption DEF Init, Entry, Kinds
    <2>3. leases \in [1..lastOp -> Members] /\ outcome \in [1..lastOp -> Outcomes \cup {"Pending"}]
      BY <2>1 DEF Init
    <2>4. lastOp \in 0..MaxOperations
      BY MemberRuntimeAssumption DEF Init
    <2>5. stopped \in BOOLEAN
      BY Zenon DEF Init
    <2>. QED BY <2>2, <2>3, <2>4, <2>5 DEF TypeOK
  <1>2. OperationsAreNamed /\ NewestOperationDecides /\ WaitersHaveAnOwner
    BY DEF Init, Entry, OperationsAreNamed, NewestOperationDecides, WaitersHaveAnOwner
  <1>. QED BY <1>1, <1>2 DEF Inv

\* A new operation of member m that replaces an entry; the operations of
\* CancelledBy(m) are answered, and only they were pending for m.
LEMMA StartInv ==
    ASSUME Inv, NEW m \in Members, NEW kind \in {"Attaching", "Removing"},
           NEW x \in Outcomes, NEW S, S = CancelledBy(m),
           entry[m].kind # "Removing", Start(m, kind), Answer(S, x),
           stopped' = stopped
    PROVE  TypeOK' /\ OperationsAreNamed' /\ NewestOperationDecides' /\ WaitersHaveAnOwner'
  <1> USE MemberRuntimeAssumption DEF Inv
  <1>1. /\ lastOp \in Nat /\ lastOp' = lastOp + 1 /\ lastOp' \in 0..MaxOperations
        /\ DOMAIN leases = 1..lastOp /\ DOMAIN leases' = 1..lastOp'
        /\ leases'[lastOp'] = m
        /\ \A k \in 1..lastOp : leases'[k] = leases[k] /\ leases[k] \in Members
    BY DEF TypeOK, Start
  <1>2. /\ entry' \in [Members -> [kind : Kinds, op : 0..MaxOperations]]
        /\ entry'[m] = [kind |-> kind, op |-> lastOp']
        /\ \A a \in Members \ {m} : entry'[a] = entry[a]
    BY <1>1 DEF TypeOK, Start, Entry, Kinds
  <1>3. /\ outcome' \in [1..lastOp' -> Outcomes \cup {"Pending"}]
        /\ outcome'[lastOp'] = IF lastOp' \in S THEN x ELSE "Pending"
        /\ \A k \in 1..lastOp : outcome'[k] = IF k \in S THEN x ELSE outcome[k]
    BY <1>1 DEF TypeOK, Answer
  <1>4. \A k \in S : k \in 1..lastOp /\ leases[k] = m /\ entry[m].op = k
    BY <1>1 DEF CancelledBy, NewestOperationDecides, OperationsAreNamed, TypeOK
  <1>5. leases' \in [1..lastOp' -> Members]
    BY <1>1 DEF TypeOK, Start
  <1>6. OperationsAreNamed'
    BY <1>1, <1>2 DEF OperationsAreNamed
  <1>7. NewestOperationDecides'
    <2> SUFFICES ASSUME NEW a \in Members, entry'[a].op # 0
                 PROVE  /\ entry'[a].op \in 1..lastOp'
                        /\ leases'[entry'[a].op] = a
                        /\ \A o \in 1..lastOp' : leases'[o] = a => o <= entry'[a].op
      BY <1>1 DEF NewestOperationDecides
    <2>1. CASE a = m
      BY <2>1, <1>1, <1>2
    <2>2. CASE a # m
      <3>1. /\ entry'[a] = entry[a] /\ entry[a].op \in 1..lastOp /\ leases[entry[a].op] = a
            /\ \A o \in 1..lastOp : leases[o] = a => o <= entry[a].op
        BY <2>2, <1>1, <1>2 DEF NewestOperationDecides
      <3>. QED BY <3>1, <2>2, <1>1
    <2>. QED BY <2>1, <2>2
  <1>8. ASSUME NEW o \in 1..lastOp, leases[o] # m
        PROVE  outcome'[o] = "Pending" <=> (Holds(o, "Attaching") \/ Holds(o, "Removing"))'
    BY <1>1, <1>2, <1>3, <1>4, <1>8 DEF WaitersHaveAnOwner, Holds, Entry
  <1>9. ASSUME NEW o \in 1..lastOp, leases[o] = m
        PROVE  outcome'[o] # "Pending" /\ ~(Holds(o, "Attaching") \/ Holds(o, "Removing"))'
    <2>1. ~(Holds(o, "Attaching") \/ Holds(o, "Removing"))'
      BY <1>1, <1>2, <1>9 DEF Holds, Entry
    <2>2. CASE o \in S
      BY <1>3, <2>1, <2>2 DEF Outcomes
    <2>3. CASE o \notin S
      <3>1. ~Holds(o, "Attaching") /\ ~Holds(o, "Removing")
        BY <2>3, <1>9 DEF Holds, Entry, CancelledBy
      <3>2. outcome[o] # "Pending"
        BY <3>1, <1>1 DEF WaitersHaveAnOwner
      <3>. QED BY <1>3, <2>1, <2>3, <3>2
    <2>. QED BY <2>2, <2>3
  <1>10. outcome'[lastOp'] = "Pending" /\ (Holds(lastOp, "Attaching") \/ Holds(lastOp, "Removing"))'
    BY <1>1, <1>2, <1>3, <1>4 DEF Holds, Entry
  <1>11. WaitersHaveAnOwner'
    BY <1>1, <1>8, <1>9, <1>10 DEF WaitersHaveAnOwner, Holds
  <1>. QED BY <1>1, <1>2, <1>3, <1>5, <1>6, <1>7, <1>11 DEF TypeOK, Start

\* The owner of operation o ends it: its member gets another entry, and those
\* who wait for o are answered.
LEMMA EndInv ==
    ASSUME Inv, NEW o \in DOMAIN leases, NEW e \in [kind : Kinds, op : 0..MaxOperations],
           NEW x \in Outcomes,
           Holds(o, "Attaching") \/ Holds(o, "Removing"),
           e \in {Entry("Ready", 0), Entry("Absent", 0), Entry("Failed", o)},
           entry' = [entry EXCEPT ![leases[o]] = e],
           UNCHANGED <<lastOp, leases>>, Answer({o}, x)
    PROVE  entry' \in [Members -> [kind : Kinds, op : 0..MaxOperations]] /\
           outcome' \in [1..lastOp -> Outcomes \cup {"Pending"}] /\
           OperationsAreNamed' /\ NewestOperationDecides' /\ WaitersHaveAnOwner'
  <1> USE MemberRuntimeAssumption DEF Inv
  <1>1. /\ lastOp \in Nat /\ DOMAIN leases = 1..lastOp /\ lastOp' = lastOp /\ leases' = leases
        /\ \A k \in 1..lastOp : leases[k] \in Members
        /\ o \in Nat \ {0} /\ entry[leases[o]].op = o
    BY DEF TypeOK, Holds, Entry
  <1>2. /\ entry' \in [Members -> [kind : Kinds, op : 0..MaxOperations]]
        /\ entry'[leases[o]] = e
        /\ \A a \in Members \ {leases[o]} : entry'[a] = entry[a]
    BY <1>1 DEF TypeOK
  <1>3. /\ outcome' \in [1..lastOp -> Outcomes \cup {"Pending"}]
        /\ outcome'[o] = x
        /\ \A k \in 1..lastOp : k # o => outcome'[k] = outcome[k]
    BY <1>1 DEF TypeOK, Answer
  <1>4. OperationsAreNamed'
    BY <1>1, <1>2 DEF OperationsAreNamed, Entry
  <1>5. NewestOperationDecides'
    BY <1>1, <1>2 DEF NewestOperationDecides, Entry, TypeOK
  <1>6. WaitersHaveAnOwner'
    <2> SUFFICES ASSUME NEW k \in 1..lastOp
                 PROVE  outcome'[k] = "Pending" <=> (Holds(k, "Attaching") \/ Holds(k, "Removing"))'
      BY <1>1 DEF WaitersHaveAnOwner
    <2>1. CASE k = o
      BY <2>1, <1>1, <1>2, <1>3 DEF Holds, Entry, Outcomes
    <2>2. CASE k # o /\ leases[k] = leases[o]
      BY <2>2, <1>1, <1>2, <1>3 DEF Holds, Entry, WaitersHaveAnOwner
    <2>3. CASE leases[k] # leases[o]
      BY <2>3, <1>1, <1>2, <1>3 DEF Holds, Entry, WaitersHaveAnOwner
    <2>. QED BY <2>1, <2>2, <2>3
  <1>. QED BY <1>2, <1>3, <1>4, <1>5, <1>6

\* Every method of the registry preserves the invariant.
LEMMA NextInv == Inv /\ [Next]_vars => Inv'
  <1> SUFFICES ASSUME Inv, [Next]_vars PROVE Inv'
    OBVIOUS
  <1> USE MemberRuntimeAssumption
  <1>1. ASSUME NEW m \in Members, SeedReady(m) PROVE Inv'
    <2>1. TypeOK'
      BY <1>1 DEF Inv, SeedReady, TypeOK, Entry, Kinds
    <2>2. OperationsAreNamed' /\ NewestOperationDecides'
      BY <1>1 DEF Inv, SeedReady, TypeOK, Entry, OperationsAreNamed, NewestOperationDecides
    <2>3. WaitersHaveAnOwner'
      BY <1>1 DEF Inv, SeedReady, TypeOK, Entry, Holds, WaitersHaveAnOwner
    <2>. QED BY <2>1, <2>2, <2>3 DEF Inv
  <1>2. ASSUME NEW m \in Members, NEW b \in BOOLEAN, ReserveAttach(m, b) \/ ReserveRepair(m)
        PROVE  Inv'
    <2>1. CancelledBy(m) = {} /\ entry[m].kind # "Removing"
      BY <1>2 DEF ReserveAttach, ReserveRepair, CancelledBy
    <2>2. Start(m, "Attaching") /\ Answer({}, "Ready") /\ "Ready" \in Outcomes /\ stopped' = stopped
      BY <1>2 DEF ReserveAttach, ReserveRepair, Outcomes
    <2>. QED BY <2>1, <2>2, StartInv DEF Inv
  <1>3. ASSUME NEW m \in Members, BeginRemove(m) PROVE Inv'
    <2>1. /\ entry[m].kind # "Removing" /\ Start(m, "Removing")
          /\ Answer(CancelledBy(m), "Removed") /\ "Removed" \in Outcomes /\ stopped' = stopped
      BY <1>3 DEF BeginRemove, Outcomes
    <2>. QED BY <2>1, StartInv DEF Inv
  <1>4. ASSUME NEW o \in DOMAIN leases,
               CommitReady(o) \/ CommitFailed(o) \/ FinishRemove(o) \/ RestoreAfterRemove(o)
        PROVE  Inv'
    <2> DEFINE rec == [kind : Kinds, op : 0..MaxOperations]
    <2>1. Entry("Ready", 0) \in rec /\ Entry("Absent", 0) \in rec /\ Entry("Failed", o) \in rec
      BY DEF Entry, Kinds, Inv, TypeOK
    <2>2. /\ Holds(o, "Attaching") \/ Holds(o, "Removing")
          /\ UNCHANGED <<lastOp, leases>> /\ UNCHANGED stopped
          /\ \E e \in {Entry("Ready", 0), Entry("Absent", 0), Entry("Failed", o)}, x \in Outcomes :
                entry' = [entry EXCEPT ![leases[o]] = e] /\ Answer({o}, x)
      BY <1>4 DEF CommitReady, CommitFailed, FinishRemove, RestoreAfterRemove, Outcomes
    <2>3. PICK e \in {Entry("Ready", 0), Entry("Absent", 0), Entry("Failed", o)}, x \in Outcomes :
             entry' = [entry EXCEPT ![leases[o]] = e] /\ Answer({o}, x)
      BY <2>2
    <2>4. e \in rec
      BY <2>1
    <2> HIDE DEF rec
    <2>5. /\ entry' \in [Members -> [kind : Kinds, op : 0..MaxOperations]]
          /\ outcome' \in [1..lastOp -> Outcomes \cup {"Pending"}]
          /\ OperationsAreNamed' /\ NewestOperationDecides' /\ WaitersHaveAnOwner'
      BY <2>2, <2>3, <2>4, EndInv DEF rec
    <2>. QED BY <2>2, <2>5 DEF Inv, TypeOK
  <1>5. ASSUME Stop PROVE Inv'
    <2>1. TypeOK'
      BY <1>5 DEF Inv, Stop, TypeOK, Entry, Kinds, Answer, Outcomes
    <2>2. OperationsAreNamed' /\ NewestOperationDecides'
      BY <1>5 DEF Stop, Entry, OperationsAreNamed, NewestOperationDecides
    <2>3. ASSUME NEW o \in 1..lastOp
          PROVE  outcome'[o] # "Pending" /\ ~(Holds(o, "Attaching") \/ Holds(o, "Removing"))'
      <3>1. leases[o] \in Members /\ outcome[o] \in Outcomes \cup {"Pending"}
            /\ lastOp' = lastOp /\ leases' = leases
        BY <1>5 DEF Inv, TypeOK, Stop
      <3>2. ~(Holds(o, "Attaching") \/ Holds(o, "Removing"))'
        BY <1>5, <3>1 DEF Stop, Holds, Entry
      <3>3. outcome[o] = "Pending" =>
               entry[leases[o]].kind \in {"Attaching", "Removing"} /\ entry[leases[o]].op = o
        BY DEF Inv, WaitersHaveAnOwner, Holds, Entry, TypeOK
      <3>4. outcome'[o] # "Pending"
        BY <1>5, <3>1, <3>3 DEF Stop, Answer
      <3>. QED BY <3>2, <3>4
    <2>4. WaitersHaveAnOwner'
      BY <2>3, <1>5 DEF WaitersHaveAnOwner, Stop, Inv, TypeOK
    <2>. QED BY <2>1, <2>2, <2>4 DEF Inv
  <1>6. CASE UNCHANGED vars
    BY <1>6 DEF Inv, vars, TypeOK, OperationsAreNamed, NewestOperationDecides, WaitersHaveAnOwner,
                Holds
  <1>. QED BY <1>1, <1>2, <1>3, <1>4, <1>5, <1>6 DEF Next

\* The invariant holds in every reachable state.
THEOREM RegistryInvariant == Spec => []Inv
  BY InitInv, NextInv, PTL DEF Spec

\* Types: operations are numbered without a gap and each has its channel.
THEOREM TypeCorrect == Spec => []TypeOK
  BY RegistryInvariant, PTL DEF Inv

\* Nobody waits for an operation that no lease holder can end any more.
THEOREM WaitersCorrect == Spec => []WaitersHaveAnOwner
  BY RegistryInvariant, PTL DEF Inv

\* The newest operation of a member is the one that decides about it.
THEOREM NewestCorrect == Spec => []NewestOperationDecides
  BY RegistryInvariant, PTL DEF Inv

-----------------------------------------------------------------------------

\* A step answers pending operations only; see WaitersHaveAnOwner.
LEMMA AnswersPending ==
    ASSUME Inv, Next, NEW o \in DOMAIN leases, outcome[o] # "Pending"
    PROVE  outcome'[o] = outcome[o]
  <1>1. /\ o \in 1..lastOp /\ lastOp \in Nat /\ leases[o] \in Members
        /\ ~Holds(o, "Attaching") /\ ~Holds(o, "Removing")
    BY DEF Inv, TypeOK, WaitersHaveAnOwner
  <1>2. ASSUME NEW S, NEW x, Answer(S, x), o \notin S, lastOp' \in {lastOp, lastOp + 1}
        PROVE  outcome'[o] = outcome[o]
    BY <1>1, <1>2 DEF Answer
  <1>3. \A m \in Members : o \notin CancelledBy(m)
    BY <1>1 DEF CancelledBy, Inv, OperationsAreNamed, NewestOperationDecides, TypeOK, Holds, Entry
  <1>4. ASSUME NEW m \in Members, SeedReady(m) PROVE outcome'[o] = outcome[o]
    BY <1>4 DEF SeedReady
  <1>5. ASSUME NEW m \in Members, NEW b \in BOOLEAN,
               ReserveAttach(m, b) \/ ReserveRepair(m) \/ BeginRemove(m)
        PROVE  outcome'[o] = outcome[o]
    BY <1>2, <1>3, <1>5 DEF ReserveAttach, ReserveRepair, BeginRemove, Start
  <1>6. ASSUME NEW k \in DOMAIN leases,
               CommitReady(k) \/ CommitFailed(k) \/ FinishRemove(k) \/ RestoreAfterRemove(k)
        PROVE  outcome'[o] = outcome[o]
    <2>1. o \notin {k}
      BY <1>1, <1>6 DEF CommitReady, CommitFailed, FinishRemove, RestoreAfterRemove
    <2>. QED BY <1>2, <1>6, <2>1 DEF CommitReady, CommitFailed, FinishRemove, RestoreAfterRemove
  <1>7. ASSUME Stop PROVE outcome'[o] = outcome[o]
    <2> DEFINE S == {entry[m].op : m \in {y \in Members : entry[y].kind \in {"Attaching", "Removing"}}}
    <2>1. o \notin S
      BY <1>1 DEF Inv, OperationsAreNamed, NewestOperationDecides, TypeOK, Holds, Entry
    <2>2. Answer(S, "SessionStopped") /\ lastOp' = lastOp
      BY <1>7 DEF Stop
    <2> HIDE DEF S
    <2>. QED BY <1>2, <2>1, <2>2
  <1>. QED BY <1>4, <1>5, <1>6, <1>7 DEF Next

\* An outcome that was announced to the waiters is never rewritten.
THEOREM OutcomeFinal == Spec => OutcomeIsFinal
  <1>1. Inv /\ [Next]_vars =>
          [\A o \in DOMAIN leases : outcome[o] # "Pending" => outcome'[o] = outcome[o]]_vars
    BY AnswersPending
  <1>. QED BY <1>1, RegistryInvariant, PTL DEF Spec, OutcomeIsFinal

\* A member becomes ready again only through its own, newest attach.
THEOREM ReadyCorrect == Spec => ReadyNeedsItsAttach
  <1> DEFINE A == \A m \in Members :
                    entry'[m].kind = "Ready" /\ entry[m].kind \notin {"Absent", "Ready"} =>
                      /\ entry[m].kind = "Attaching"
                      /\ outcome'[entry[m].op] = "Ready"
  <1>1. ASSUME Inv, Next, NEW m \in Members, entry'[m].kind = "Ready",
               entry[m].kind \notin {"Absent", "Ready"}
        PROVE  entry[m].kind = "Attaching" /\ outcome'[entry[m].op] = "Ready"
    <2>1. PICK o \in DOMAIN leases : CommitReady(o) /\ leases[o] = m
      <3>1. ASSUME NEW a \in Members, NEW b \in BOOLEAN,
                   SeedReady(a) \/ ReserveAttach(a, b) \/ ReserveRepair(a) \/ BeginRemove(a)
            PROVE  FALSE
        <4>1. CASE SeedReady(a)
          BY <1>1, <4>1 DEF SeedReady, Entry, Inv, TypeOK
        <4>2. ASSUME NEW kind \in {"Attaching", "Removing"}, Start(a, kind) PROVE FALSE
          BY <1>1, <4>2 DEF Start, Entry, Inv, TypeOK
        <4>. QED BY <3>1, <4>1, <4>2 DEF ReserveAttach, ReserveRepair, BeginRemove
      <3>2. ASSUME NEW k \in DOMAIN leases, CommitFailed(k) \/ FinishRemove(k) \/ RestoreAfterRemove(k)
            PROVE  FALSE
        <4>1. ASSUME NEW kind \in {"Failed", "Absent"}, NEW op,
                     entry' = [entry EXCEPT ![leases[k]] = Entry(kind, op)]
              PROVE  FALSE
          BY <1>1, <4>1 DEF Entry, Inv, TypeOK
        <4>. QED BY <3>2, <4>1 DEF CommitFailed, FinishRemove, RestoreAfterRemove
      <3>3. ASSUME NEW k \in DOMAIN leases, CommitReady(k), leases[k] # m PROVE FALSE
        BY <1>1, <3>3 DEF CommitReady, Entry, Inv, TypeOK
      <3>4. ~Stop
        BY <1>1 DEF Stop, Entry
      <3>. QED BY <1>1, <3>1, <3>2, <3>3, <3>4 DEF Next
    <2>. QED BY <1>1, <2>1 DEF CommitReady, Holds, Entry, Answer, Inv, TypeOK
  <1>2. Inv /\ [Next]_vars => [A]_vars
    BY <1>1
  <1>. QED BY <1>2, RegistryInvariant, PTL DEF Spec, ReadyNeedsItsAttach

=============================================================================
