------------------------- MODULE TeamServiceProofs -------------------------
(***************************************************************************)
(* Proofs about TeamService, for every number of requests, members,        *)
(* sessions and operations.  ServiceInv says what the requests, the attach *)
(* tasks and the sessions rely on of one another; RowInv who may write     *)
(* which roster; CleanInv what is left of a removed member in the session  *)
(* that is published.                                                      *)
(***************************************************************************)
EXTENDS TeamService, TLAPS

-----------------------------------------------------------------------------
(* The registry of one session                                              *)

Kinds    == {"Absent", "Attaching", "Ready", "Failed", "Removing"}
Outcomes == {"Pending", "Ready", "Failed", "Removed", "SessionStopped"}

\* What a registry looks like.
RegType(n) == [entry : [Slots -> [kind : Kinds, op : Nat]], lastOp : {n},
               leases : [1..n -> Slots], outcome : [1..n -> Outcomes], stopped : BOOLEAN]

\* An operation that is waited for owns its member (MemberRuntime has this too).
RegOK(r) ==
    /\ r.lastOp \in Nat /\ r \in RegType(r.lastOp)
    /\ \A m \in Slots : r.entry[m].op = 0 <=> r.entry[m].kind \in {"Absent", "Ready"}
    /\ \A m \in Slots : r.entry[m].op # 0 =>
          r.entry[m].op \in 1..r.lastOp /\ r.leases[r.entry[m].op] = m
    /\ \A o \in 1..r.lastOp : r.outcome[o] = "Pending" =>
          r.entry[r.leases[o]] \in {Entry("Attaching", o), Entry("Removing", o)}
    /\ r.stopped => r.entry = Registry.entry

\* Operation o is, or was, the attach of its member.
AttachOp(r, o) == o \in 1..r.lastOp /\ r.entry[r.leases[o]] # Entry("Removing", o)

\* A registry in which nothing but seed_ready has happened.
Untouched(r) == ~r.stopped /\ r.lastOp = 0

-----------------------------------------------------------------------------
(* What a request may carry with it                                         *)

Fields == {"op", "pc", "slot", "mx", "holds", "ensures", "snap", "gen", "lease", "waits",
           "owned", "todo", "targets"}

CallTyped(c) ==
    /\ DOMAIN c = Fields
    /\ c.slot \in Slots /\ c.snap \subseteq Slots /\ c.todo \subseteq Slots /\ c.targets \subseteq Slots

Starting == {"rebuild", "failing", "seed"}
Holding  == Starting \cup {"find", "start", "reserve", "provision", "persist", "unlist"}
Removing == {"kill", "reload", "unlist", "retire", "detach", "finish"}

\* The mutexes of request c.
LocksOK(c) ==
    /\ c.mx \in 0..mutex
    /\ c.pc \in Holding => c.holds
    /\ c.holds => c.mx # 0
    /\ c.pc \in {"load", "edit", "remove", "kill", "reload"} => c.mx # 0 /\ ~c.holds
    /\ c.pc \in {"begin", "check", "look"} => ~c.holds
    /\ c.pc \in {"edit", "persist"} => c.op \in {"add", "spawn", "rename"}
    /\ c.pc = "provision" => c.op \in {"add", "spawn"}
    /\ c.pc \in {"admit", "welcome"} => c.op \in {"add", "spawn"} /\ (c.holds <=> c.op = "add")
    /\ c.ensures <=> c.pc \in Starting \cup {"recover"}

\* The session of request c.
GenOK(c) ==
    /\ c.gen \in 0..gens
    /\ c.pc \in Starting \cup {"reserve", "wait", "stop", "welcome", "join", "detach", "finish"}
         => c.gen # None
    /\ c.op = "spawn" => published # None /\ (c.pc # "delete" => c.gen = published)
    /\ c.pc = "stop" => published # c.gen /\ ~reg[c.gen].stopped
    /\ c.pc \in Starting =>
          /\ published = None
          /\ Untouched(reg[c.gen])
          /\ sched[c.gen] = c.snap
          /\ c.pc # "seed" => loops[c.gen] = {} /\ reg[c.gen].entry = Registry.entry
          /\ c.pc = "seed" => loops[c.gen] = c.snap /\ c.todo \subseteq c.snap
          /\ \A m \in Slots : reg[c.gen].entry[m].kind # "Absent" => m \in c.snap \ c.todo

\* The operations of request c.
OpsOK(c) ==
    /\ c.pc \in {"begin", "check", "look", "load", "find", "start"} => c.owned = {}
    /\ c.pc = "reserve" => \A o \in c.owned : AttachOp(reg[c.gen], o)
    /\ c.lease # 0 =>
          /\ c.gen # None
          /\ c.pc \in Removing \cup {"welcome", "remove"}
          /\ c.lease \in 1..reg[c.gen].lastOp
          /\ reg[c.gen].leases[c.lease] = c.slot
          /\ c.pc \in {"welcome", "remove"} => c.op = "spawn" \/ c.pc = "welcome"
          /\ c.pc \in {"welcome", "remove"} => AttachOp(reg[c.gen], c.lease)
          /\ c.pc \in Removing /\ ~reg[c.gen].stopped =>
                reg[c.gen].entry[c.slot] = Entry("Removing", c.lease)

CallOK(c) == CallTyped(c) /\ LocksOK(c) /\ GenOK(c) /\ OpsOK(c)

\* What keeps two requests apart.
Apart(c, d) ==
    /\ ~(c.holds /\ d.holds /\ c.mx = d.mx)
    /\ ~(c.ensures /\ d.ensures)
    /\ c.pc \in Starting => d.gen # c.gen
    /\ c.pc = "stop" /\ d.pc = "stop" => d.gen # c.gen
    /\ c.lease # 0 /\ d.gen = c.gen => d.lease # c.lease

AttachOK(a) ==
    /\ DOMAIN a = {"gen", "op", "pc", "fresh"} /\ a.gen \in 1..gens
    /\ AttachOp(reg[a.gen], a.op)
    /\ a.pc \in {"announce", "clean"} => reg[a.gen].outcome[a.op] # "Pending"

\* Sessions: the ones still to come are untouched, the published one runs.
SessionsOK ==
    /\ gens \in 0..MaxGenerations /\ published \in 0..gens
    /\ DOMAIN reg = Generations /\ \A g \in Generations : RegOK(reg[g])
    /\ sched \in [Generations -> SUBSET Slots]
    /\ loops \in [Generations -> SUBSET Slots]
    /\ \A g \in Generations : g > gens => reg[g] = Registry /\ loops[g] = {}
    /\ published # None => ~reg[published].stopped
    /\ \A g \in Generations : reg[g].stopped => loops[g] = {}

RowsOK ==
    /\ team \in {"none", "active", "archived", "deleted"}
    /\ roster \subseteq Slots /\ convs \subseteq Slots /\ tasks \subseteq Slots
    /\ removed \subseteq Slots /\ unlocked \in BOOLEAN
    /\ mutex \in Nat \ {0}

CallsOK ==
    /\ DOMAIN call = Callers
    /\ \A t \in Callers : CallOK(call[t])
    /\ \A t, u \in Callers : t # u => Apart(call[t], call[u])

ServiceInv ==
    /\ RowsOK
    /\ SessionsOK
    /\ CallsOK
    /\ \A a \in attaches : AttachOK(a)
    /\ NoOrphanSession

-----------------------------------------------------------------------------
(* What the operations of a registry do                                     *)

\* How a registry may change: operations keep their member, an answer stays, a
\* stop is final, and an attach never turns into a removal.
Evolves(r, s) ==
    /\ s.lastOp \in Nat /\ r.lastOp <= s.lastOp
    /\ \A o \in 1..r.lastOp : /\ s.leases[o] = r.leases[o]
                              /\ r.outcome[o] # "Pending" => s.outcome[o] # "Pending"
    /\ r.stopped => s.stopped
    /\ \A o \in 1..r.lastOp : AttachOp(r, o) => AttachOp(s, o)

\* The parts of a registry.
LEMMA RegParts ==
  ASSUME NEW r, RegOK(r)
  PROVE  /\ r.lastOp \in Nat
         /\ r.entry \in [Slots -> [kind : Kinds, op : Nat]]
         /\ r.leases \in [1..r.lastOp -> Slots] /\ r.outcome \in [1..r.lastOp -> Outcomes]
         /\ r.stopped \in BOOLEAN
  <1>1. r \in RegType(r.lastOp) /\ r.lastOp \in Nat
    BY DEF RegOK
  <1>2. r.stopped \in BOOLEAN
    BY <1>1, Zenon DEF RegType
  <1>. QED BY <1>1, <1>2 DEF RegType

\* A record with the right parts is a registry of that type.
LEMMA RegTyped ==
  ASSUME NEW n \in Nat, NEW e \in [Slots -> [kind : Kinds, op : Nat]],
         NEW l \in [1..n -> Slots], NEW w \in [1..n -> Outcomes], NEW b \in BOOLEAN
  PROVE  [entry |-> e, lastOp |-> n, leases |-> l, outcome |-> w, stopped |-> b] \in RegType(n)
  BY Zenon DEF RegType

\* The registry of a new session.
LEMMA RegistryOK == RegOK(Registry) /\ Untouched(Registry)
  <1>1. 1..0 = {}
    OBVIOUS
  <1>2. /\ Registry.lastOp = 0
        /\ Registry.entry = [m \in Slots |-> Entry("Absent", 0)]
        /\ ~Registry.stopped
    BY DEF Registry
  <1>3. Registry \in RegType(0)
    <2>1. [m \in Slots |-> Entry("Absent", 0)] \in [Slots -> [kind : Kinds, op : Nat]]
      BY DEF Entry, Kinds
    <2>2. [o \in {} |-> {}] \in [1..0 -> Slots] /\ [o \in {} |-> {}] \in [1..0 -> Outcomes]
      BY <1>1
    <2>3. 0 \in Nat
      OBVIOUS
    <2>4. FALSE \in BOOLEAN
      OBVIOUS
    <2>. QED BY <2>1, <2>2, <2>3, <2>4, RegTyped DEF Registry
  <1>. QED BY <1>1, <1>2, <1>3 DEF RegOK, Entry, Untouched

\* What a new operation changes.
LEMMA StartedFields ==
  ASSUME NEW r, NEW n \in Nat, r.lastOp = n, NEW m, NEW kind, NEW s, s = Started(r, m, kind)
  PROVE  /\ s.lastOp = n + 1 /\ s.stopped = r.stopped
         /\ s.leases[n + 1] = m /\ s.outcome[n + 1] = "Pending"
         /\ \A o \in 1..n : /\ s.leases[o] = r.leases[o]
                            /\ s.outcome[o] = IF r.entry[m] = Entry("Attaching", o) THEN "Removed" ELSE r.outcome[o]
  <1>1. s.leases = [o \in 1..(n + 1) |-> IF o = n + 1 THEN m ELSE r.leases[o]]
    BY DEF Started
  <1>2. s.outcome = [o \in 1..(n + 1) |-> IF o = n + 1 THEN "Pending"
                                         ELSE IF r.entry[m] = Entry("Attaching", o) THEN "Removed" ELSE r.outcome[o]]
    BY DEF Started
  <1>3. s.lastOp = n + 1 /\ s.stopped = r.stopped
    BY DEF Started
  <1>4. n + 1 \in 1..(n + 1) /\ \A o \in 1..n : o \in 1..(n + 1) /\ o # n + 1
    OBVIOUS
  <1>. QED BY <1>1, <1>2, <1>3, <1>4, Zenon

\* A new operation leaves a registry well formed.
LEMMA StartedTyped ==
  ASSUME NEW r, RegOK(r), NEW m \in Slots, NEW kind \in Kinds
  PROVE  Started(r, m, kind) \in RegType(r.lastOp + 1)
  <1>0. PICK n \in Nat : n = r.lastOp
    BY RegParts
  <1>1. /\ r.entry \in [Slots -> [kind : Kinds, op : Nat]]
        /\ r.leases \in [1..n -> Slots] /\ r.outcome \in [1..n -> Outcomes]
        /\ r.stopped \in BOOLEAN
    BY <1>0, RegParts, Zenon
  <1>2. PICK e, l, w :
           /\ e = [r.entry EXCEPT ![m] = Entry(kind, n + 1)]
           /\ l = [o \in 1..(n + 1) |-> IF o = n + 1 THEN m ELSE r.leases[o]]
           /\ w = [o \in 1..(n + 1) |-> IF o = n + 1 THEN "Pending"
                     ELSE IF r.entry[m] = Entry("Attaching", o) THEN "Removed" ELSE r.outcome[o]]
    OBVIOUS
  <1>3. Started(r, m, kind) = [entry |-> e, lastOp |-> n + 1, leases |-> l, outcome |-> w,
                               stopped |-> r.stopped]
    BY <1>0, <1>2 DEF Started
  <1>4. n + 1 \in Nat /\ \A o \in 1..(n + 1) : o # n + 1 => o \in 1..n
    OBVIOUS
  <1>5. e \in [Slots -> [kind : Kinds, op : Nat]]
    BY <1>1, <1>2, <1>4 DEF Entry
  <1>6. l \in [1..(n + 1) -> Slots]
    BY <1>1, <1>2, <1>4, Zenon
  <1>7. w \in [1..(n + 1) -> Outcomes]
    <2>1. "Pending" \in Outcomes /\ "Removed" \in Outcomes
      BY DEF Outcomes
    <2>. QED BY <2>1, <1>1, <1>2, <1>4
  <1>8. Started(r, m, kind) \in RegType(n + 1)
    <2>1. [entry |-> e, lastOp |-> n + 1, leases |-> l, outcome |-> w, stopped |-> r.stopped]
            \in RegType(n + 1)
      BY <1>1, <1>4, <1>5, <1>6, <1>7, Zenon DEF RegType
    <2>. QED BY <2>1, <1>3, Zenon
  <1>. QED BY <1>0, <1>8, Zenon

\* A new operation of m; an attach that it supersedes is answered.
LEMMA StartedOK ==
  ASSUME NEW r, RegOK(r), NEW m \in Slots, NEW kind \in {"Attaching", "Removing"}, 
         ~r.stopped, r.entry[m].kind # "Removing", NEW s, s = Started(r, m, kind)
  PROVE
         /\ RegOK(s) /\ Evolves(r, s) /\ ~s.stopped
         /\ s.lastOp = r.lastOp + 1
         /\ s.entry = [r.entry EXCEPT ![m] = Entry(kind, s.lastOp)]
         /\ s.leases[s.lastOp] = m
         /\ \A o \in 1..r.lastOp : s.outcome[o] = "Pending" => r.outcome[o] = "Pending" /\ r.leases[o] # m
  <1>0. PICK n \in Nat, k \in Nat : n = r.lastOp /\ k = n + 1
    BY RegParts
  <1>1. /\ r.entry \in [Slots -> [kind : Kinds, op : Nat]] /\ r.leases \in [1..n -> Slots]
    BY <1>0, RegParts, Zenon
  <1>2. s.entry = [r.entry EXCEPT ![m] = Entry(kind, k)]
    BY <1>0 DEF Started
  <1>3. /\ s.lastOp = k /\ s.stopped = r.stopped
        /\ s.leases[k] = m /\ s.outcome[k] = "Pending"
        /\ \A o \in 1..n : /\ s.leases[o] = r.leases[o]
                           /\ s.outcome[o] = IF r.entry[m] = Entry("Attaching", o) THEN "Removed" ELSE r.outcome[o]
    BY <1>0, StartedFields
  <1>4. /\ s.entry[m] = Entry(kind, k)
        /\ \A a \in Slots : a # m => s.entry[a] = r.entry[a]
    BY <1>1, <1>2, Zenon
  <1>5. s \in RegType(k)
    <2>1. kind \in Kinds
      BY DEF Kinds
    <2>. QED BY <1>0, <2>1, StartedTyped
  <1>6. \A o \in 1..n : s.outcome[o] = "Pending" => r.outcome[o] = "Pending" /\ r.leases[o] # m
    <2> SUFFICES ASSUME NEW o \in 1..n, s.outcome[o] = "Pending"
                 PROVE  r.outcome[o] = "Pending" /\ r.leases[o] # m
      OBVIOUS
    <2>1. r.entry[m] # Entry("Attaching", o) /\ r.outcome[o] = "Pending"
      BY <1>3
    <2>2. r.entry[r.leases[o]] \in {Entry("Attaching", o), Entry("Removing", o)}
      BY <1>0, <2>1 DEF RegOK
    <2>. QED BY <2>1, <2>2 DEF Entry
  <1>7. RegOK(s)
    <2>1. \A a \in Slots : s.entry[a].op = 0 <=> s.entry[a].kind \in {"Absent", "Ready"}
      <3>1. \A a \in Slots : r.entry[a].op = 0 <=> r.entry[a].kind \in {"Absent", "Ready"}
        BY DEF RegOK
      <3>. QED BY <1>0, <3>1, <1>4 DEF Entry
    <2>2. \A a \in Slots : s.entry[a].op # 0 => s.entry[a].op \in 1..k /\ s.leases[s.entry[a].op] = a
      <3>1. \A a \in Slots : r.entry[a].op # 0 => r.entry[a].op \in 1..n /\ r.leases[r.entry[a].op] = a
        BY <1>0 DEF RegOK
      <3>2. 1..n \subseteq 1..k /\ k \in 1..k
        BY <1>0
      <3> SUFFICES ASSUME NEW a \in Slots, s.entry[a].op # 0
                   PROVE  s.entry[a].op \in 1..k /\ s.leases[s.entry[a].op] = a
        OBVIOUS
      <3>3. CASE a = m
        <4>1. s.entry[a].op = k
          BY <3>3, <1>4 DEF Entry
        <4>. QED BY <4>1, <3>2, <3>3, <1>3, Zenon
      <3>4. CASE a # m
        <4>1. s.entry[a] = r.entry[a]
          BY <3>4, <1>4
        <4>. QED BY <4>1, <3>1, <3>2, <1>3, Zenon
      <3>. QED BY <3>3, <3>4
    <2>3. \A o \in 1..k : s.outcome[o] = "Pending" =>
             s.entry[s.leases[o]] \in {Entry("Attaching", o), Entry("Removing", o)}
      <3> SUFFICES ASSUME NEW o \in 1..k, s.outcome[o] = "Pending"
                   PROVE  s.entry[s.leases[o]] \in {Entry("Attaching", o), Entry("Removing", o)}
        OBVIOUS
      <3>1. CASE o = k
        BY <3>1, <1>3, <1>4
      <3>2. CASE o # k
        <4>1. o \in 1..n
          BY <1>0, <3>2
        <4>2. r.outcome[o] = "Pending" /\ r.leases[o] # m /\ r.leases[o] \in Slots
          BY <4>1, <1>1, <1>6, Zenon
        <4>3. s.leases[o] = r.leases[o] /\ s.entry[r.leases[o]] = r.entry[r.leases[o]]
          BY <4>1, <4>2, <1>3, <1>4, Zenon
        <4>4. r.entry[r.leases[o]] \in {Entry("Attaching", o), Entry("Removing", o)}
          BY <1>0, <4>1, <4>2 DEF RegOK
        <4>. QED BY <4>3, <4>4, Zenon
      <3>. QED BY <3>1, <3>2
    <2>4. ~s.stopped
      BY <1>3, Zenon
    <2>. QED BY <1>0, <2>1, <2>2, <2>3, <2>4, <1>3, <1>5, Zenon DEF RegOK
  <1>8. Evolves(r, s)
    <2>1. \A o \in 1..n : AttachOp(r, o) => AttachOp(s, o)
      <3> SUFFICES ASSUME NEW o \in 1..n, r.entry[r.leases[o]] # Entry("Removing", o)
                   PROVE  o \in 1..k /\ s.entry[s.leases[o]] # Entry("Removing", o)
        BY <1>0, <1>3, Zenon DEF AttachOp
      <3>1. o \in 1..k /\ o # k
        BY <1>0
      <3>2. s.leases[o] = r.leases[o] /\ r.leases[o] \in Slots
        BY <1>1, <1>3
      <3>3. CASE r.leases[o] = m
        BY <3>1, <3>2, <3>3, <1>4 DEF Entry
      <3>4. CASE r.leases[o] # m
        <4>1. s.entry[r.leases[o]] = r.entry[r.leases[o]]
          BY <3>2, <3>4, <1>4, Zenon
        <4>. QED BY <4>1, <3>1, <3>2, Zenon
      <3>. QED BY <3>3, <3>4
    <2>2. n <= k
      BY <1>0
    <2>3. \A o \in 1..n : r.outcome[o] # "Pending" => s.outcome[o] # "Pending"
      BY <1>6, Zenon
    <2>. QED BY <1>0, <2>1, <2>2, <2>3, <1>3, Zenon DEF Evolves
  <1>. QED BY <1>0, <1>2, <1>3, <1>6, <1>7, <1>8, Zenon

\* The owner of operation o ends it.
LEMMA EndedOK ==
  ASSUME NEW r, RegOK(r), NEW o \in 1..r.lastOp, ~r.stopped,
         NEW kind \in {"Attaching", "Removing"}, r.entry[r.leases[o]] = Entry(kind, o),
         NEW e \in {Entry("Ready", 0), Entry("Absent", 0), Entry("Failed", o)},
         NEW x \in Outcomes \ {"Pending"},
         NEW s, s = Ended(r, o, e, x)
  PROVE
         /\ RegOK(s) /\ Evolves(r, s) /\ ~s.stopped
         /\ s.lastOp = r.lastOp /\ s.leases = r.leases
         /\ s.entry[r.leases[o]] = e
         /\ \A a \in Slots : a # r.leases[o] => s.entry[a] = r.entry[a]
         /\ s.outcome[o] = x
         /\ \A k \in 1..r.lastOp : k # o => s.outcome[k] = r.outcome[k]
  <1>0. PICK n, m : n = r.lastOp /\ m = r.leases[o]
    OBVIOUS
  <1>1. /\ n \in Nat /\ m \in Slots
        /\ r.entry \in [Slots -> [kind : Kinds, op : Nat]]
        /\ r.leases \in [1..n -> Slots] /\ r.outcome \in [1..n -> Outcomes]
        /\ r.stopped \in BOOLEAN
    BY <1>0, RegParts
  <1>2. /\ s.lastOp = n /\ s.stopped = r.stopped /\ s.leases = r.leases
        /\ s.entry = [r.entry EXCEPT ![m] = e]
        /\ s.outcome = [r.outcome EXCEPT ![o] = x]
    BY <1>0 DEF Ended, RegOK, RegType
  <1>p. PICK f, w : /\ s = [entry |-> f, lastOp |-> n, leases |-> r.leases, outcome |-> w,
                            stopped |-> r.stopped]
                    /\ f = [r.entry EXCEPT ![m] = e] /\ w = [r.outcome EXCEPT ![o] = x]
    BY <1>0 DEF Ended, RegOK, RegType
  <1>3. /\ s.outcome[o] = x /\ x # "Pending" /\ \A k \in 1..n \ {o} : s.outcome[k] = r.outcome[k]
        /\ s.entry[m] = e /\ \A a \in Slots \ {m} : s.entry[a] = r.entry[a]
    BY <1>0, <1>1, <1>2
  <1>4. s \in RegType(n)
    <2>1. e \in [kind : Kinds, op : Nat]
      BY <1>0, <1>1 DEF Entry, Kinds
    <2>2. f \in [Slots -> [kind : Kinds, op : Nat]]
      BY <1>1, <1>p, <2>1
    <2>3. w \in [1..n -> Outcomes]
      BY <1>0, <1>1, <1>p
    <2>4. [entry |-> f, lastOp |-> n, leases |-> r.leases, outcome |-> w, stopped |-> r.stopped]
            \in RegType(n)
      BY <1>1, <2>2, <2>3, Zenon DEF RegType
    <2>. QED BY <2>4, <1>p, Zenon
  <1>5. RegOK(s)
    <2>1. \A a \in Slots : s.entry[a].op = 0 <=> s.entry[a].kind \in {"Absent", "Ready"}
      BY <1>0, <1>1, <1>3 DEF RegOK, Entry
    <2>2. \A a \in Slots : s.entry[a].op # 0 => s.entry[a].op \in 1..n /\ s.leases[s.entry[a].op] = a
      BY <1>0, <1>1, <1>2, <1>3 DEF RegOK, Entry
    <2>3. \A k \in 1..n : s.outcome[k] = "Pending" =>
             s.entry[s.leases[k]] \in {Entry("Attaching", k), Entry("Removing", k)}
      <3> SUFFICES ASSUME NEW k \in 1..n, s.outcome[k] = "Pending"
                   PROVE  s.entry[s.leases[k]] \in {Entry("Attaching", k), Entry("Removing", k)}
        OBVIOUS
      <3>1. k # o /\ r.outcome[k] = "Pending"
        BY <1>0, <1>3
      <3>2. r.entry[r.leases[k]] \in {Entry("Attaching", k), Entry("Removing", k)}
        BY <1>0, <3>1 DEF RegOK
      <3>3. r.leases[k] # m
        BY <1>0, <3>1, <3>2 DEF Entry
      <3>. QED BY <1>0, <1>1, <1>2, <1>3, <3>2, <3>3
    <2>. QED BY <1>0, <2>1, <2>2, <2>3, <1>1, <1>2, <1>4 DEF RegOK
  <1>6. Evolves(r, s)
    <2>1. \A k \in 1..n : AttachOp(r, k) => AttachOp(s, k)
      BY <1>0, <1>1, <1>2, <1>3 DEF AttachOp, Entry
    <2>. QED BY <1>0, <2>1, <1>1, <1>2, <1>3 DEF Evolves
  <1>. QED BY <1>0, <1>2, <1>3, <1>5, <1>6

\* The session is stopped: every entry is dropped, everybody is answered.
LEMMA StoppedOK ==
  ASSUME NEW r, RegOK(r), NEW s, s = StoppedReg(r)
  PROVE
         /\ RegOK(s) /\ Evolves(r, s) /\ s.stopped
         /\ s.lastOp = r.lastOp /\ s.leases = r.leases /\ s.entry = Registry.entry
         /\ \A o \in 1..r.lastOp : s.outcome[o] # "Pending"
  <1>0. PICK n : n = r.lastOp
    OBVIOUS
  <1> DEFINE Going(o) == \E m \in Slots : r.entry[m].op = o /\ r.entry[m].kind \in {"Attaching", "Removing"}
  <1>1. /\ n \in Nat
        /\ r.entry \in [Slots -> [kind : Kinds, op : Nat]]
        /\ r.leases \in [1..n -> Slots] /\ r.outcome \in [1..n -> Outcomes]
    BY <1>0, RegParts
  <1>2. /\ s.lastOp = n /\ s.stopped /\ s.leases = r.leases /\ s.entry = Registry.entry
        /\ s.outcome = [o \in 1..n |-> IF Going(o) THEN "SessionStopped" ELSE r.outcome[o]]
    BY <1>0 DEF StoppedReg, RegOK, RegType
  <1>p. PICK w : /\ s = [entry |-> Registry.entry, lastOp |-> n, leases |-> r.leases,
                         outcome |-> w, stopped |-> TRUE]
                 /\ w = [o \in 1..n |-> IF Going(o) THEN "SessionStopped" ELSE r.outcome[o]]
    BY <1>0 DEF StoppedReg, RegOK, RegType
  <1>3. \A o \in 1..n : s.outcome[o] \in Outcomes /\ s.outcome[o] # "Pending"
    <2> SUFFICES ASSUME NEW o \in 1..n
                 PROVE  s.outcome[o] \in Outcomes /\ s.outcome[o] # "Pending"
      OBVIOUS
    <2>1. CASE Going(o)
      BY <1>0, <2>1, <1>2 DEF Outcomes
    <2>2. CASE ~Going(o)
      <3>1. r.entry[r.leases[o]] \notin {Entry("Attaching", o), Entry("Removing", o)}
        BY <1>0, <2>2, <1>1 DEF Entry
      <3>2. r.outcome[o] # "Pending"
        BY <1>0, <3>1 DEF RegOK
      <3>. QED BY <1>0, <2>2, <3>2, <1>1, <1>2
    <2>. QED BY <1>0, <2>1, <2>2
  <1>4. /\ Registry.entry = [m \in Slots |-> Entry("Absent", 0)]
        /\ Registry.entry \in [Slots -> [kind : Kinds, op : Nat]]
    BY <1>0 DEF Registry, Entry, Kinds
  <1>5. RegOK(s)
    <2>1. w \in [1..n -> Outcomes]
      <3>1. w = s.outcome
        BY <1>2, <1>p, Zenon
      <3>. QED BY <3>1, <1>2, <1>3
    <2>2. TRUE \in BOOLEAN
      OBVIOUS
    <2>3. s \in RegType(n)
      <3>1. [entry |-> Registry.entry, lastOp |-> n, leases |-> r.leases, outcome |-> w, stopped |-> TRUE]
              \in RegType(n)
        BY <1>1, <1>4, <2>1, <2>2, Zenon DEF RegType
      <3>. QED BY <3>1, <1>p, Zenon
    <2>4. \A m \in Slots : s.entry[m].op = 0 /\ s.entry[m].kind \in {"Absent", "Ready"}
      BY <1>2, <1>4 DEF Entry
    <2>5. \A o \in 1..n : s.outcome[o] # "Pending"
      BY <1>3, Zenon
    <2>6. s.lastOp = n /\ n \in Nat /\ s.entry = Registry.entry
      BY <1>1, <1>2, Zenon
    <2>. QED BY <2>3, <2>4, <2>5, <2>6, Zenon DEF RegOK
  <1>6. Evolves(r, s)
    <2>1. \A o \in 1..n : r.leases[o] \in Slots /\ AttachOp(s, o)
      BY <1>0, <1>1, <1>2, <1>4 DEF AttachOp, Entry
    <2>. QED BY <1>0, <2>1, <1>1, <1>2, <1>3 DEF Evolves
  <1>. QED BY <1>0, <1>2, <1>3, <1>5, <1>6

\* seed_ready of an untouched registry.
LEMMA SeededOK ==
  ASSUME NEW r, RegOK(r), NEW m \in Slots, Untouched(r), NEW s, s = Seeded(r, m)
  PROVE
         /\ RegOK(s) /\ Evolves(r, s) /\ Untouched(s)
         /\ s.lastOp = r.lastOp /\ s.leases = r.leases /\ s.outcome = r.outcome
         /\ s.stopped = r.stopped
         /\ s.entry = [r.entry EXCEPT ![m] = Entry("Ready", 0)]
  <1>1. /\ r.lastOp = 0 /\ ~r.stopped
        /\ r.entry \in [Slots -> [kind : Kinds, op : Nat]]
        /\ r.leases \in [1..0 -> Slots] /\ r.outcome \in [1..0 -> Outcomes]
        /\ r.stopped \in BOOLEAN
    BY RegParts DEF Untouched
  <1>2. /\ s.lastOp = 0 /\ s.stopped = r.stopped /\ s.leases = r.leases
        /\ s.entry = [r.entry EXCEPT ![m] = Entry("Ready", 0)]
        /\ s.outcome = r.outcome
    BY <1>1 DEF Seeded, RegOK, RegType
  <1>p. PICK f : /\ s = [entry |-> f, lastOp |-> 0, leases |-> r.leases, outcome |-> r.outcome,
                         stopped |-> r.stopped]
                 /\ f = [r.entry EXCEPT ![m] = Entry("Ready", 0)]
    BY <1>1 DEF Seeded, RegOK, RegType
  <1>3. f \in [Slots -> [kind : Kinds, op : Nat]]
    BY <1>1, <1>p DEF Entry, Kinds
  <1>4. s \in RegType(0)
    <2>1. 0 \in Nat
      OBVIOUS
    <2>2. [entry |-> f, lastOp |-> 0, leases |-> r.leases, outcome |-> r.outcome, stopped |-> r.stopped]
            \in RegType(0)
      BY <2>1, <1>1, <1>3, Zenon DEF RegType
    <2>. QED BY <2>2, <1>p, Zenon
  <1>5. \A a \in Slots : r.entry[a].op = 0
    BY <1>1 DEF RegOK
  <1>6. \A a \in Slots : s.entry[a].op = 0 /\ s.entry[a].kind \in {"Absent", "Ready"}
    BY <1>1, <1>2, <1>5 DEF RegOK, Entry
  <1>. QED BY <1>1, <1>2, <1>4, <1>6 DEF RegOK, Evolves, Untouched


-----------------------------------------------------------------------------
(* What every step has to keep                                              *)

\* The requests whose session is not published, or not any more.
Owning == Starting \cup {"stop"}

\* Request t becomes d.
LEMMA CallsStep ==
  ASSUME NEW t \in Callers, NEW d, CallsOK, Set(t, d), CallOK(d)',
         \A c : (\E u \in Callers : u # t /\ c = call[u]) => CallOK(c)',
         \A u \in Callers : u # t => Apart(call[u], d) /\ Apart(d, call[u])
  PROVE  CallsOK'
  <1>1. DOMAIN call' = Callers /\ call'[t] = d /\ \A u \in Callers : u # t => call'[u] = call[u]
    BY DEF CallsOK, Set
  <1>2. (\A u \in Callers : CallOK(call[u]))'
    <2>1. \A c : (\E u \in Callers : c = call'[u]) => CallOK(c)'
      BY <1>1
    <2>. QED BY <2>1
  <1>3. \A u, v \in Callers : u # v => Apart(call'[u], call'[v])
    BY <1>1 DEF CallsOK
  <1>. QED BY <1>1, <1>2, <1>3 DEF CallsOK

\* Request c is not touched by a step of somebody else.
LEMMA CallKept ==
  ASSUME NEW c, CallOK(c), SessionsOK, mutex \in Nat, mutex' \in Nat, mutex <= mutex',
         gens' \in Nat, gens <= gens',
         \A g \in Generations : Evolves(reg[g], reg'[g]),
         c.op = "spawn" => published' = published,
         c.pc = "stop" => published' # c.gen /\ ~reg'[c.gen].stopped,
         c.pc \in Starting => /\ published' = None /\ reg'[c.gen] = reg[c.gen]
                              /\ sched'[c.gen] = sched[c.gen] /\ loops'[c.gen] = loops[c.gen],
         c.lease # 0 /\ c.pc \in Removing /\ ~reg'[c.gen].stopped =>
            reg'[c.gen].entry[c.slot] = reg[c.gen].entry[c.slot]
  PROVE  CallOK(c)'
  <1>1. gens \in Nat /\ MaxGenerations \in Nat /\ gens <= MaxGenerations
    BY ServiceAssumption DEF SessionsOK
  <1>2. LocksOK(c)'
    <2>1. LocksOK(c) /\ c.mx \in 0..mutex'
      BY DEF CallOK, LocksOK
    <2>. QED BY <2>1 DEF LocksOK
  <1>3. c.gen # None => c.gen \in Generations
    BY <1>1 DEF CallOK, GenOK, Generations, None
  <1>4. GenOK(c)'
    <2>1. GenOK(c) /\ c.gen \in 0..gens'
      BY <1>1 DEF CallOK, GenOK
    <2>. QED BY <2>1 DEF GenOK, None
  <1>5. OpsOK(c)'
    <2>1. c.pc = "reserve" => c.gen # None
      BY DEF CallOK, GenOK
    <2>2. c.pc = "reserve" => \A o \in c.owned : AttachOp(reg'[c.gen], o)
      <3> SUFFICES ASSUME c.pc = "reserve", NEW o \in c.owned PROVE AttachOp(reg'[c.gen], o)
        OBVIOUS
      <3>1. AttachOp(reg[c.gen], o) /\ o \in 1..reg[c.gen].lastOp
        BY DEF CallOK, OpsOK, AttachOp
      <3>2. Evolves(reg[c.gen], reg'[c.gen])
        BY <1>3, <2>1
      <3>. QED BY <3>1, <3>2 DEF Evolves
    <2>3. ASSUME c.lease # 0
          PROVE  /\ c.gen # None
                 /\ c.pc \in Removing \cup {"welcome", "remove"}
                 /\ c.lease \in 1..reg'[c.gen].lastOp
                 /\ reg'[c.gen].leases[c.lease] = c.slot
                 /\ c.pc \in {"welcome", "remove"} => c.op = "spawn" \/ c.pc = "welcome"
                 /\ c.pc \in {"welcome", "remove"} => AttachOp(reg'[c.gen], c.lease)
                 /\ c.pc \in Removing /\ ~reg'[c.gen].stopped =>
                      reg'[c.gen].entry[c.slot] = Entry("Removing", c.lease)
      <3>1. /\ c.gen # None
            /\ c.pc \in Removing \cup {"welcome", "remove"}
            /\ c.lease \in 1..reg[c.gen].lastOp
            /\ reg[c.gen].leases[c.lease] = c.slot
            /\ c.pc \in {"welcome", "remove"} => c.op = "spawn" \/ c.pc = "welcome"
            /\ c.pc \in {"welcome", "remove"} => AttachOp(reg[c.gen], c.lease)
            /\ c.pc \in Removing /\ ~reg[c.gen].stopped =>
                 reg[c.gen].entry[c.slot] = Entry("Removing", c.lease)
        BY <2>3 DEF CallOK, OpsOK
      <3>2. Evolves(reg[c.gen], reg'[c.gen])
        BY <1>3, <3>1
      <3>3. reg[c.gen].lastOp \in Nat
        BY <1>3, <3>1 DEF SessionsOK, RegOK
      <3>4. 1..reg[c.gen].lastOp \subseteq 1..reg'[c.gen].lastOp
        BY <3>2, <3>3 DEF Evolves
      <3>5. AttachOp(reg[c.gen], c.lease) => AttachOp(reg'[c.gen], c.lease)
        BY <3>1, <3>2 DEF Evolves
      <3>. QED BY <2>3, <3>1, <3>2, <3>4, <3>5 DEF Evolves
    <2>. QED BY <2>2, <2>3 DEF CallOK, OpsOK
  <1>. QED BY <1>2, <1>4, <1>5 DEF CallOK

\* A registry that does nothing evolves.
LEMMA EvolvesSame == ASSUME NEW r, RegOK(r) PROVE Evolves(r, r)
  BY DEF Evolves, RegOK

\* Attach tasks are not touched by others either.
LEMMA AttachKept ==
  ASSUME NEW a, AttachOK(a), SessionsOK, gens' \in Nat, gens <= gens',
         \A g \in Generations : Evolves(reg[g], reg'[g])
  PROVE  AttachOK(a)'
  <1>1. gens \in Nat /\ MaxGenerations \in Nat /\ gens <= MaxGenerations
    BY ServiceAssumption DEF SessionsOK
  <1>2. a.gen \in Generations /\ a.gen \in 1..gens'
    BY <1>1 DEF AttachOK, Generations
  <1>3. Evolves(reg[a.gen], reg'[a.gen])
    BY <1>2
  <1>4. a.op \in 1..reg[a.gen].lastOp /\ AttachOp(reg[a.gen], a.op)
    BY DEF AttachOK, AttachOp
  <1>. QED BY <1>2, <1>3, <1>4 DEF AttachOK, Evolves

\* A session that somebody answers for is still answered for.
LEMMA OrphanStep ==
  ASSUME NEW t \in Callers, NEW d, CallsOK, Set(t, d), NoOrphanSession, SessionsOK,
         UNCHANGED <<published, gens>>,
         \A g \in Generations : reg[g].stopped => reg'[g].stopped,
         call[t].pc \notin Owning \/ (d.pc \in Owning /\ d.gen = call[t].gen) \/ reg'[call[t].gen].stopped
  PROVE  NoOrphanSession'
  <1>1. call'[t] = d /\ \A u \in Callers : u # t => call'[u] = call[u]
    BY DEF CallsOK, Set
  <1>2. 1..gens \subseteq Generations
    BY ServiceAssumption DEF SessionsOK, Generations
  <1> SUFFICES ASSUME NEW g \in 1..gens, ~reg'[g].stopped
               PROVE  published = g \/ \E u \in Callers : call'[u].gen = g /\ call'[u].pc \in Owning
    BY DEF NoOrphanSession, Owning, Starting
  <1>3. published = g \/ \E u \in Callers : call[u].gen = g /\ call[u].pc \in Owning
    BY <1>2 DEF NoOrphanSession, Owning, Starting
  <1>. QED BY <1>1, <1>3

\* A step that leaves the sessions alone.
LEMMA QuietStep ==
  ASSUME ServiceInv, NEW t \in Callers, NEW d, Set(t, d), UNCHANGED <<sessionVars, mutex>>,
         CallOK(d), \A u \in Callers : u # t => Apart(call[u], d) /\ Apart(d, call[u]),
         call[t].pc \notin Owning \/ (d.pc \in Owning /\ d.gen = call[t].gen),
         RowsOK', \A a \in attaches' : AttachOK(a)
  PROVE  ServiceInv'
  <1>0. UNCHANGED <<published, gens, reg, sched, loops, mutex>>
    BY DEF sessionVars
  <1>1. SessionsOK'
    <2>1. SessionsOK
      BY DEF ServiceInv
    <2>. QED BY <2>1, <1>0 DEF SessionsOK
  <1>2. \A c : CallOK(c) => CallOK(c)'
    BY <1>0 DEF CallOK, LocksOK, GenOK, OpsOK
  <1>3. \A a : AttachOK(a) => AttachOK(a)'
    BY <1>0 DEF AttachOK
  <1>4. CallsOK'
    <2>1. CallsOK /\ \A u \in Callers : CallOK(call[u])
      BY DEF ServiceInv, CallsOK
    <2>2. \A c : (\E u \in Callers : u # t /\ c = call[u]) => CallOK(c)'
      BY <2>1, <1>2
    <2>3. CallOK(d)'
      BY <1>2
    <2>. QED BY <2>1, <2>2, <2>3, CallsStep
  <1>5. NoOrphanSession'
    <2>1. CallsOK /\ NoOrphanSession /\ SessionsOK
      BY DEF ServiceInv
    <2>2. \A g \in Generations : reg[g].stopped => reg'[g].stopped
      BY <1>0
    <2>. QED BY <2>1, <2>2, <1>0, OrphanStep
  <1>6. (\A a \in attaches : AttachOK(a))'
    BY <1>3
  <1>. QED BY <1>1, <1>4, <1>5, <1>6 DEF ServiceInv

\* The registry of session g becomes s.
RegBecomes(g, s) ==
    /\ DOMAIN reg' = Generations /\ reg'[g] = s
    /\ \A h \in Generations : h # g => reg'[h] = reg[h]

\* ... the removals go on, but for operation o.
RegStep(g, s, o) ==
    /\ g \in 1..gens
    /\ RegBecomes(g, s)
    /\ RegOK(s) /\ Evolves(reg[g], s) /\ (s.stopped => reg[g].stopped)
    /\ \A m \in Slots : \A k \in Nat :
          k # o /\ reg[g].entry[m] = Entry("Removing", k) => s.entry[m] = Entry("Removing", k)

\* The schedulers and the loops of the others stay as they are.
OnlyIn(g) ==
    /\ UNCHANGED <<published, gens, mutex>>
    /\ sched' \in [Generations -> SUBSET Slots] /\ loops' \in [Generations -> SUBSET Slots]
    /\ \A h \in Generations : h # g => sched'[h] = sched[h] /\ loops'[h] = loops[h]
    /\ reg[g].stopped => loops'[g] = {}

\* What the sessions, and the records that refer to them, rely on survives a step of one registry.
LEMMA RegStepKeeps ==
  ASSUME SessionsOK, mutex \in Nat, NEW g, NEW s, NEW o, RegStep(g, s, o), OnlyIn(g)
  PROVE  /\ SessionsOK'
         /\ \A h \in Generations : Evolves(reg[h], reg'[h])
         /\ reg'[g] = s
         /\ \A a : AttachOK(a) => AttachOK(a)'
         /\ \A c : CallOK(c) /\ (c.pc \in Starting => c.gen # g) /\ (c.gen = g => c.lease # o \/ o = 0)
                      => CallOK(c)'
  <1>1. g \in Generations /\ gens \in Nat
    BY ServiceAssumption DEF SessionsOK, Generations, RegStep
  <1>2. /\ reg'[g] = s /\ DOMAIN reg' = Generations
        /\ \A h \in Generations : h # g => reg'[h] = reg[h]
    BY <1>1 DEF RegStep, RegBecomes, SessionsOK
  <1>3. \A h \in Generations : Evolves(reg[h], reg'[h]) /\ RegOK(reg'[h])
    BY <1>2, EvolvesSame DEF SessionsOK, RegStep
  <1>4. reg[g].stopped <=> reg'[g].stopped
    BY <1>2 DEF RegStep, Evolves
  <1>5. SessionsOK'
    <2>1. /\ gens' = gens /\ published' = published
          /\ sched' \in [Generations -> SUBSET Slots] /\ loops' \in [Generations -> SUBSET Slots]
      BY DEF OnlyIn
    <2>2. \A h \in Generations : h > gens => reg'[h] = Registry /\ loops'[h] = {}
      <3>1. ~(g > gens)
        BY <1>1 DEF RegStep
      <3>. QED BY <3>1, <1>2 DEF SessionsOK, OnlyIn
    <2>3. published # None => ~reg'[published].stopped
      <3>1. published # None => published \in Generations
        BY <1>1, ServiceAssumption DEF SessionsOK, Generations, None
      <3>. QED BY <3>1, <1>2, <1>4 DEF SessionsOK
    <2>4. \A h \in Generations : reg'[h].stopped => loops'[h] = {}
      BY <1>2, <1>4 DEF SessionsOK, OnlyIn
    <2>. QED BY <2>1, <2>2, <2>3, <2>4, <1>2, <1>3 DEF SessionsOK
  <1>6. \A a : AttachOK(a) => AttachOK(a)'
    <2>1. gens' \in Nat /\ gens <= gens'
      BY <1>1 DEF OnlyIn
    <2>. QED BY <2>1, <1>3, AttachKept
  <1>7. ASSUME NEW c, CallOK(c), c.pc \in Starting => c.gen # g, c.gen = g => c.lease # o \/ o = 0
        PROVE  CallOK(c)'
    <2>1. /\ gens' \in Nat /\ gens <= gens' /\ mutex' \in Nat /\ mutex <= mutex'
          /\ published' = published
      BY <1>1 DEF OnlyIn
    <2>2. c.gen # None => c.gen \in Generations
      BY <1>1, <1>7, ServiceAssumption DEF SessionsOK, CallOK, GenOK, Generations, None
    <2>3. c.pc = "stop" => published' # c.gen /\ ~reg'[c.gen].stopped
      <3>1. c.pc = "stop" => c.gen # None /\ published # c.gen /\ ~reg[c.gen].stopped
        BY <1>7 DEF CallOK, GenOK
      <3>. QED BY <3>1, <2>1, <2>2, <1>2, <1>4
    <2>4. c.pc \in Starting => /\ published' = None /\ reg'[c.gen] = reg[c.gen]
                               /\ sched'[c.gen] = sched[c.gen] /\ loops'[c.gen] = loops[c.gen]
      <3>1. c.pc \in Starting => c.gen # None /\ published = None
        BY <1>7 DEF CallOK, GenOK
      <3>. QED BY <3>1, <2>1, <2>2, <1>2, <1>7 DEF OnlyIn
    <2>5. c.lease # 0 /\ c.pc \in Removing /\ ~reg'[c.gen].stopped =>
              reg'[c.gen].entry[c.slot] = reg[c.gen].entry[c.slot]
      <3> SUFFICES ASSUME c.lease # 0, c.pc \in Removing, c.gen = g, ~reg'[g].stopped
                   PROVE  s.entry[c.slot] = reg[g].entry[c.slot]
        <4>1. c.lease # 0 => c.gen # None
          BY <1>7 DEF CallOK, OpsOK
        <4>. QED BY <4>1, <2>2, <1>2
      <3>1. c.slot \in Slots /\ c.lease \in Nat /\ reg[g].entry[c.slot] = Entry("Removing", c.lease)
        BY <1>1, <1>4, <1>7 DEF CallOK, OpsOK, CallTyped, SessionsOK, RegOK
      <3>2. c.lease # o
        BY <1>7
      <3>. QED BY <3>1, <3>2 DEF RegStep
    <2>. QED BY <1>3, <1>7, <2>1, <2>3, <2>4, <2>5, CallKept
  <1>. QED BY <1>2, <1>3, <1>5, <1>6, <1>7

-----------------------------------------------------------------------------
(* Steps that leave the sessions alone                                      *)

\* A request that has returned, or goes on with its next target.
Blank(d) ==
    /\ CallTyped(d) /\ d.pc \in {"done", "check"} /\ d.op \in {"done", "send"}
    /\ d.mx = 0 /\ ~d.holds /\ ~d.ensures /\ d.gen = None /\ d.lease = 0
    /\ d.snap = {} /\ d.owned = {} /\ d.todo = {}

\* A request that returns holds nothing.
LEMMA EndsBlank ==
  ASSUME NEW t \in Callers, CallTyped(call[t]), End(t)
  PROVE  \E d : Set(t, d) /\ Blank(d)
  <1>1. CASE call[t].targets = {}
    <2>1. Set(t, Done)
      BY <1>1 DEF End
    <2>2. Blank(Done)
      BY DEF Blank, Done, Call, CallTyped, Fields, Slots, None
    <2>. QED BY <2>1, <2>2
  <1>2. CASE call[t].targets # {}
    <2>1. PICK m \in call[t].targets :
             Set(t, [Call("send", "check", m) EXCEPT !.targets = call[t].targets \ {m}])
      BY <1>2 DEF End
    <2>2. m \in Slots /\ call[t].targets \ {m} \subseteq Slots
      BY DEF CallTyped
    <2>3. Blank([Call("send", "check", m) EXCEPT !.targets = call[t].targets \ {m}])
      BY <2>2 DEF Blank, Call, CallTyped, Fields, None
    <2>. QED BY <2>1, <2>3
  <1>. QED BY <1>1, <1>2

\* A request that holds nothing is well formed.
LEMMA BlankOK ==
  ASSUME NEW d, Blank(d), mutex \in Nat, gens \in Nat
  PROVE  CallOK(d)
  BY DEF Blank, CallOK, LocksOK, GenOK, OpsOK, Starting, Holding, Removing, None

\* ... in whatever state comes next.
LEMMA BlankOKNext ==
  ASSUME NEW d, Blank(d), mutex' \in Nat, gens' \in Nat
  PROVE  CallOK(d)'
  BY DEF Blank, CallOK, LocksOK, GenOK, OpsOK, Starting, Holding, Removing, None

\* A request that holds nothing is in nobody's way.
LEMMA BlankApart ==
  ASSUME NEW d, Blank(d), NEW c, CallOK(c)
  PROVE  Apart(c, d) /\ Apart(d, c)
  BY DEF Blank, CallOK, GenOK, OpsOK, Apart, Starting, None

\* What the proofs below start from.
LEMMA CallFacts ==
  ASSUME ServiceInv, NEW t \in Callers
  PROVE  /\ CallOK(call[t]) /\ CallTyped(call[t])
         /\ \A u \in Callers : u # t => /\ CallOK(call[u])
                                        /\ Apart(call[t], call[u]) /\ Apart(call[u], call[t])
         /\ mutex \in Nat \ {0} /\ gens \in Nat /\ published \in 0..gens
         /\ roster \subseteq Slots
         /\ \A g \in 1..gens : RegOK(reg[g]) /\ g \in Generations
         /\ published # None => ~reg[published].stopped
  BY ServiceAssumption DEF ServiceInv, CallsOK, CallOK, RowsOK, SessionsOK, Generations

\* Request t does something for itself alone.
LEMMA CallStep ==
  ASSUME ServiceInv, NEW t \in Callers, NEW d, Set(t, d),
         UNCHANGED <<rowVars, tasks, sessionVars, mutex, attaches, history>>,
         CallOK(d), \A u \in Callers : u # t => Apart(call[u], d) /\ Apart(d, call[u]),
         call[t].pc \notin Owning \/ (d.pc \in Owning /\ d.gen = call[t].gen)
  PROVE  ServiceInv'
  <1>1. RowsOK'
    BY DEF ServiceInv, RowsOK, rowVars, history
  <1>2. \A a \in attaches' : AttachOK(a)
    BY DEF ServiceInv
  <1>. QED BY <1>1, <1>2, QuietStep

\* Request t returns.
LEMMA EndStep ==
  ASSUME ServiceInv, NEW t \in Callers, End(t), UNCHANGED <<sessionVars, mutex>>,
         call[t].pc \notin Owning, RowsOK', \A a \in attaches' : AttachOK(a)
  PROVE  ServiceInv'
  <1>1. PICK d : Set(t, d) /\ Blank(d)
    BY CallFacts, EndsBlank
  <1>2. CallOK(d)
    BY <1>1, CallFacts, BlankOK
  <1>3. \A u \in Callers : u # t => Apart(call[u], d) /\ Apart(d, call[u])
    BY <1>1, CallFacts, BlankApart
  <1>. QED BY <1>1, <1>2, <1>3, QuietStep

\* A request that only returns keeps the invariant.
LEMMA EndAlone ==
  ASSUME ServiceInv, NEW t \in Callers, End(t), call[t].pc \notin Owning,
         UNCHANGED <<rowVars, tasks, sessionVars, mutex, attaches, history>>
  PROVE  ServiceInv'
  <1>1. RowsOK'
    BY DEF ServiceInv, RowsOK, rowVars, history
  <1>2. \A a \in attaches' : AttachOK(a)
    BY DEF ServiceInv
  <1>. QED BY <1>1, <1>2, EndStep

\* send_message_to_agent loads the team: the service invariant is kept.
LEMMA CheckOwnedInv ==
  ASSUME ServiceInv, NEW t \in Callers, CheckOwned(t)
  PROVE  ServiceInv'
  <1>1. PICK c, d : c = call[t] /\ d = [c EXCEPT !.pc = "look"]
    OBVIOUS
  <1>2. c.pc = "check" /\ (Set(t, d) \/ End(t))
    BY <1>1 DEF CheckOwned
  <1>3. CallOK(d)
    BY <1>1, <1>2, CallFacts DEF CallOK, CallTyped, Fields, LocksOK, GenOK, OpsOK, Starting, Holding, Removing, None
  <1>4. \A u \in Callers : u # t => Apart(call[u], d) /\ Apart(d, call[u])
    BY <1>1, <1>2, CallFacts DEF Apart, CallOK, CallTyped, Fields, LocksOK, GenOK, OpsOK, Starting, Holding, Removing, None
  <1>. QED BY <1>1, <1>2, <1>3, <1>4, CallStep, EndAlone DEF CheckOwned, Owning, Starting

\* The mutex that is now in the map is looked up: the service invariant is kept.
LEMMA LookUpMutexInv ==
  ASSUME ServiceInv, NEW t \in Callers, LookUpMutex(t)
  PROVE  ServiceInv'
  <1>1. PICK c, d : c = call[t] /\ d = [c EXCEPT !.pc = "load", !.mx = mutex]
    OBVIOUS
  <1>2. c.pc = "look" /\ Set(t, d)
    BY <1>1 DEF LookUpMutex
  <1>3. CallOK(d)
    BY <1>1, <1>2, CallFacts DEF CallOK, CallTyped, Fields, LocksOK, GenOK, OpsOK, Starting, Holding, Removing, None
  <1>4. \A u \in Callers : u # t => Apart(call[u], d) /\ Apart(d, call[u])
    BY <1>1, <1>2, CallFacts DEF Apart, CallOK, CallTyped, Fields, LocksOK, GenOK, OpsOK, Starting, Holding, Removing, None
  <1>. QED BY <1>1, <1>2, <1>3, <1>4, CallStep DEF LookUpMutex, Owning, Starting

\* An ensure takes the membership mutex and reads the roster: the service invariant is kept.
LEMMA LoadTeamInv ==
  ASSUME ServiceInv, NEW t \in Callers, LoadTeam(t)
  PROVE  ServiceInv'
  <1>1. PICK c, d, w : /\ c = call[t] /\ w = Wanted(c)
                       /\ d = [c EXCEPT !.pc = "find", !.holds = TRUE, !.snap = roster, !.todo = w]
    OBVIOUS
  <1>2. c.pc = "load" /\ Free(c.mx) /\ (Set(t, d) \/ End(t))
    BY <1>1 DEF LoadTeam
  <1>3. w \subseteq Slots
    BY <1>1, CallFacts DEF Wanted
  <1>4. CallOK(d)
    BY <1>1, <1>2, <1>3, CallFacts DEF CallOK, CallTyped, Fields, LocksOK, GenOK, OpsOK, Starting, Holding, Removing, None
  <1>5. \A u \in Callers : u # t => Apart(call[u], d) /\ Apart(d, call[u])
    BY <1>1, <1>2, CallFacts DEF Apart, CallOK, CallTyped, Fields, LocksOK, GenOK, OpsOK, Starting, Holding, Removing, None, Free
  <1>. QED BY <1>1, <1>2, <1>4, <1>5, CallStep, EndAlone DEF LoadTeam, Owning, Starting

\* A published session is joined.
LEMMA Joins ==
  ASSUME ServiceInv, NEW t \in Callers, NEW c, c = call[t], c.pc \in {"find", "start"},
         published # None, Set(t, [c EXCEPT !.pc = "reserve", !.gen = published, !.snap = {}]),
         UNCHANGED <<rowVars, tasks, sessionVars, mutex, attaches, history>>
  PROVE  ServiceInv'
  <1>1. PICK d : d = [c EXCEPT !.pc = "reserve", !.gen = published, !.snap = {}]
    OBVIOUS
  <1>2. CallOK(d)
    BY <1>1, CallFacts DEF CallOK, CallTyped, Fields, LocksOK, GenOK, OpsOK, Starting, Holding, Removing, None
  <1>3. \A u \in Callers : u # t => Apart(call[u], d) /\ Apart(d, call[u])
    BY <1>1, CallFacts DEF Apart, CallOK, CallTyped, Fields, LocksOK, GenOK, OpsOK, Starting, Holding, Removing, None
  <1>. QED BY <1>1, <1>2, <1>3, CallStep DEF Owning, Starting

\* An ensure looks for the published session: the service invariant is kept.
LEMMA FindSessionInv ==
  ASSUME ServiceInv, NEW t \in Callers, FindSession(t)
  PROVE  ServiceInv'
  <1>1. PICK c, d : c = call[t] /\ d = [c EXCEPT !.pc = "start"]
    OBVIOUS
  <1>2. /\ c.pc = "find"
        /\ UNCHANGED <<rowVars, tasks, sessionVars, mutex, attaches, history>>
    BY <1>1 DEF FindSession
  <1>3. CASE published # None
    BY <1>1, <1>2, <1>3, Joins DEF FindSession
  <1>4. CASE published = None /\ Set(t, d)
    <2>1. CallOK(d)
      BY <1>1, <1>2, CallFacts DEF CallOK, CallTyped, Fields, LocksOK, GenOK, OpsOK, Starting, Holding, Removing, None
    <2>2. \A u \in Callers : u # t => Apart(call[u], d) /\ Apart(d, call[u])
      BY <1>1, <1>2, CallFacts DEF Apart, CallOK, CallTyped, Fields, LocksOK, GenOK, OpsOK, Starting, Holding, Removing, None
    <2>. QED BY <1>1, <1>2, <1>4, <2>1, <2>2, CallStep DEF Owning, Starting
  <1>5. CASE published = None /\ End(t)
    BY <1>1, <1>2, <1>5, EndAlone DEF Owning, Starting
  <1>. QED BY <1>1, <1>3, <1>4, <1>5 DEF FindSession, NoSession

\* The recovery drain ends: the service invariant is kept.
LEMMA RecoverInv ==
  ASSUME ServiceInv, NEW t \in Callers, Recover(t)
  PROVE  ServiceInv'
  BY EndAlone DEF Recover, Owning, Starting

\* A reconciliation meets a stopped session: the service invariant is kept.
LEMMA ReserveStoppedInv ==
  ASSUME ServiceInv, NEW t \in Callers, ReserveStopped(t)
  PROVE  ServiceInv'
  BY EndAlone DEF ReserveStopped, Owning, Starting

\* The answer after all waiters are served: the service invariant is kept.
LEMMA SettleInv ==
  ASSUME ServiceInv, NEW t \in Callers, Settle(t)
  PROVE  ServiceInv'
  BY EndAlone DEF Settle, Owning, Starting

\* A removal that was joined is over: the service invariant is kept.
LEMMA JoinRemovalInv ==
  ASSUME ServiceInv, NEW t \in Callers, JoinRemoval(t)
  PROVE  ServiceInv'
  BY EndAlone DEF JoinRemoval, Owning, Starting

-----------------------------------------------------------------------------
(* The first step of a request *)

Opening(d) ==
    /\ CallTyped(d) /\ ~d.holds /\ ~d.ensures /\ d.lease = 0 /\ d.owned = {}
    /\ d.mx \in {0, mutex}
    /\ d.pc \in {"load", "unpublish", "check", "edit", "remove", "write", "done"}
    /\ d.pc \in {"load", "edit", "remove"} => d.mx = mutex
    /\ d.pc = "edit" => d.op = "rename" \/ (d.op \in {"add", "spawn"} /\ Unused(d.slot))
    /\ d.pc = "write" => d.snap = roster
    /\ \/ d.op # "spawn" /\ d.gen = None
       \/ d.op = "spawn" /\ d.gen = published /\ published # None

\* How requests for the whole team begin.
LEMMA TeamOpens ==
  ASSUME ServiceInv, NEW t \in Callers, NEW op, BeginTeam(t, op)
  PROVE  \E d : Set(t, d) /\ Opening(d)
  <1>1. roster \subseteq Slots /\ (published # None => sched[published] \subseteq Slots) /\ Lead \in Slots
    BY ServiceAssumption DEF ServiceInv, RowsOK, SessionsOK, Slots, Generations, None
  <1>2. CASE BeginEnsure(t)
    <2>1. Opening([Call("ensure", "load", Lead) EXCEPT !.mx = mutex])
      BY <1>1 DEF Opening, Call, CallTyped, Fields, None
    <2>. QED BY <2>1, <1>2 DEF BeginEnsure
  <1>3. CASE BeginStop(t)
    <2>1. Opening(Call("stop", "unpublish", Lead))
      BY <1>1 DEF Opening, Call, CallTyped, Fields, None
    <2>. QED BY <2>1, <1>3 DEF BeginStop
  <1>4. CASE BeginArchive(t)
    <2>1. Opening([Call("archive", "unpublish", Lead) EXCEPT !.snap = roster])
      BY <1>1 DEF Opening, Call, CallTyped, Fields, None
    <2>. QED BY <2>1, <1>4 DEF BeginArchive
  <1>5. CASE BeginDelete(t)
    <2>1. Opening([Call("delete", "unpublish", Lead) EXCEPT !.snap = roster])
      BY <1>1 DEF Opening, Call, CallTyped, Fields, None
    <2>. QED BY <2>1, <1>5 DEF BeginDelete
  <1>6. CASE BeginIdle(t)
    <2>1. Opening([Call("idle", "unpublish", Lead) EXCEPT !.snap = sched[published]])
      BY <1>1, <1>6 DEF Opening, Call, CallTyped, Fields, None, BeginIdle
    <2>. QED BY <2>1, <1>6 DEF BeginIdle
  <1>7. CASE BeginGroup(t)
    <2>1. Opening([Call("send", "check", Lead) EXCEPT !.targets = roster \ {Lead}])
      BY <1>1 DEF Opening, Call, CallTyped, Fields, None
    <2>. QED BY <2>1, <1>7 DEF BeginGroup
  <1>. QED BY <1>2, <1>3, <1>4, <1>5, <1>6, <1>7 DEF BeginTeam

\* How requests for one member begin.
LEMMA MemberOpens ==
  ASSUME ServiceInv, NEW t \in Callers, NEW op, NEW m \in Slots, BeginMember(t, op, m)
  PROVE  \E d : Set(t, d) /\ Opening(d)
  <1>1. roster \subseteq Slots /\ Lead \in Slots
    BY DEF ServiceInv, RowsOK, Slots
  <1>2. CASE BeginSend(t, m)
    <2>1. Opening(Call("send", "check", m))
      BY DEF Opening, Call, CallTyped, Fields, None
    <2>. QED BY <2>1, <1>2 DEF BeginSend
  <1>3. CASE BeginExisting(t, m)
    <2>1. Opening([Call("existing", "load", m) EXCEPT !.mx = mutex])
      BY DEF Opening, Call, CallTyped, Fields, None
    <2>. QED BY <2>1, <1>3 DEF BeginExisting
  <1>4. CASE BeginRename(t, m)
    <2>1. Opening([Call("rename", "edit", m) EXCEPT !.mx = mutex])
      BY DEF Opening, Call, CallTyped, Fields, None
    <2>. QED BY <2>1, <1>4 DEF BeginRename
  <1>5. CASE BeginRemove(t, m)
    <2>1. Opening([Call("remove", "remove", m) EXCEPT !.mx = mutex])
      BY DEF Opening, Call, CallTyped, Fields, None
    <2>. QED BY <2>1, <1>5 DEF BeginRemove
  <1>6. CASE BeginLast(t, m)
    <2>1. Opening([Call("last", "write", m) EXCEPT !.snap = roster])
      BY <1>1 DEF Opening, Call, CallTyped, Fields, None
    <2>. QED BY <2>1, <1>6 DEF BeginLast
  <1>7. CASE BeginAdd(t, m)
    <2>1. Opening([Call("add", "edit", m) EXCEPT !.mx = mutex])
      BY <1>7 DEF BeginAdd, Opening, Call, CallTyped, Fields, None
    <2>. QED BY <2>1, <1>7 DEF BeginAdd
  <1>8. CASE BeginSpawn(t, m)
    <2>1. Opening([Call("spawn", "edit", m) EXCEPT !.mx = mutex, !.gen = published])
      BY <1>8 DEF Opening, Call, CallTyped, Fields, None, BeginSpawn
    <2>. QED BY <2>1, <1>8 DEF BeginSpawn
  <1>9. CASE Set(t, Done)
    <2>1. Opening(Done)
      BY <1>1 DEF Opening, Call, CallTyped, Fields, None, Done
    <2>. QED BY <2>1, <1>9
  <1>. QED BY <1>2, <1>3, <1>4, <1>5, <1>6, <1>7, <1>8, <1>9
           DEF BeginMember, ExecSpawnAgent, ExecRenameAgent

\* A request begins: the service invariant is kept.
LEMMA BeginInv ==
  ASSUME ServiceInv, NEW t \in Callers, Begin(t)
  PROVE  ServiceInv'
  <1>1. PICK d : Set(t, d) /\ Opening(d)
    BY TeamOpens, MemberOpens DEF Begin
  <1>2. CallOK(d)
    BY <1>1, CallFacts DEF Opening, CallOK, CallTyped, Fields, LocksOK, GenOK, OpsOK, Starting, Holding, Removing, None
  <1>3. \A u \in Callers : u # t => Apart(call[u], d) /\ Apart(d, call[u])
    BY <1>1, CallFacts DEF Opening, Apart, CallOK, CallTyped, Fields, LocksOK, GenOK, OpsOK, Starting, Holding, Removing, None
  <1>. QED BY <1>1, <1>2, <1>3, CallStep DEF Begin, Owning, Starting

-----------------------------------------------------------------------------
(* Jobs, rosters, conversations and tasks *)

\* The tasks are in no session.
LEMMA TaskStep ==
  ASSUME ServiceInv, NEW t \in Callers, NEW d, Set(t, d),
         UNCHANGED <<rowVars, sessionVars, mutex, attaches, history>>, tasks' \subseteq Slots,
         CallOK(d), \A u \in Callers : u # t => Apart(call[u], d) /\ Apart(d, call[u]),
         call[t].pc \notin Owning \/ (d.pc \in Owning /\ d.gen = call[t].gen)
  PROVE  ServiceInv'
  <1>1. RowsOK'
    BY DEF ServiceInv, RowsOK, rowVars, history
  <1>2. \A a \in attaches' : AttachOK(a)
    BY DEF ServiceInv
  <1>. QED BY <1>1, <1>2, QuietStep

\* A rebuild job is launched: the service invariant is kept.
LEMMA LaunchJobInv ==
  ASSUME ServiceInv, NEW t \in Callers, NEW m \in Slots, LaunchJob(t, m)
  PROVE  ServiceInv'
  <1>1. PICK c, d : c = call[t] /\ d = [c EXCEPT !.todo = @ \ {m}, !.owned = @ \cup {m}]
    OBVIOUS
  <1>2. c.pc = "rebuild" /\ Set(t, d) /\ tasks' \subseteq Slots
    BY <1>1 DEF LaunchJob, RunJob, ServiceInv, RowsOK
  <1>3. CallOK(d)
    BY <1>1, <1>2, CallFacts DEF CallOK, CallTyped, Fields, LocksOK, GenOK, OpsOK, Starting, Holding, Removing, None
  <1>4. \A u \in Callers : u # t => Apart(call[u], d) /\ Apart(d, call[u])
    BY <1>1, <1>2, CallFacts DEF Apart, CallOK, CallTyped, Fields, LocksOK, GenOK, OpsOK, Starting, Holding, Removing, None
  <1>5. d.pc = c.pc /\ d.gen = c.gen
    BY <1>1, CallFacts DEF CallTyped, Fields
  <1>. QED BY <1>1, <1>2, <1>3, <1>4, <1>5, TaskStep DEF LaunchJob, Owning, Starting

\* A rebuild job ends: the service invariant is kept.
LEMMA EndJobInv ==
  ASSUME ServiceInv, NEW t \in Callers, NEW m \in Slots, EndJob(t, m)
  PROVE  ServiceInv'
  <1>1. PICK c, d, e : /\ c = call[t] /\ d = JoinNext(c, m)
                       /\ e = [JoinNext(c, m) EXCEPT !.pc = "failing"]
    OBVIOUS
  <1>2. c.pc \in {"rebuild", "failing"} /\ (Set(t, d) \/ Set(t, e)) /\ tasks' \subseteq Slots
    BY <1>1 DEF EndJob, ServiceInv, RowsOK
  <1>3. CallOK(d) /\ CallOK(e)
    BY <1>1, <1>2, CallFacts DEF CallOK, CallTyped, Fields, LocksOK, GenOK, OpsOK, Starting, Holding, Removing, None, JoinNext
  <1>4. \A u \in Callers : u # t => Apart(call[u], d) /\ Apart(d, call[u])
    BY <1>1, <1>2, CallFacts DEF Apart, CallOK, CallTyped, Fields, LocksOK, GenOK, OpsOK, Starting, Holding, Removing, None, JoinNext
  <1>5. \A u \in Callers : u # t => Apart(call[u], e) /\ Apart(e, call[u])
    BY <1>1, <1>2, CallFacts DEF Apart, CallOK, CallTyped, Fields, LocksOK, GenOK, OpsOK, Starting, Holding, Removing, None, JoinNext
  <1>6. d.pc = c.pc /\ d.gen = c.gen /\ e.pc = "failing" /\ e.gen = c.gen
    BY <1>1, CallFacts DEF CallTyped, Fields, JoinNext
  <1>7. UNCHANGED <<rowVars, sessionVars, mutex, attaches, history>>
    BY DEF EndJob
  <1>8. CASE Set(t, d)
    BY <1>1, <1>2, <1>3, <1>4, <1>6, <1>7, <1>8, TaskStep DEF Owning, Starting
  <1>9. CASE Set(t, e)
    <2>1. e.pc \in Owning /\ e.gen = call[t].gen
      BY <1>1, <1>6 DEF Owning, Starting
    <2>. QED BY <2>1, <1>2, <1>3, <1>5, <1>7, <1>9, TaskStep
  <1>. QED BY <1>2, <1>8, <1>9

\* The attaches of a request are spawned: the service invariant is kept.
LEMMA SpawnAttachesInv ==
  ASSUME ServiceInv, NEW t \in Callers, SpawnAttaches(t)
  PROVE  ServiceInv'
  <1>1. PICK c, d : /\ c = call[t]
                    /\ d = [Call("send", "wait", Lead) EXCEPT !.gen = c.gen, !.waits = c.waits,
                                                             !.targets = c.targets]
    OBVIOUS
  <1>2. c.pc = "reserve" /\ Set(t, d) /\ Lead \in Slots
    BY <1>1 DEF SpawnAttaches, Slots
  <1>3. CallOK(d)
    BY <1>1, <1>2, CallFacts DEF CallOK, CallTyped, Fields, LocksOK, GenOK, OpsOK, Starting, Holding, Removing, None, Call
  <1>4. \A u \in Callers : u # t => Apart(call[u], d) /\ Apart(d, call[u])
    BY <1>1, <1>2, CallFacts DEF Apart, CallOK, CallTyped, Fields, LocksOK, GenOK, OpsOK, Starting, Holding, Removing, None, Call
  <1>5. RowsOK'
    BY DEF SpawnAttaches, ServiceInv, RowsOK, rowVars, history
  <1>6. \A a \in attaches' : AttachOK(a)
    <2>1. c.gen \in 1..gens /\ \A o \in c.owned : AttachOp(reg[c.gen], o)
      BY <1>1, <1>2, CallFacts DEF CallOK, GenOK, OpsOK, None
    <2>2. \A o \in c.owned : AttachOK(Attach(c.gen, o))
      BY <2>1 DEF AttachOK, Attach
    <2>. QED BY <1>1, <2>2 DEF SpawnAttaches, ServiceInv
  <1>. QED BY <1>1, <1>2, <1>3, <1>4, <1>5, <1>6, QuietStep DEF SpawnAttaches, Owning, Starting

\* The roster is read for a change: the service invariant is kept.
LEMMA EditRosterInv ==
  ASSUME ServiceInv, NEW t \in Callers, EditRoster(t)
  PROVE  ServiceInv'
  <1>1. PICK c, d, e : /\ c = call[t]
                       /\ d = [c EXCEPT !.pc = "persist", !.holds = TRUE, !.snap = roster]
                       /\ e = [c EXCEPT !.pc = "provision", !.holds = TRUE, !.snap = roster]
    OBVIOUS
  <1>2. /\ c.pc = "edit" /\ Free(c.mx)
        /\ Set(t, d) \/ (c.op # "rename" /\ Set(t, e)) \/ End(t)
    BY <1>1 DEF EditRoster
  <1>3. UNCHANGED <<rowVars, tasks, sessionVars, mutex, attaches, history>>
    BY DEF EditRoster
  <1>4. CASE Set(t, d)
    <2>1. CallOK(d)
      BY <1>1, <1>2, CallFacts DEF CallOK, CallTyped, Fields, LocksOK, GenOK, OpsOK, Starting, Holding, Removing, None
    <2>2. \A u \in Callers : u # t => Apart(call[u], d) /\ Apart(d, call[u])
      BY <1>1, <1>2, CallFacts DEF Apart, CallOK, CallTyped, Fields, LocksOK, GenOK, OpsOK, Starting, Holding, Removing, None, Free
    <2>. QED BY <1>1, <1>2, <1>3, <1>4, <2>1, <2>2, CallStep DEF Owning, Starting
  <1>5. CASE c.op # "rename" /\ Set(t, e)
    <2>1. CallOK(e)
      BY <1>1, <1>2, <1>5, CallFacts DEF CallOK, CallTyped, Fields, LocksOK, GenOK, OpsOK, Starting, Holding, Removing, None
    <2>2. \A u \in Callers : u # t => Apart(call[u], e) /\ Apart(e, call[u])
      BY <1>1, <1>2, CallFacts DEF Apart, CallOK, CallTyped, Fields, LocksOK, GenOK, OpsOK, Starting, Holding, Removing, None, Free
    <2>. QED BY <1>1, <1>2, <1>3, <1>5, <2>1, <2>2, CallStep DEF Owning, Starting
  <1>6. CASE End(t)
    BY <1>1, <1>2, <1>3, <1>6, EndAlone DEF Owning, Starting
  <1>. QED BY <1>2, <1>4, <1>5, <1>6

\* The conversation of a new member is created: the service invariant is kept.
LEMMA ProvisionAgentInv ==
  ASSUME ServiceInv, NEW t \in Callers, ProvisionAgent(t)
  PROVE  ServiceInv'
  <1>1. PICK c, d : c = call[t] /\ d = [c EXCEPT !.pc = "persist"]
    OBVIOUS
  <1>2. c.pc = "provision" /\ (Set(t, d) \/ End(t))
    BY <1>1 DEF ProvisionAgent
  <1>3. RowsOK'
    BY <1>1, <1>2, CallFacts DEF ProvisionAgent, ServiceInv, RowsOK, CallTyped, rowVars, history
  <1>4. UNCHANGED <<sessionVars, mutex>> /\ \A a \in attaches' : AttachOK(a)
    BY DEF ProvisionAgent, ServiceInv
  <1>5. CASE Set(t, d)
    <2>1. CallOK(d)
      BY <1>1, <1>2, <1>5, CallFacts DEF CallOK, CallTyped, Fields, LocksOK, GenOK, OpsOK, Starting, Holding, Removing, None
    <2>2. \A u \in Callers : u # t => Apart(call[u], d) /\ Apart(d, call[u])
      BY <1>1, <1>2, <1>5, CallFacts DEF Apart, CallOK, CallTyped, Fields, LocksOK, GenOK, OpsOK, Starting, Holding, Removing, None
    <2>. QED BY <1>1, <1>2, <1>3, <1>4, <1>5, <2>1, <2>2, QuietStep DEF Owning, Starting
  <1>6. CASE End(t)
    BY <1>1, <1>2, <1>3, <1>4, <1>6, EndStep DEF Owning, Starting
  <1>. QED BY <1>2, <1>5, <1>6

\* The changed roster is written: the service invariant is kept.
LEMMA PersistAgentsInv ==
  ASSUME ServiceInv, NEW t \in Callers, PersistAgents(t)
  PROVE  ServiceInv'
  <1>1. PICK c, d : c = call[t] /\ d = [c EXCEPT !.pc = "admit", !.holds = c.op = "add"]
    OBVIOUS
  <1>2. c.pc = "persist" /\ ((Set(t, d) /\ c.op # "rename") \/ End(t))
    BY <1>1 DEF PersistAgents
  <1>3. RowsOK'
    BY <1>1, <1>2, CallFacts DEF PersistAgents, ServiceInv, RowsOK, CallTyped, rowVars, history
  <1>4. UNCHANGED <<sessionVars, mutex>> /\ \A a \in attaches' : AttachOK(a)
    BY DEF PersistAgents, ServiceInv
  <1>5. CASE Set(t, d) /\ c.op # "rename"
    <2>0. /\ DOMAIN d = Fields /\ d.op = c.op /\ d.pc = "admit" /\ d.slot = c.slot /\ d.mx = c.mx
          /\ (d.holds <=> c.op = "add") /\ d.ensures = c.ensures /\ d.snap = c.snap /\ d.gen = c.gen
          /\ d.lease = c.lease /\ d.owned = c.owned /\ d.todo = c.todo /\ d.targets = c.targets
      BY <1>1, CallFacts DEF CallTyped, Fields
    <2>c. c = call[t]
      BY <1>1
    <2>1. CallOK(d)
      BY <2>0, <2>c, <1>2, <1>5, CallFacts DEF CallOK, CallTyped, Fields, LocksOK, GenOK, OpsOK, Starting, Holding, Removing, None
    <2>2. \A u \in Callers : u # t => Apart(call[u], d) /\ Apart(d, call[u])
      BY <2>0, <2>c, <1>2, <1>5, CallFacts DEF Apart, CallOK, CallTyped, Fields, LocksOK, GenOK, OpsOK, Starting, Holding, Removing, None
    <2>. QED BY <1>1, <1>2, <1>3, <1>4, <1>5, <2>1, <2>2, QuietStep DEF Owning, Starting
  <1>6. CASE End(t)
    BY <1>1, <1>2, <1>3, <1>4, <1>6, EndStep DEF Owning, Starting
  <1>. QED BY <1>2, <1>5, <1>6

\* The tasks of a closed team are killed: the service invariant is kept.
LEMMA KillAllInv ==
  ASSUME ServiceInv, NEW t \in Callers, KillAll(t)
  PROVE  ServiceInv'
  <1>1. PICK c, d : c = call[t] /\ d = [c EXCEPT !.pc = "close"]
    OBVIOUS
  <1>2. c.pc = "killAll" /\ (Set(t, d) \/ End(t))
    BY <1>1 DEF KillAll
  <1>3. RowsOK'
    BY <1>1, <1>2, CallFacts DEF KillAll, ServiceInv, RowsOK, CallTyped, rowVars, history
  <1>4. UNCHANGED <<sessionVars, mutex>> /\ \A a \in attaches' : AttachOK(a)
    BY DEF KillAll, ServiceInv
  <1>5. CASE Set(t, d)
    <2>1. CallOK(d)
      BY <1>1, <1>2, <1>5, CallFacts DEF CallOK, CallTyped, Fields, LocksOK, GenOK, OpsOK, Starting, Holding, Removing, None
    <2>2. \A u \in Callers : u # t => Apart(call[u], d) /\ Apart(d, call[u])
      BY <1>1, <1>2, <1>5, CallFacts DEF Apart, CallOK, CallTyped, Fields, LocksOK, GenOK, OpsOK, Starting, Holding, Removing, None
    <2>. QED BY <1>1, <1>2, <1>3, <1>4, <1>5, <2>1, <2>2, QuietStep DEF Owning, Starting
  <1>6. CASE End(t)
    BY <1>1, <1>2, <1>3, <1>4, <1>6, EndStep DEF Owning, Starting
  <1>. QED BY <1>2, <1>5, <1>6

\* The conversation of a removed member is deleted: the service invariant is kept.
LEMMA DeleteConversationInv ==
  ASSUME ServiceInv, NEW t \in Callers, DeleteConversation(t)
  PROVE  ServiceInv'
  <1>1. RowsOK'
    BY CallFacts DEF DeleteConversation, ServiceInv, RowsOK, CallTyped
  <1>. QED BY <1>1, EndStep DEF DeleteConversation, Owning, Starting, ServiceInv

\* persist_agent_last_message writes the roster it has read: the service invariant is kept.
LEMMA WriteLastMessageInv ==
  ASSUME ServiceInv, NEW t \in Callers, WriteLastMessage(t)
  PROVE  ServiceInv'
  <1>1. unlocked' \in BOOLEAN
    BY Zenon DEF WriteLastMessage
  <1>2. RowsOK'
    BY <1>1, CallFacts DEF WriteLastMessage, ServiceInv, RowsOK, CallTyped
  <1>. QED BY <1>2, EndStep DEF WriteLastMessage, Owning, Starting, ServiceInv

\* The welcome message and the attach task of a new member: the service invariant is kept.
LEMMA WelcomeAgentInv ==
  ASSUME ServiceInv, NEW t \in Callers, WelcomeAgent(t)
  PROVE  ServiceInv'
  <1>1. PICK c, d : c = call[t] /\ d = [c EXCEPT !.pc = "remove", !.mx = mutex]
    OBVIOUS
  <1>2. /\ c.pc = "welcome" /\ UNCHANGED <<sessionVars, mutex>>
        /\ (c.op = "spawn" /\ Set(t, d)) \/ End(t)
    BY <1>1 DEF WelcomeAgent
  <1>3. RowsOK'
    BY DEF WelcomeAgent, ServiceInv, RowsOK, rowVars
  <1>4. \A a \in attaches' : AttachOK(a)
    <2>1. c.lease # 0 => AttachOK(Attach(c.gen, c.lease))
      BY <1>1, <1>2, CallFacts DEF AttachOK, Attach, CallOK, GenOK, OpsOK, None
    <2>2. attaches' = attaches \/ (c.lease # 0 /\ attaches' = attaches \cup {Attach(c.gen, c.lease)})
      BY <1>1 DEF WelcomeAgent
    <2>. QED BY <2>1, <2>2 DEF ServiceInv
  <1>5. CASE c.op = "spawn" /\ Set(t, d)
    <2>1. CallOK(d)
      BY <1>1, <1>2, <1>5, CallFacts DEF CallOK, CallTyped, Fields, LocksOK, GenOK, OpsOK, Starting, Holding, Removing, None
    <2>2. \A u \in Callers : u # t => Apart(call[u], d) /\ Apart(d, call[u])
      BY <1>1, <1>2, <1>5, CallFacts DEF Apart, CallOK, CallTyped, Fields, LocksOK, GenOK, OpsOK, Starting, Holding, Removing, None
    <2>. QED BY <1>1, <1>2, <1>3, <1>4, <1>5, <2>1, <2>2, QuietStep DEF Owning, Starting
  <1>6. CASE End(t)
    BY <1>1, <1>2, <1>3, <1>4, <1>6, EndStep DEF Owning, Starting
  <1>. QED BY <1>2, <1>5, <1>6

\* A removal reads the roster under the mutex: the service invariant is kept.
LEMMA ReloadRosterInv ==
  ASSUME ServiceInv, NEW t \in Callers, ReloadRoster(t)
  PROVE  ServiceInv'
  <1>1. PICK c, d : c = call[t] /\ d = [c EXCEPT !.pc = "unlist", !.holds = TRUE, !.snap = roster]
    OBVIOUS
  <1>2. /\ c.pc = "reload" /\ Free(c.mx) /\ UNCHANGED <<sessionVars, mutex, attaches>>
        /\ Set(t, d) \/ End(t)
    BY <1>1 DEF ReloadRoster
  <1>3. RowsOK' /\ \A a \in attaches' : AttachOK(a)
    BY DEF ReloadRoster, ServiceInv, RowsOK, rowVars
  <1>4. CASE Set(t, d)
    <2>1. CallOK(d)
      BY <1>1, <1>2, CallFacts DEF CallOK, CallTyped, Fields, LocksOK, GenOK, OpsOK, Starting, Holding, Removing, None
    <2>2. \A u \in Callers : u # t => Apart(call[u], d) /\ Apart(d, call[u])
      BY <1>1, <1>2, CallFacts DEF Apart, CallOK, CallTyped, Fields, LocksOK, GenOK, OpsOK, Starting, Holding, Removing, None, Free
    <2>. QED BY <1>1, <1>2, <1>3, <1>4, <2>1, <2>2, QuietStep DEF Owning, Starting
  <1>5. CASE End(t)
    BY <1>1, <1>2, <1>3, <1>5, EndStep DEF Owning, Starting
  <1>. QED BY <1>2, <1>4, <1>5

\* An attach task does something for itself alone.
LEMMA AttachQuiet ==
  ASSUME ServiceInv, UNCHANGED <<call, sessionVars, mutex>>, RowsOK', \A a \in attaches' : AttachOK(a)
  PROVE  ServiceInv'
  <1>0. UNCHANGED <<published, gens, reg, sched, loops, mutex, call>>
    BY DEF sessionVars
  <1>1. SessionsOK' /\ NoOrphanSession'
    <2>1. SessionsOK /\ NoOrphanSession
      BY DEF ServiceInv
    <2>. QED BY <2>1, <1>0 DEF SessionsOK, NoOrphanSession
  <1>2. \A c : CallOK(c) => CallOK(c)'
    BY <1>0 DEF CallOK, LocksOK, GenOK, OpsOK
  <1>3. \A a : AttachOK(a) => AttachOK(a)'
    BY <1>0 DEF AttachOK
  <1>4. CallsOK'
    <2>1. CallsOK /\ \A c : (\E u \in Callers : c = call[u]) => CallOK(c)
      BY DEF ServiceInv, CallsOK
    <2>2. \A c : (\E u \in Callers : c = call'[u]) => CallOK(c)'
      BY <2>1, <1>0, <1>2
    <2>3. (\A u \in Callers : CallOK(call[u]))'
      BY <2>2
    <2>. QED BY <2>1, <2>3, <1>0 DEF CallsOK
  <1>5. (\A a \in attaches : AttachOK(a))'
    BY <1>3
  <1>. QED BY <1>1, <1>4, <1>5 DEF ServiceInv

\* An attach whose lease does not own its member any more has been answered.
LEMMA StaleAttach ==
  ASSUME ServiceInv, NEW a \in attaches
  PROVE  /\ AttachOK(a) /\ a.gen \in 1..gens /\ a.op \in 1..reg[a.gen].lastOp /\ Member(a) \in Slots
         /\ RegOK(reg[a.gen]) /\ a.op # 0 /\ reg[a.gen].lastOp # 0
         /\ ~Owns(reg[a.gen], a.op, "Attaching") => reg[a.gen].outcome[a.op] # "Pending"
  <1>1. AttachOK(a) /\ a.gen \in 1..gens /\ a.gen \in Generations
    BY ServiceAssumption DEF ServiceInv, AttachOK, SessionsOK, Generations
  <1>2. PICK r : r = reg[a.gen] /\ RegOK(r)
    BY <1>1 DEF ServiceInv, SessionsOK
  <1>3. r.lastOp \in Nat /\ r.leases \in [1..r.lastOp -> Slots]
    BY <1>2, RegParts
  <1>4. a.op \in 1..r.lastOp /\ r.entry[r.leases[a.op]] # Entry("Removing", a.op)
    BY <1>1, <1>2 DEF AttachOK, AttachOp
  <1>5. r.leases[a.op] \in Slots /\ a.op # 0 /\ r.lastOp # 0
    BY <1>3, <1>4
  <1>6. r.outcome[a.op] = "Pending" => r.entry[r.leases[a.op]] = Entry("Attaching", a.op)
    BY <1>2, <1>4 DEF RegOK
  <1>7. r.outcome[a.op] = "Pending" => ~r.stopped
    <2>1. Registry.entry[r.leases[a.op]] = Entry("Absent", 0)
      BY <1>5 DEF Registry
    <2>2. Entry("Absent", 0) # Entry("Attaching", a.op)
      BY DEF Entry
    <2>3. r.stopped => r.entry = Registry.entry
      BY <1>2 DEF RegOK
    <2>. QED BY <1>6, <2>1, <2>2, <2>3
  <1>. QED BY <1>1, <1>2, <1>4, <1>5, <1>6, <1>7 DEF Owns, Member

\* An attach kills the old task: the service invariant is kept.
LEMMA AttachStartInv ==
  ASSUME ServiceInv, NEW a \in attaches, AttachStart(a)
  PROVE  ServiceInv'
  <1>1. RowsOK'
    BY StaleAttach DEF AttachStart, ServiceInv, RowsOK, rowVars, history, TasksWithout
  <1>2. \A b \in attaches' : AttachOK(b)
    BY StaleAttach DEF AttachStart, Step, At, AttachOK, ServiceInv
  <1>. QED BY <1>1, <1>2, AttachQuiet DEF AttachStart

\* An attach warms up the new task: the service invariant is kept.
LEMMA AttachWarmInv ==
  ASSUME ServiceInv, NEW a \in attaches, AttachWarm(a)
  PROVE  ServiceInv'
  <1>1. RowsOK'
    BY StaleAttach DEF AttachWarm, ServiceInv, RowsOK, rowVars, history, TasksWithout
  <1>2. \A b \in attaches' : AttachOK(b)
    BY StaleAttach DEF AttachWarm, Step, At, AttachOK, ServiceInv
  <1>. QED BY <1>1, <1>2, AttachQuiet DEF AttachWarm

\* An attach asks whether it still owns its operation: the service invariant is kept.
LEMMA AttachCheckInv ==
  ASSUME ServiceInv, NEW a \in attaches, AttachCheck(a)
  PROVE  ServiceInv'
  <1>1. RowsOK'
    BY StaleAttach DEF AttachCheck, ServiceInv, RowsOK, rowVars, history, TasksWithout
  <1>2. \A b \in attaches' : AttachOK(b)
    BY StaleAttach DEF AttachCheck, Step, At, AttachOK, ServiceInv
  <1>. QED BY <1>1, <1>2, AttachQuiet DEF AttachCheck

\* A stale attach kills its task: the service invariant is kept.
LEMMA AttachCleanInv ==
  ASSUME ServiceInv, NEW a \in attaches, AttachClean(a)
  PROVE  ServiceInv'
  <1>1. RowsOK'
    BY StaleAttach DEF AttachClean, ServiceInv, RowsOK, rowVars, history, TasksWithout
  <1>2. \A b \in attaches' : AttachOK(b)
    BY StaleAttach DEF AttachClean, Step, At, AttachOK, ServiceInv
  <1>. QED BY <1>1, <1>2, AttachQuiet DEF AttachClean

\* A failed attach kills its task: the service invariant is kept.
LEMMA AttachFailedInv ==
  ASSUME ServiceInv, NEW a \in attaches, AttachFailed(a)
  PROVE  ServiceInv'
  <1>1. RowsOK'
    BY StaleAttach DEF AttachFailed, ServiceInv, RowsOK, rowVars, history, TasksWithout
  <1>2. \A b \in attaches' : AttachOK(b)
    BY StaleAttach DEF AttachFailed, Step, At, AttachOK, ServiceInv
  <1>. QED BY <1>1, <1>2, AttachQuiet DEF AttachFailed

-----------------------------------------------------------------------------
(* Steps of a request that change its session *)

\* A request makes a step in the registry of one session.
LEMMA SessionCall ==
  ASSUME ServiceInv, NEW t \in Callers, NEW d, Set(t, d), NEW g, NEW s, NEW o,
         RegStep(g, s, o), OnlyIn(g), RowsOK', attaches' = attaches, CallOK(d)',
         \A u \in Callers : u # t => Apart(call[u], d) /\ Apart(d, call[u]),
         \A u \in Callers : u # t => /\ call[u].pc \in Starting => call[u].gen # g
                                     /\ call[u].gen = g => call[u].lease # o \/ o = 0,
         call[t].pc \notin Owning \/ (d.pc \in Owning /\ d.gen = call[t].gen)
  PROVE  ServiceInv'
  <1>0. /\ SessionsOK /\ CallsOK /\ NoOrphanSession /\ mutex \in Nat
        /\ UNCHANGED <<published, gens>>
    BY DEF ServiceInv, RowsOK, OnlyIn
  <1>1. /\ SessionsOK'
        /\ \A h \in Generations : Evolves(reg[h], reg'[h])
        /\ \A a : AttachOK(a) => AttachOK(a)'
        /\ \A c : CallOK(c) /\ (c.pc \in Starting => c.gen # g) /\ (c.gen = g => c.lease # o \/ o = 0)
                     => CallOK(c)'
    BY <1>0, RegStepKeeps
  <1>2. CallsOK'
    <2>1. \A c : (\E u \in Callers : u # t /\ c = call[u]) => CallOK(c)'
      <3> SUFFICES ASSUME NEW c, NEW u \in Callers, u # t, c = call[u] PROVE CallOK(c)'
        OBVIOUS
      <3>1. CallOK(c)
        BY CallFacts
      <3>2. (c.pc \in Starting => c.gen # g) /\ (c.gen = g => c.lease # o \/ o = 0)
        OBVIOUS
      <3>. QED BY <3>1, <3>2, <1>1
    <2>. QED BY <1>0, <2>1, CallsStep
  <1>3. NoOrphanSession'
    <2>1. \A h \in Generations : reg[h].stopped => reg'[h].stopped
      BY <1>1 DEF Evolves
    <2>. QED BY <1>0, <2>1, OrphanStep
  <1>4. (\A a \in attaches : AttachOK(a))'
    BY <1>1 DEF ServiceInv
  <1>. QED BY <1>1, <1>2, <1>3, <1>4 DEF ServiceInv

\* A registry that is left alone takes a step of no operation.
LEMMA SameRegistry ==
  ASSUME ServiceInv, NEW g \in 1..gens, reg' = reg
  PROVE  RegStep(g, reg[g], 0)
  <1>1. RegOK(reg[g]) /\ g \in Generations /\ DOMAIN reg = Generations
    BY ServiceAssumption DEF ServiceInv, SessionsOK, Generations
  <1>. QED BY <1>1, EvolvesSame DEF RegStep, RegBecomes

\* A new operation of member m in session g.
LEMMA StartedStep ==
  ASSUME ServiceInv, NEW g \in 1..gens, NEW m \in Slots, NEW kind \in {"Attaching", "Removing"},
         ~reg[g].stopped, reg[g].entry[m].kind # "Removing",
         RegBecomes(g, Started(reg[g], m, kind))
  PROVE  /\ RegStep(g, reg'[g], 0) /\ ~reg'[g].stopped
         /\ reg[g].lastOp \in Nat /\ reg'[g].lastOp = reg[g].lastOp + 1
         /\ reg'[g].leases[reg[g].lastOp + 1] = m
         /\ reg'[g].entry[m] = Entry(kind, reg[g].lastOp + 1)
         /\ \A a \in Slots : a # m => reg'[g].entry[a] = reg[g].entry[a]
         /\ \A o \in 1..reg[g].lastOp : AttachOp(reg[g], o) => AttachOp(reg'[g], o)
         /\ \A o \in 1..reg[g].lastOp : reg'[g].outcome[o] = "Pending" =>
               reg[g].outcome[o] = "Pending" /\ reg[g].leases[o] # m
  <1>1. /\ g \in Generations /\ DOMAIN reg = Generations /\ RegOK(reg[g])
    BY ServiceAssumption DEF ServiceInv, SessionsOK, Generations
  <1>2. PICK r, s : r = reg[g] /\ s = Started(r, m, kind)
    OBVIOUS
  <1>3. /\ RegOK(s) /\ Evolves(r, s) /\ ~s.stopped
        /\ s.lastOp = r.lastOp + 1
        /\ s.entry = [r.entry EXCEPT ![m] = Entry(kind, s.lastOp)]
        /\ s.leases[s.lastOp] = m
        /\ \A o \in 1..r.lastOp : s.outcome[o] = "Pending" => r.outcome[o] = "Pending" /\ r.leases[o] # m
    BY <1>1, <1>2, StartedOK
  <1>4. r.lastOp \in Nat /\ r.entry \in [Slots -> [kind : Kinds, op : Nat]]
    BY <1>1, <1>2, RegParts
  <1>5. s.entry[m] = Entry(kind, s.lastOp) /\ \A a \in Slots : a # m => s.entry[a] = r.entry[a]
    BY <1>3, <1>4
  <1>6. reg'[g] = s /\ RegBecomes(g, s)
    BY <1>2 DEF RegBecomes
  <1>7. \A a \in Slots : \A k \in Nat : r.entry[a] = Entry("Removing", k) => s.entry[a] = Entry("Removing", k)
    BY <1>2, <1>5 DEF Entry
  <1>8. RegStep(g, s, 0)
    BY <1>2, <1>3, <1>6, <1>7 DEF RegStep
  <1>9. \A o \in 1..r.lastOp : AttachOp(r, o) => AttachOp(s, o)
    BY <1>3 DEF Evolves
  <1>. QED BY <1>2, <1>3, <1>4, <1>5, <1>6, <1>8, <1>9

\* The owner of operation o of session g ends it.
LEMMA EndedStep ==
  ASSUME ServiceInv, NEW g \in 1..gens, NEW o \in 1..reg[g].lastOp, NEW kind \in {"Attaching", "Removing"},
         Owns(reg[g], o, kind),
         NEW e \in {Entry("Ready", 0), Entry("Absent", 0), Entry("Failed", o)},
         NEW x \in {"Ready", "Removed", "Failed"},
         RegBecomes(g, Ended(reg[g], o, e, x))
  PROVE  /\ RegStep(g, reg'[g], IF kind = "Removing" THEN o ELSE 0) /\ ~reg'[g].stopped
         /\ reg'[g].lastOp = reg[g].lastOp /\ reg'[g].leases = reg[g].leases
         /\ reg[g].leases[o] \in Slots
         /\ reg'[g].entry[reg[g].leases[o]] = e
         /\ \A a \in Slots : a # reg[g].leases[o] => reg'[g].entry[a] = reg[g].entry[a]
         /\ reg'[g].outcome[o] = x
         /\ \A k \in 1..reg[g].lastOp : k # o => reg'[g].outcome[k] = reg[g].outcome[k]
  <1>1. /\ g \in Generations /\ DOMAIN reg = Generations /\ RegOK(reg[g])
    BY ServiceAssumption DEF ServiceInv, SessionsOK, Generations
  <1>2. PICK r, s : r = reg[g] /\ s = Ended(r, o, e, x)
    OBVIOUS
  <1>3. ~r.stopped /\ r.entry[r.leases[o]] = Entry(kind, o)
    BY <1>2 DEF Owns
  <1>4. x \in Outcomes \ {"Pending"}
    BY DEF Outcomes
  <1>5. /\ RegOK(s) /\ Evolves(r, s) /\ ~s.stopped
        /\ s.lastOp = r.lastOp /\ s.leases = r.leases
        /\ s.entry[r.leases[o]] = e
        /\ \A a \in Slots : a # r.leases[o] => s.entry[a] = r.entry[a]
        /\ s.outcome[o] = x
        /\ \A k \in 1..r.lastOp : k # o => s.outcome[k] = r.outcome[k]
    <2>1. RegOK(r) /\ o \in 1..r.lastOp
      BY <1>1, <1>2
    <2>. QED BY <2>1, <1>2, <1>3, <1>4, EndedOK
  <1>6. /\ r.entry \in [Slots -> [kind : Kinds, op : Nat]] /\ r.leases \in [1..r.lastOp -> Slots]
        /\ r.outcome \in [1..r.lastOp -> Outcomes]
    BY <1>1, <1>2, RegParts
  <1>7. PICK m \in Slots : m = r.leases[o]
    BY <1>2, <1>6
  <1>8. /\ s.entry[m] = e /\ \A a \in Slots : a # m => s.entry[a] = r.entry[a]
        /\ s.outcome[o] = x /\ \A k \in 1..r.lastOp : k # o => s.outcome[k] = r.outcome[k]
    BY <1>2, <1>5, <1>6, <1>7
  <1>9. reg'[g] = s /\ RegBecomes(g, s)
    BY <1>2 DEF RegBecomes
  <1>10. \A a \in Slots : \A k \in Nat :
            k # (IF kind = "Removing" THEN o ELSE 0) /\ r.entry[a] = Entry("Removing", k)
               => s.entry[a] = Entry("Removing", k)
    <2> SUFFICES ASSUME NEW a \in Slots, NEW k \in Nat, k # (IF kind = "Removing" THEN o ELSE 0),
                        r.entry[a] = Entry("Removing", k)
                 PROVE  a # m
      BY <1>8
    <2>. QED BY <1>3, <1>7 DEF Entry
  <1>11. RegStep(g, s, IF kind = "Removing" THEN o ELSE 0)
    BY <1>2, <1>5, <1>9, <1>10 DEF RegStep
  <1>. QED BY <1>2, <1>5, <1>7, <1>8, <1>9, <1>11

\* A member of a new session is marked ready: the service invariant is kept.
LEMMA SeedReadyInv ==
  ASSUME ServiceInv, NEW t \in Callers, NEW m \in Slots, SeedReady(t, m)
  PROVE  ServiceInv'
  <1>1. PICK c, d, g : c = call[t] /\ d = [c EXCEPT !.todo = @ \ {m}] /\ g = c.gen
    OBVIOUS
  <1>2. /\ c.pc = "seed" /\ m \in c.todo /\ Set(t, d)
        /\ UNCHANGED <<rowVars, tasks, published, gens, sched, loops, mutex, attaches, history>>
        /\ reg' = [reg EXCEPT ![g] = Seeded(reg[g], m)]
    BY <1>1 DEF SeedReady
  <1>3. /\ g \in 1..gens /\ Untouched(reg[g]) /\ CallOK(c) /\ published = None
    BY <1>1, <1>2, CallFacts DEF CallOK, GenOK, Starting, None
  <1>4. g \in Generations /\ DOMAIN reg = Generations /\ RegOK(reg[g])
    BY <1>3, ServiceAssumption DEF ServiceInv, SessionsOK, Generations
  <1>5. PICK r, s : r = reg[g] /\ s = Seeded(r, m)
    OBVIOUS
  <1>6. /\ RegOK(s) /\ Evolves(r, s) /\ Untouched(s)
        /\ s.entry = [r.entry EXCEPT ![m] = Entry("Ready", 0)]
    BY <1>3, <1>4, <1>5, SeededOK
  <1>7. r.entry \in [Slots -> [kind : Kinds, op : Nat]] /\ r.lastOp = 0 /\ ~r.stopped
    BY <1>3, <1>4, <1>5, RegParts DEF Untouched
  <1>8. s.entry[m] = Entry("Ready", 0) /\ \A a \in Slots : a # m => s.entry[a] = r.entry[a]
    BY <1>6, <1>7
  <1>9. reg'[g] = s /\ RegBecomes(g, s)
    BY <1>2, <1>4, <1>5 DEF RegBecomes
  <1>10. RegStep(g, s, 0)
    <2>1. \A a \in Slots : r.entry[a].kind # "Removing"
      BY <1>4, <1>5, <1>7 DEF RegOK
    <2>2. \A a \in Slots : \A k \in Nat : r.entry[a] # Entry("Removing", k)
      BY <2>1 DEF Entry
    <2>3. ~s.stopped
      BY <1>6 DEF Untouched
    <2>. QED BY <1>3, <1>5, <1>6, <1>9, <2>2, <2>3 DEF RegStep
  <1>11. OnlyIn(g)
    BY <1>2, <1>5, <1>7 DEF OnlyIn, ServiceInv, SessionsOK
  <1>12. CallOK(d)'
    <2>1. /\ CallTyped(d) /\ d.op = c.op /\ d.pc = c.pc /\ d.mx = c.mx /\ d.holds = c.holds
          /\ d.ensures = c.ensures /\ d.gen = g /\ d.snap = c.snap /\ d.lease = c.lease
          /\ d.todo = c.todo \ {m}
      BY <1>1, <1>3 DEF CallOK, CallTyped, Fields
    <2>2. LocksOK(d)'
      BY <1>2, <1>3, <2>1 DEF CallOK, LocksOK, Starting, Holding
    <2>3. GenOK(d)'
      <3>1. \A a \in Slots : s.entry[a].kind # "Absent" => a \in c.snap \ (c.todo \ {m})
        BY <1>1, <1>2, <1>3, <1>5, <1>8 DEF CallOK, GenOK, Starting
      <3>2. loops[g] = c.snap /\ c.todo \subseteq c.snap /\ sched[g] = c.snap /\ c.op # "spawn"
        BY <1>1, <1>2, <1>3 DEF CallOK, GenOK, Starting, None
      <3>3. /\ published' = None /\ reg'[d.gen] = s /\ sched'[d.gen] = d.snap /\ loops'[d.gen] = d.snap
            /\ d.gen # None /\ d.gen \in 0..gens' /\ d.pc = "seed" /\ d.op # "spawn"
            /\ d.todo \subseteq d.snap
            /\ \A a \in Slots : s.entry[a].kind # "Absent" => a \in d.snap \ d.todo
        BY <1>2, <1>3, <1>9, <2>1, <3>1, <3>2 DEF None
      <3>. QED BY <1>6, <3>3 DEF GenOK
    <2>4. OpsOK(d)'
      BY <1>2, <1>3, <2>1 DEF CallOK, OpsOK, Removing
    <2>. QED BY <2>1, <2>2, <2>3, <2>4 DEF CallOK
  <1>13. \A u \in Callers : u # t => Apart(call[u], d) /\ Apart(d, call[u])
    BY <1>1, <1>2, CallFacts DEF Apart, CallOK, CallTyped, Fields, LocksOK, GenOK, OpsOK, Starting, Holding, Removing, None
  <1>14. \A u \in Callers : u # t => (call[u].pc \in Starting => call[u].gen # g)
    BY <1>1, CallFacts DEF Apart
  <1>15. RowsOK'
    BY <1>2 DEF ServiceInv, RowsOK, rowVars, history
  <1>16. d.pc \in Owning /\ d.gen = call[t].gen
    BY <1>1, <1>2, CallFacts DEF CallTyped, Fields, Owning, Starting
  <1>. QED BY <1>2, <1>10, <1>11, <1>12, <1>13, <1>14, <1>15, <1>16, SessionCall

\* The scheduler and the loops of session g change.
LEMMA OnlyInStep ==
  ASSUME ServiceInv, NEW g \in 1..gens, NEW A \in SUBSET Slots, NEW B \in SUBSET Slots,
         UNCHANGED <<published, gens, mutex>>, sched' = [sched EXCEPT ![g] = A],
         loops' = [loops EXCEPT ![g] = B], reg[g].stopped => B = {}
  PROVE  OnlyIn(g)
  <1>1. g \in Generations
    BY ServiceAssumption DEF ServiceInv, SessionsOK, Generations
  <1>. QED BY <1>1 DEF OnlyIn, ServiceInv, SessionsOK

\* The scheduler and the loops of a session are sets of slots.
LEMMA SameScheduler ==
  ASSUME ServiceInv, NEW g \in 1..gens
  PROVE  /\ sched[g] \in SUBSET Slots /\ loops[g] \in SUBSET Slots
         /\ sched = [sched EXCEPT ![g] = sched[g]] /\ loops = [loops EXCEPT ![g] = loops[g]]
         /\ reg[g].stopped => loops[g] = {}
  <1>1. g \in Generations
    BY ServiceAssumption DEF ServiceInv, SessionsOK, Generations
  <1>. QED BY <1>1 DEF ServiceInv, SessionsOK

\* Others do not work on the session of a request that is not starting it.
LEMMA OthersElsewhere ==
  ASSUME ServiceInv, NEW t \in Callers
  PROVE  \A u \in Callers : u # t =>
            /\ call[u].pc \in Starting => call[u].gen # call[t].gen /\ call[u].gen # published
            /\ call[u].gen = call[t].gen /\ call[t].lease # 0 => call[u].lease # call[t].lease
  BY CallFacts DEF Apart, CallOK, GenOK, None, Starting

\* The attach of a member is reserved or joined: the service invariant is kept.
LEMMA ReserveMemberInv ==
  ASSUME ServiceInv, NEW t \in Callers, NEW m \in Slots, ReserveMember(t, m)
  PROVE  ServiceInv'
  <1>1. PICK c, g, r, n, A : /\ c = call[t] /\ g = c.gen /\ r = reg[g] /\ n = r.lastOp + 1
                             /\ A = sched[g] \cup {m}
    OBVIOUS
  <1>2. /\ c.pc = "reserve" /\ ~r.stopped /\ sched' = [sched EXCEPT ![g] = A]
        /\ UNCHANGED <<rowVars, tasks, published, gens, loops, mutex, attaches, history>>
    BY <1>1 DEF ReserveMember
  <1>3. /\ CallOK(c) /\ g \in 1..gens /\ RegOK(r) /\ c.lease = 0
    BY <1>1, <1>2, CallFacts DEF CallOK, GenOK, OpsOK, Removing, None
  <1>4. OnlyIn(g)
    <2>1. A \in SUBSET Slots
      BY <1>1, <1>3, SameScheduler
    <2>2. loops' = [loops EXCEPT ![g] = loops[g]]
      BY <1>2, <1>3, SameScheduler
    <2>. QED BY <1>1, <1>2, <1>3, <2>1, <2>2, SameScheduler, OnlyInStep
  <1>5. RowsOK'
    BY <1>2 DEF ServiceInv, RowsOK, rowVars, history
  <1>6. CASE NeedsAttach(r, m)
    <2>1. PICK d : d = [[c EXCEPT !.todo = @ \ {m}] EXCEPT !.waits = @ \cup {n}, !.owned = @ \cup {n}]
      OBVIOUS
    <2>2. Set(t, d) /\ reg' = [reg EXCEPT ![g] = Started(r, m, "Attaching")]
      BY <1>1, <1>6, <2>1 DEF ReserveMember
    <2>x. RegBecomes(g, Started(reg[g], m, "Attaching"))
      BY <1>1, <1>3, <2>2, CallFacts DEF RegBecomes, ServiceInv, SessionsOK
    <2>3. reg[g].entry[m].kind # "Removing"
      BY <1>1, <1>6 DEF NeedsAttach
    <2>4. /\ RegStep(g, reg'[g], 0) /\ ~reg'[g].stopped
          /\ r.lastOp \in Nat /\ reg'[g].lastOp = n /\ reg'[g].leases[n] = m
          /\ reg'[g].entry[m] = Entry("Attaching", n)
          /\ \A o \in 1..r.lastOp : AttachOp(r, o) => AttachOp(reg'[g], o)
      BY <1>1, <1>2, <1>3, <2>x, <2>3, StartedStep
    <2>5. /\ CallTyped(d) /\ d.op = c.op /\ d.pc = c.pc /\ d.mx = c.mx /\ d.holds = c.holds
          /\ d.ensures = c.ensures /\ d.gen = g /\ d.lease = 0 /\ d.owned = c.owned \cup {n}
      BY <1>1, <1>3, <2>1 DEF CallOK, CallTyped, Fields
    <2>6. AttachOp(reg'[g], n) /\ \A o \in c.owned : AttachOp(reg'[g], o)
      <3>1. AttachOp(reg'[g], n)
        BY <1>1, <2>4 DEF AttachOp, Entry
      <3>2. \A o \in c.owned : AttachOp(r, o) /\ o \in 1..r.lastOp
        BY <1>1, <1>2, <1>3 DEF CallOK, OpsOK, AttachOp
      <3>. QED BY <2>4, <3>1, <3>2
    <2>7. CallOK(d)'
      <3>1. LocksOK(d)'
        BY <1>2, <1>3, <2>5 DEF CallOK, LocksOK
      <3>2. GenOK(d)'
        BY <1>1, <1>2, <1>3, <2>5 DEF CallOK, GenOK, None, Starting
      <3>3. OpsOK(d)'
        BY <1>2, <2>5, <2>6 DEF OpsOK
      <3>. QED BY <2>5, <3>1, <3>2, <3>3 DEF CallOK
    <2>8. \A u \in Callers : u # t => Apart(call[u], d) /\ Apart(d, call[u])
      BY <1>1, <1>2, <1>3, <2>5, CallFacts DEF Apart, Starting, CallOK, OpsOK
    <2>. QED BY <1>1, <1>2, <1>4, <1>5, <2>2, <2>4, <2>7, <2>8, OthersElsewhere, SessionCall
             DEF Owning, Starting
  <1>7. CASE ~NeedsAttach(r, m)
    <2>1. PICK d, w : d = [[c EXCEPT !.todo = @ \ {m}] EXCEPT !.waits = w] /\ Set(t, d) /\ reg' = reg
      <3>1. CASE r.entry[m].kind = "Ready"
        <4>1. [c EXCEPT !.todo = @ \ {m}] = [[c EXCEPT !.todo = @ \ {m}] EXCEPT !.waits = c.waits]
          BY <1>3 DEF CallOK, CallTyped, Fields
        <4>2. Set(t, [c EXCEPT !.todo = @ \ {m}]) /\ reg' = reg
          BY <1>1, <1>7, <3>1 DEF ReserveMember
        <4>. QED BY <4>1, <4>2
      <3>2. CASE r.entry[m].kind # "Ready"
        BY <1>1, <1>7, <3>2 DEF ReserveMember
      <3>. QED BY <3>1, <3>2
    <2>2. RegStep(g, reg[g], 0)
      BY <1>3, <2>1, SameRegistry
    <2>3. /\ CallTyped(d) /\ d.op = c.op /\ d.pc = c.pc /\ d.mx = c.mx /\ d.holds = c.holds
          /\ d.ensures = c.ensures /\ d.gen = g /\ d.lease = 0 /\ d.owned = c.owned
      BY <1>1, <1>3, <2>1 DEF CallOK, CallTyped, Fields
    <2>4. CallOK(d)'
      <3>1. LocksOK(d)'
        BY <1>2, <1>3, <2>3 DEF CallOK, LocksOK
      <3>2. GenOK(d)'
        BY <1>1, <1>2, <1>3, <2>3 DEF CallOK, GenOK, None, Starting
      <3>3. OpsOK(d)'
        BY <1>1, <1>2, <1>3, <2>1, <2>3 DEF CallOK, OpsOK
      <3>. QED BY <2>3, <3>1, <3>2, <3>3 DEF CallOK
    <2>5. \A u \in Callers : u # t => Apart(call[u], d) /\ Apart(d, call[u])
      BY <1>1, <1>2, <1>3, <2>3, CallFacts DEF Apart, Starting, CallOK, OpsOK
    <2>. QED BY <1>1, <1>2, <1>4, <1>5, <2>1, <2>2, <2>4, <2>5, OthersElsewhere, SessionCall
             DEF Owning, Starting
  <1>. QED BY <1>6, <1>7

\* A new member is admitted to the published session: the service invariant is kept.
LEMMA AdmitAgentInv ==
  ASSUME ServiceInv, NEW t \in Callers, AdmitAgent(t)
  PROVE  ServiceInv'
  <1>1. PICK c, g, r, n, m, A : /\ c = call[t] /\ g = published /\ r = reg[g] /\ n = r.lastOp + 1
                                /\ m = c.slot /\ A = sched[g] \cup {m}
    OBVIOUS
  <1>2. /\ c.pc = "admit"
        /\ UNCHANGED <<rowVars, tasks, published, gens, loops, mutex, attaches, removed, dropped, unlocked>>
    BY <1>1 DEF AdmitAgent
  <1>3. CASE g = None
    BY <1>1, <1>2, <1>3, EndAlone DEF AdmitAgent, Owning, Starting, sessionVars, history
  <1>4. CASE g # None
    <2>1. /\ CallOK(c) /\ m \in Slots /\ g \in 1..gens /\ RegOK(r) /\ ~r.stopped /\ c.lease = 0
      BY <1>1, <1>2, <1>4, CallFacts DEF CallOK, CallTyped, OpsOK, Removing, None
    <2>2. RowsOK'
      BY <1>2 DEF ServiceInv, RowsOK, rowVars
    <2>3. OnlyIn(g)
      <3>1. A \in SUBSET Slots
        BY <1>1, <2>1, SameScheduler
      <3>2. loops' = [loops EXCEPT ![g] = loops[g]]
        BY <1>2, <2>1, SameScheduler
      <3>3. sched' = [sched EXCEPT ![g] = A]
        BY <1>1, <1>4 DEF AdmitAgent
      <3>. QED BY <1>1, <1>2, <2>1, <3>1, <3>2, <3>3, SameScheduler, OnlyInStep
    <2>4. ASSUME NEW s, NEW L, NEW d, d = [c EXCEPT !.pc = "welcome", !.gen = g, !.lease = L],
                 Set(t, d), RegStep(g, s, 0), 
                 L # 0 => L = n /\ s.leases[L] = m /\ AttachOp(s, L)
          PROVE  ServiceInv'
      <3>1. /\ CallTyped(d) /\ d.op = c.op /\ d.pc = "welcome" /\ d.mx = c.mx /\ d.holds = c.holds
            /\ d.ensures = c.ensures /\ d.gen = g /\ d.lease = L /\ d.slot = m
        BY <1>1, <2>1, <2>4 DEF CallOK, CallTyped, Fields
      <3>2. LocksOK(d)'
        BY <1>2, <2>1, <3>1 DEF CallOK, LocksOK, Starting, Holding
      <3>3. GenOK(d)'
        BY <1>1, <1>2, <1>4, <2>1, <3>1 DEF CallOK, GenOK, None, Starting
      <3>4. OpsOK(d)'
        BY <1>4, <2>4, <3>1 DEF OpsOK, AttachOp, Removing, RegStep, RegBecomes
      <3>5. CallOK(d)'
        BY <3>1, <3>2, <3>3, <3>4 DEF CallOK
      <3>6. ASSUME NEW u \in Callers, u # t PROVE Apart(call[u], d) /\ Apart(d, call[u])
        <4>1. /\ CallOK(call[u]) /\ Apart(call[u], c) /\ Apart(c, call[u])
              /\ call[u].pc \in Starting => call[u].gen # g
          BY <3>6, <1>1, CallFacts, OthersElsewhere
        <4>2. call[u].gen = g /\ call[u].lease # 0 => call[u].lease # L
          BY <1>1, <2>1, <2>4, <4>1 DEF CallOK, OpsOK, RegOK
        <4>. QED BY <1>2, <3>1, <4>1, <4>2 DEF Apart, Starting
      <3>. QED BY <1>1, <1>2, <2>2, <2>3, <2>4, <3>5, <3>6, OthersElsewhere, SessionCall
               DEF Owning, Starting
    <2>5. CASE r.entry[m].kind = "Absent"
      <3>1. /\ Set(t, [c EXCEPT !.pc = "welcome", !.gen = g, !.lease = n])
            /\ reg' = [reg EXCEPT ![g] = Started(r, m, "Attaching")]
        BY <1>1, <1>4, <2>1, <2>5 DEF AdmitAgent
      <3>2. RegBecomes(g, Started(reg[g], m, "Attaching"))
        BY <1>1, <2>1, <3>1, CallFacts DEF RegBecomes, ServiceInv, SessionsOK
      <3>3. /\ RegStep(g, reg'[g], 0) /\ r.lastOp \in Nat /\ reg'[g].lastOp = n /\ reg'[g].leases[n] = m
            /\ reg'[g].entry[m] = Entry("Attaching", n)
        BY <1>1, <2>1, <2>5, <3>2, StartedStep
      <3>4. AttachOp(reg'[g], n)
        BY <1>1, <3>3 DEF AttachOp, Entry
      <3>. QED BY <2>4, <3>1, <3>3, <3>4
    <2>6. CASE r.entry[m].kind # "Absent"
      <3>1. Set(t, [c EXCEPT !.pc = "welcome", !.gen = g, !.lease = 0]) /\ reg' = reg
        BY <1>1, <1>4, <2>1, <2>6 DEF AdmitAgent
      <3>2. RegStep(g, reg[g], 0)
        BY <2>1, <3>1, SameRegistry
      <3>. QED BY <2>4, <3>1, <3>2
    <2>. QED BY <2>5, <2>6
  <1>. QED BY <1>3, <1>4

\* A removal begins in the published session, for a request at "remove" or "retire".
LEMMA RemovalBegins ==
  ASSUME ServiceInv, NEW t \in Callers, NEW c, c = call[t], NEW g, g = published, g # None,
         Removable(reg[g], c.slot), RegBecomes(g, Removal(reg[g], c.slot)),
         UNCHANGED <<rowVars, tasks, published, gens, sched, loops, mutex, attaches, removed, unlocked>>,
         NEW pc, (c.pc = "remove" /\ pc = "kill") \/ (c.pc = "retire" /\ pc = "detach"), NEW d,
         d = [[c EXCEPT !.pc = pc, !.gen = g, !.lease = 0] EXCEPT !.lease = reg[g].lastOp + 1],
         Set(t, d)
  PROVE  ServiceInv'
  <1>1. PICK r, n, m : r = reg[g] /\ n = r.lastOp + 1 /\ m = c.slot
    OBVIOUS
  <1>2. /\ CallOK(c) /\ m \in Slots /\ g \in 1..gens /\ RegOK(r)
    BY <1>1, CallFacts DEF CallOK, CallTyped, None
  <1>3. /\ RegStep(g, reg'[g], 0) /\ ~reg'[g].stopped /\ r.lastOp \in Nat
        /\ reg'[g].lastOp = n /\ reg'[g].leases[n] = m
        /\ reg'[g].entry[m] = Entry("Removing", n)
    BY <1>1, <1>2, StartedStep DEF Removable, Removal
  <1>4. /\ CallTyped(d) /\ d.op = c.op /\ d.pc = pc /\ d.mx = c.mx /\ d.holds = c.holds
        /\ d.ensures = c.ensures /\ d.gen = g /\ d.lease = n /\ d.slot = m
    BY <1>1, <1>2 DEF CallOK, CallTyped, Fields
  <1>5. CallOK(d)'
    <2>1. LocksOK(d)'
      BY <1>2, <1>4 DEF CallOK, LocksOK, Starting, Holding
    <2>2. GenOK(d)'
      BY <1>2, <1>4 DEF CallOK, GenOK, None, Starting
    <2>3. n \in 1..n
      BY <1>1, <1>3
    <2>4. OpsOK(d)'
      BY <1>3, <1>4, <2>3 DEF OpsOK, Removing
    <2>. QED BY <1>4, <2>1, <2>2, <2>4 DEF CallOK
  <1>6. ASSUME NEW u \in Callers, u # t PROVE Apart(call[u], d) /\ Apart(d, call[u])
    <2>1. /\ CallOK(call[u]) /\ Apart(call[u], c) /\ Apart(c, call[u])
          /\ call[u].pc \in Starting => call[u].gen # g
      BY <1>6, CallFacts, OthersElsewhere
    <2>2. call[u].gen = g /\ call[u].lease # 0 => call[u].lease # n
      BY <1>1, <1>2, <2>1 DEF CallOK, OpsOK, RegOK
    <2>. QED BY <1>4, <2>1, <2>2 DEF Apart, Starting
  <1>7. RowsOK'
    BY DEF ServiceInv, RowsOK, rowVars
  <1>8. OnlyIn(g)
    <2>1. loops' = [loops EXCEPT ![g] = loops[g]] /\ sched' = [sched EXCEPT ![g] = sched[g]]
      BY <1>2, SameScheduler
    <2>. QED BY <1>2, <2>1, SameScheduler, OnlyInStep
  <1>. QED BY <1>3, <1>5, <1>6, <1>7, <1>8, OthersElsewhere, SessionCall DEF Owning, Starting

\* A request goes on without a lease.
LEMMA NothingToRemove ==
  ASSUME ServiceInv, NEW t \in Callers, NEW c, c = call[t], c.pc \in {"remove", "retire"},
         UNCHANGED <<rowVars, tasks, sessionVars, mutex, attaches, removed, unlocked>>,
         NEW d, Set(t, d), CallTyped(d), d.op = c.op, d.mx = c.mx, d.holds = c.holds,
         d.ensures = c.ensures, d.gen = published, d.lease = 0,
         (c.pc = "remove" /\ d.pc = "kill") \/ (published # None /\ d.pc \in {"join", "detach"})
  PROVE  ServiceInv'
  <1>1. CallOK(d)
    BY CallFacts DEF CallOK, CallTyped, Fields, LocksOK, GenOK, OpsOK, Starting, Holding, Removing, None
  <1>2. \A u \in Callers : u # t => Apart(call[u], d) /\ Apart(d, call[u])
    BY CallFacts, OthersElsewhere DEF Apart, CallOK, CallTyped, Fields, LocksOK, GenOK, OpsOK, Starting, Holding, Removing, None
  <1>3. RowsOK' /\ \A a \in attaches' : AttachOK(a)
    BY DEF ServiceInv, RowsOK, rowVars
  <1>. QED BY <1>1, <1>2, <1>3, QuietStep DEF Owning, Starting

\* A removal begins or is joined: the service invariant is kept.
LEMMA RemoveAgentInv ==
  ASSUME ServiceInv, NEW t \in Callers, RemoveAgent(t)
  PROVE  ServiceInv'
  <1>1. PICK c, g, r, m, out : /\ c = call[t] /\ g = published /\ r = reg[g] /\ m = c.slot
                               /\ out = [c EXCEPT !.pc = "kill", !.gen = g, !.lease = 0]
    OBVIOUS
  <1>2. /\ c.pc = "remove"
        /\ UNCHANGED <<rowVars, tasks, published, gens, sched, loops, mutex, attaches, removed, loose, unlocked>>
    BY <1>1 DEF RemoveAgent
  <1>3. CASE End(t) /\ UNCHANGED reg
    <2>1. RowsOK' /\ \A a \in attaches' : AttachOK(a)
      BY <1>2 DEF ServiceInv, RowsOK, rowVars
    <2>. QED BY <1>1, <1>2, <1>3, <2>1, EndStep DEF Owning, Starting, sessionVars
  <1>4. CASE /\ g # None /\ Removable(r, m) /\ reg' = [reg EXCEPT ![g] = Removal(r, m)]
             /\ Set(t, [out EXCEPT !.lease = r.lastOp + 1])
    <2>1. RegBecomes(g, Removal(reg[g], m))
      BY <1>1, <1>4, CallFacts DEF RegBecomes, ServiceInv, SessionsOK, None
    <2>. QED BY <1>1, <1>2, <1>4, <2>1, RemovalBegins
  <1>5. CASE UNCHANGED reg /\ Set(t, out)
    <2>1. /\ CallTyped(out) /\ out.op = c.op /\ out.mx = c.mx /\ out.holds = c.holds /\ out.pc = "kill"
          /\ out.ensures = c.ensures /\ out.gen = published /\ out.lease = 0
      BY <1>1, CallFacts DEF CallTyped, Fields
    <2>2. /\ c = call[t] /\ c.pc = "remove" /\ Set(t, out)
          /\ UNCHANGED <<rowVars, tasks, sessionVars, mutex, attaches, removed, unlocked>>
      BY <1>1, <1>2, <1>5 DEF sessionVars
    <2>. QED BY <2>1, <2>2, NothingToRemove, ZenonT(30)
  <1>6. ASSUME g # None, UNCHANGED reg, NEW w, Set(t, [out EXCEPT !.pc = "join", !.waits = w])
        PROVE  ServiceInv'
    <2>1. PICK d : d = [out EXCEPT !.pc = "join", !.waits = w]
      OBVIOUS
    <2>2. /\ CallTyped(d) /\ d.op = c.op /\ d.mx = c.mx /\ d.holds = c.holds /\ d.pc = "join"
          /\ d.ensures = c.ensures /\ d.gen = published /\ d.lease = 0
      BY <1>1, <2>1, CallFacts DEF CallTyped, Fields
    <2>3. /\ c = call[t] /\ c.pc = "remove" /\ Set(t, d) /\ published # None
          /\ UNCHANGED <<rowVars, tasks, sessionVars, mutex, attaches, removed, unlocked>>
      BY <1>1, <1>2, <1>6, <2>1 DEF sessionVars
    <2>. QED BY <2>2, <2>3, NothingToRemove, ZenonT(30)
  <1>. QED BY <1>1, <1>3, <1>4, <1>5, <1>6 DEF RemoveAgent

\* A removal goes on in the session that is published by now: the service invariant is kept.
LEMMA RetireMemberInv ==
  ASSUME ServiceInv, NEW t \in Callers, RetireMember(t)
  PROVE  ServiceInv'
  <1>1. PICK c, g, r, m, out : /\ c = call[t] /\ g = published /\ r = reg[g] /\ m = c.slot
                               /\ out = [c EXCEPT !.pc = "detach", !.gen = g, !.lease = 0]
    OBVIOUS
  <1>2. /\ c.pc = "retire"
        /\ UNCHANGED <<rowVars, tasks, published, gens, sched, loops, mutex, attaches, removed, dropped, unlocked>>
    BY <1>1 DEF RetireMember
  <1>3. RowsOK' /\ \A a \in attaches' : AttachOK(a)
    BY <1>2 DEF ServiceInv, RowsOK, rowVars
  <1>4. CASE g = None
    <2>1. PICK d : d = Call(c.op, "delete", m)
      OBVIOUS
    <2>2. Set(t, d) /\ UNCHANGED reg
      BY <1>1, <1>4, <2>1 DEF RetireMember
    <2>3. CallOK(d)
      BY <1>1, <1>2, <1>4, <2>1, CallFacts DEF Call, CallOK, CallTyped, Fields, LocksOK, GenOK, OpsOK, Starting, Holding, Removing, None
    <2>4. \A u \in Callers : u # t => Apart(call[u], d) /\ Apart(d, call[u])
      BY <1>1, <2>1, CallFacts DEF Call, Apart, CallOK, CallTyped, Fields, LocksOK, GenOK, OpsOK, Starting, Holding, Removing, None
    <2>. QED BY <1>1, <1>2, <1>3, <2>2, <2>3, <2>4, QuietStep DEF Owning, Starting, sessionVars
  <1>5. CASE g # None /\ g = c.gen
    <2>1. PICK d : d = [c EXCEPT !.pc = "detach"]
      OBVIOUS
    <2>2. Set(t, d) /\ UNCHANGED reg
      BY <1>1, <1>5, <2>1 DEF RetireMember
    <2>3. CallOK(d)
      BY <1>1, <1>2, <1>5, <2>1, CallFacts DEF CallOK, CallTyped, Fields, LocksOK, GenOK, OpsOK, Starting, Holding, Removing, None
    <2>4. \A u \in Callers : u # t => Apart(call[u], d) /\ Apart(d, call[u])
      BY <1>1, <2>1, CallFacts DEF Apart, CallOK, CallTyped, Fields, LocksOK, GenOK, OpsOK, Starting, Holding, Removing, None
    <2>. QED BY <1>1, <1>2, <1>3, <2>2, <2>3, <2>4, QuietStep DEF Owning, Starting, sessionVars
  <1>6. CASE g # None /\ g # c.gen /\ Removable(r, m)
    <2>1. Set(t, [out EXCEPT !.lease = r.lastOp + 1]) /\ reg' = [reg EXCEPT ![g] = Removal(r, m)]
      BY <1>1, <1>6 DEF RetireMember
    <2>2. RegBecomes(g, Removal(reg[g], m))
      BY <1>1, <1>6, <2>1, CallFacts DEF RegBecomes, ServiceInv, SessionsOK, None
    <2>. QED BY <1>1, <1>2, <1>6, <2>1, <2>2, RemovalBegins
  <1>7. CASE g # None /\ g # c.gen /\ ~Removable(r, m)
    <2>1. PICK d : /\ Set(t, d) /\ UNCHANGED reg
                   /\ d = out \/ \E w : d = [out EXCEPT !.waits = w]
      BY <1>1, <1>7 DEF RetireMember
    <2>2. /\ CallTyped(d) /\ d.op = c.op /\ d.mx = c.mx /\ d.holds = c.holds /\ d.pc = "detach"
          /\ d.ensures = c.ensures /\ d.gen = published /\ d.lease = 0
      BY <1>1, <2>1, CallFacts DEF CallTyped, Fields
    <2>3. /\ c = call[t] /\ c.pc = "retire" /\ Set(t, d) /\ published # None
          /\ UNCHANGED <<rowVars, tasks, sessionVars, mutex, attaches, removed, unlocked>>
      BY <1>1, <1>2, <1>7, <2>1 DEF sessionVars
    <2>. QED BY <2>2, <2>3, NothingToRemove, ZenonT(30)
  <1>. QED BY <1>4, <1>5, <1>6, <1>7

\* A removal aborts the loop and kills the task: the service invariant is kept.
LEMMA KillMemberInv ==
  ASSUME ServiceInv, NEW t \in Callers, KillMember(t)
  PROVE  ServiceInv'
  <1>1. PICK c, d, g : c = call[t] /\ d = [c EXCEPT !.pc = "reload"] /\ g = c.gen
    OBVIOUS
  <1>2. c.pc = "kill" /\ Set(t, d) /\ UNCHANGED <<published, gens, reg, mutex, attaches>>
    BY <1>1 DEF KillMember
  <1>3. RowsOK'
    BY DEF KillMember, ServiceInv, RowsOK, rowVars, history
  <1>4. \A u \in Callers : u # t => Apart(call[u], d) /\ Apart(d, call[u])
    BY <1>1, <1>2, CallFacts DEF Apart, CallOK, CallTyped, Fields, LocksOK, GenOK, OpsOK, Starting, Holding, Removing, None
  <1>5. CASE g = None
    <2>1. UNCHANGED <<sessionVars, mutex>> /\ \A a \in attaches' : AttachOK(a)
      BY <1>1, <1>5 DEF KillMember, sessionVars, ServiceInv
    <2>2. CallOK(d)
      BY <1>1, <1>2, CallFacts DEF CallOK, CallTyped, Fields, LocksOK, GenOK, OpsOK, Starting, Holding, Removing, None
    <2>. QED BY <1>1, <1>2, <1>3, <1>4, <2>1, <2>2, QuietStep DEF Owning, Starting
  <1>6. CASE g # None
    <2>1. g \in 1..gens
      BY <1>1, <1>6, CallFacts DEF CallOK, GenOK, None
    <2>2. PICK A, B : A = sched[g] /\ B = loops[g] \ {c.slot}
      OBVIOUS
    <2>3. sched' = [sched EXCEPT ![g] = A] /\ loops' = [loops EXCEPT ![g] = B]
      BY <1>1, <2>2, <1>6, <2>1, SameScheduler DEF KillMember
    <2>4. A \in SUBSET Slots /\ B \in SUBSET Slots /\ (reg[g].stopped => B = {})
      BY <2>1, <2>2, SameScheduler
    <2>5. OnlyIn(g)
      BY <1>2, <2>1, <2>3, <2>4, OnlyInStep
    <2>6. RegStep(g, reg[g], 0)
      BY <1>2, <2>1, SameRegistry
    <2>7. CallOK(d)'
      BY <1>1, <1>2, CallFacts DEF CallOK, CallTyped, Fields, LocksOK, GenOK, OpsOK, Starting, Holding, Removing, None
    <2>. QED BY <1>1, <1>2, <1>3, <1>4, <2>5, <2>6, <2>7, OthersElsewhere, SessionCall DEF Owning, Starting
  <1>. QED BY <1>5, <1>6

\* A removal takes the slot out of the scheduler: the service invariant is kept.
LEMMA DetachMemberInv ==
  ASSUME ServiceInv, NEW t \in Callers, DetachMember(t)
  PROVE  ServiceInv'
  <1>1. PICK c, d, g : c = call[t] /\ d = [c EXCEPT !.pc = "finish"] /\ g = c.gen
    OBVIOUS
  <1>2. c.pc = "detach" /\ Set(t, d) /\ UNCHANGED <<published, gens, reg, mutex, attaches>>
    BY <1>1 DEF DetachMember
  <1>3. RowsOK'
    BY DEF DetachMember, ServiceInv, RowsOK, rowVars, history
  <1>4. \A u \in Callers : u # t => Apart(call[u], d) /\ Apart(d, call[u])
    BY <1>1, <1>2, CallFacts DEF Apart, CallOK, CallTyped, Fields, LocksOK, GenOK, OpsOK, Starting, Holding, Removing, None
  <1>6. CASE g # None
    <2>1. g \in 1..gens
      BY <1>1, <1>6, CallFacts DEF CallOK, GenOK, None
    <2>2. PICK A, B : A = sched[g] \ {c.slot} /\ B = loops[g] \ {c.slot}
      OBVIOUS
    <2>3. sched' = [sched EXCEPT ![g] = A] /\ loops' = [loops EXCEPT ![g] = B]
      BY <1>1, <2>2 DEF DetachMember
    <2>4. A \in SUBSET Slots /\ B \in SUBSET Slots /\ (reg[g].stopped => B = {})
      BY <2>1, <2>2, SameScheduler
    <2>5. OnlyIn(g)
      BY <1>2, <2>1, <2>3, <2>4, OnlyInStep
    <2>6. RegStep(g, reg[g], 0)
      BY <1>2, <2>1, SameRegistry
    <2>7. CallOK(d)'
      BY <1>1, <1>2, CallFacts DEF CallOK, CallTyped, Fields, LocksOK, GenOK, OpsOK, Starting, Holding, Removing, None
    <2>. QED BY <1>1, <1>2, <1>3, <1>4, <2>5, <2>6, <2>7, OthersElsewhere, SessionCall DEF Owning, Starting
  <1>7. g # None
    BY <1>1, <1>2, CallFacts DEF CallOK, GenOK
  <1>. QED BY <1>6, <1>7

\* Request t ends the removal that it owns, and becomes d.
LEMMA RemovalEnds ==
  ASSUME ServiceInv, NEW t \in Callers, NEW c, c = call[t], NEW g, g = c.gen, g # None, c.lease # 0,
         Owns(reg[g], c.lease, "Removing"),
         NEW e \in {Entry("Absent", 0), Entry("Failed", c.lease)}, NEW x \in {"Removed", "Failed"},
         RegBecomes(g, Ended(reg[g], c.lease, e, x)), c.pc \notin Owning,
         UNCHANGED <<published, gens, sched, loops, mutex, attaches>>, RowsOK', NEW d, Set(t, d),
         CallOK(d)', \A u \in Callers : u # t => Apart(call[u], d) /\ Apart(d, call[u])
  PROVE  ServiceInv'
  <1>1. g \in 1..gens /\ c.lease \in 1..reg[g].lastOp
    BY CallFacts DEF CallOK, GenOK, OpsOK, None
  <1>2. e \in {Entry("Ready", 0), Entry("Absent", 0), Entry("Failed", c.lease)} /\ x \in {"Ready", "Removed", "Failed"}
    OBVIOUS
  <1>3. RegStep(g, reg'[g], c.lease)
    BY <1>1, <1>2, EndedStep
  <1>4. OnlyIn(g)
    <2>1. loops' = [loops EXCEPT ![g] = loops[g]] /\ sched' = [sched EXCEPT ![g] = sched[g]]
      BY <1>1, SameScheduler
    <2>. QED BY <1>1, <2>1, SameScheduler, OnlyInStep
  <1>. QED BY <1>3, <1>4, OthersElsewhere, SessionCall

\* A removal writes the roster, or fails to: the service invariant is kept.
LEMMA UnlistMemberInv ==
  ASSUME ServiceInv, NEW t \in Callers, UnlistMember(t)
  PROVE  ServiceInv'
  <1>1. PICK c, g : c = call[t] /\ g = c.gen
    OBVIOUS
  <1>2. /\ c.pc = "unlist"
        /\ UNCHANGED <<team, convs, tasks, published, gens, sched, loops, mutex, attaches, history>>
    BY <1>1 DEF UnlistMember
  <1>3. RowsOK' /\ \A a \in attaches' : AttachOK(a)
    BY <1>1, <1>2, CallFacts DEF UnlistMember, ServiceInv, RowsOK, CallTyped, history
  <1>4. ASSUME Set(t, [Call(c.op, "retire", c.slot) EXCEPT !.gen = c.gen, !.lease = c.lease]), UNCHANGED reg
        PROVE  ServiceInv'
    <2>1. PICK d : d = [Call(c.op, "retire", c.slot) EXCEPT !.gen = c.gen, !.lease = c.lease]
      OBVIOUS
    <2>2. CallOK(d)
      BY <1>1, <1>2, <2>1, CallFacts DEF Call, CallOK, CallTyped, Fields, LocksOK, GenOK, OpsOK, Starting, Holding, Removing, None
    <2>3. \A u \in Callers : u # t => Apart(call[u], d) /\ Apart(d, call[u])
      BY <1>1, <2>1, CallFacts DEF Call, Apart, CallOK, CallTyped, Fields, LocksOK, GenOK, OpsOK, Starting, Holding, Removing, None
    <2>. QED BY <1>1, <1>2, <1>3, <1>4, <2>1, <2>2, <2>3, QuietStep DEF Owning, Starting, sessionVars
  <1>5. CASE End(t) /\ reg' = reg
    BY <1>1, <1>2, <1>3, <1>5, EndStep DEF Owning, Starting, sessionVars
  <1>6. CASE /\ End(t) /\ c.gen # None /\ Owns(reg[c.gen], c.lease, "Removing")
             /\ reg' = [reg EXCEPT ![c.gen] = Ended(reg[c.gen], c.lease, Entry("Failed", c.lease), "Failed")]
    <2>1. PICK d : Set(t, d) /\ Blank(d)
      BY <1>6, CallFacts, EndsBlank
    <2>2. CallOK(d)'
      BY <1>2, <2>1, CallFacts, BlankOKNext
    <2>3. \A u \in Callers : u # t => Apart(call[u], d) /\ Apart(d, call[u])
      BY <2>1, CallFacts, BlankApart
    <2>4. c.lease # 0
      BY <1>6 DEF Owns
    <2>5. RegBecomes(g, Ended(reg[g], c.lease, Entry("Failed", c.lease), "Failed"))
      <3>1. g \in 1..gens
        BY <1>1, <1>6, CallFacts DEF CallOK, GenOK, None
      <3>. QED BY <1>1, <1>6, <3>1, CallFacts DEF RegBecomes, ServiceInv, SessionsOK
    <2>. QED BY <1>1, <1>2, <1>3, <1>6, <2>1, <2>2, <2>3, <2>4, <2>5, RemovalEnds DEF Owning, Starting
  <1>. QED BY <1>1, <1>4, <1>5, <1>6 DEF UnlistMember

\* A removal ends its operation: the service invariant is kept.
LEMMA FinishRemoveInv ==
  ASSUME ServiceInv, NEW t \in Callers, FinishRemove(t)
  PROVE  ServiceInv'
  <1>1. PICK c, g, d : c = call[t] /\ g = c.gen /\ d = Call(c.op, "delete", c.slot)
    OBVIOUS
  <1>2. /\ c.pc = "finish" /\ Set(t, d)
        /\ UNCHANGED <<rowVars, tasks, published, gens, sched, loops, mutex, attaches, history>>
    BY <1>1 DEF FinishRemove
  <1>3. RowsOK' /\ \A a \in attaches' : AttachOK(a)
    BY <1>2 DEF ServiceInv, RowsOK, rowVars, history
  <1>4. CallOK(d) /\ CallOK(d)' /\ g \in 1..gens
    BY <1>1, <1>2, CallFacts DEF Call, CallOK, CallTyped, Fields, LocksOK, GenOK, OpsOK, Starting, Holding, Removing, None
  <1>5. \A u \in Callers : u # t => Apart(call[u], d) /\ Apart(d, call[u])
    BY <1>1, CallFacts DEF Call, Apart, CallOK, CallTyped, Fields, LocksOK, GenOK, OpsOK, Starting, Holding, Removing, None
  <1>6. CASE reg' = reg
    BY <1>1, <1>2, <1>3, <1>4, <1>5, <1>6, QuietStep DEF Owning, Starting, sessionVars
  <1>7. CASE /\ Owns(reg[g], c.lease, "Removing")
             /\ reg' = [reg EXCEPT ![g] = Ended(reg[g], c.lease, Entry("Absent", 0), "Removed")]
    <2>1. RegBecomes(g, Ended(reg[g], c.lease, Entry("Absent", 0), "Removed"))
      BY <1>4, <1>7, CallFacts DEF RegBecomes, ServiceInv, SessionsOK
    <2>2. c.lease # 0 /\ g # None /\ c.pc \notin Owning
      BY <1>2, <1>4, <1>7 DEF Owns, None, Owning, Starting
    <2>. QED BY <1>1, <1>2, <1>3, <1>4, <1>5, <1>7, <2>1, <2>2, RemovalEnds
  <1>. QED BY <1>1, <1>6, <1>7 DEF FinishRemove

-----------------------------------------------------------------------------
(* Attach tasks that change their session *)

\* The sessions that were started have registries.
LEMMA Begun == ServiceInv => DOMAIN reg = Generations /\ 1..gens \subseteq Generations
  BY ServiceAssumption DEF ServiceInv, SessionsOK, Generations

\* Sessions that are being started have no attach tasks.
LEMMA StartersElsewhere ==
  ASSUME ServiceInv, NEW a \in attaches
  PROVE  \A u \in Callers : call[u].pc \in Starting => call[u].gen # a.gen
  BY CallFacts, StaleAttach DEF CallOK, GenOK, Untouched

\* An attach task makes a step in the registry of its session.
LEMMA SessionAttach ==
  ASSUME ServiceInv, call' = call, NEW g, NEW s, RegStep(g, s, 0), OnlyIn(g), RowsOK',
         \A u \in Callers : call[u].pc \in Starting => call[u].gen # g,
         \A b \in attaches' : b \in attaches \/ AttachOK(b)'
  PROVE  ServiceInv'
  <1>0. /\ SessionsOK /\ CallsOK /\ NoOrphanSession /\ mutex \in Nat
        /\ UNCHANGED <<published, gens>>
    BY DEF ServiceInv, RowsOK, OnlyIn
  <1>1. /\ SessionsOK'
        /\ \A h \in Generations : Evolves(reg[h], reg'[h])
        /\ \A b : AttachOK(b) => AttachOK(b)'
        /\ \A c : CallOK(c) /\ (c.pc \in Starting => c.gen # g) => CallOK(c)'
    BY <1>0, RegStepKeeps
  <1>2. CallsOK'
    <2>1. \A c : (\E u \in Callers : c = call'[u]) => CallOK(c)'
      <3> SUFFICES ASSUME NEW c, NEW u \in Callers, c = call[u] PROVE CallOK(c)'
        OBVIOUS
      <3>1. CallOK(c) /\ (c.pc \in Starting => c.gen # g)
        BY CallFacts
      <3>. QED BY <3>1, <1>1
    <2>2. (\A u \in Callers : CallOK(call[u]))'
      BY <2>1
    <2>. QED BY <1>0, <2>2 DEF CallsOK
  <1>3. NoOrphanSession'
    <2>1. 1..gens \subseteq Generations
      BY <1>0, ServiceAssumption DEF SessionsOK, Generations
    <2>2. \A h \in 1..gens : ~reg'[h].stopped => ~reg[h].stopped
      BY <1>1, <2>1 DEF Evolves
    <2>. QED BY <1>0, <2>2 DEF NoOrphanSession
  <1>4. (\A b \in attaches : AttachOK(b))'
    BY <1>1 DEF ServiceInv
  <1>. QED BY <1>1, <1>2, <1>3, <1>4 DEF ServiceInv

\* The loops of the session of attach task a change, and nothing else.
LEMMA AttachLoops ==
  ASSUME ServiceInv, NEW a \in attaches, NEW B \in SUBSET Slots, reg[a.gen].stopped => B = {},
         loops' = [loops EXCEPT ![a.gen] = B],
         UNCHANGED <<rowVars, tasks, published, gens, reg, sched, mutex, call, history>>,
         \A b \in attaches' : b \in attaches \/ AttachOK(b)
  PROVE  ServiceInv'
  <1>1. PICK g \in 1..gens : g = a.gen
    BY StaleAttach
  <1>2. RegStep(g, reg[g], 0)
    BY SameRegistry
  <1>3. OnlyIn(g)
    BY <1>1, SameScheduler, OnlyInStep
  <1>4. RowsOK'
    BY DEF ServiceInv, RowsOK, rowVars, history
  <1>5. \A b \in attaches' : b \in attaches \/ AttachOK(b)'
    BY DEF AttachOK
  <1>. QED BY <1>1, <1>2, <1>3, <1>4, <1>5, StartersElsewhere, SessionAttach

\* An attach registers the event loop: the service invariant is kept.
LEMMA AttachRegisterInv ==
  ASSUME ServiceInv, NEW a \in attaches, AttachRegister(a)
  PROVE  ServiceInv'
  <1>1. PICK g \in 1..gens : g = a.gen
    BY StaleAttach
  <1>2. PICK B \in SUBSET Slots : loops' = [loops EXCEPT ![g] = B] /\ (reg[g].stopped => B = {})
    <2>1. CASE loops' = loops
      BY <2>1, SameScheduler
    <2>2. CASE ~reg[g].stopped /\ loops' = [loops EXCEPT ![g] = loops[g] \cup {Member(a)}]
      <3>1. loops[g] \cup {Member(a)} \in SUBSET Slots
        BY SameScheduler, StaleAttach
      <3>. QED BY <2>2, <3>1
    <2>. QED BY <1>1, <2>1, <2>2 DEF AttachRegister
  <1>3. \A b \in attaches' : b \in attaches \/ AttachOK(b)
    <2>1. AttachOK(a)
      BY StaleAttach
    <2>2. PICK b : /\ attaches' = (attaches \ {a}) \cup {b}
                   /\ b \in {At(a, "commit"), At(a, "failed"), [a EXCEPT !.pc = "commit", !.fresh = TRUE]}
      BY DEF AttachRegister, Step
    <2>3. DOMAIN b = DOMAIN a /\ b.gen = a.gen /\ b.op = a.op /\ b.pc \in {"commit", "failed"}
      BY <2>1, <2>2 DEF At, AttachOK
    <2>4. AttachOK(b)
      BY <2>1, <2>3 DEF AttachOK
    <2>. QED BY <2>2, <2>4
  <1>4. UNCHANGED <<rowVars, tasks, published, gens, reg, sched, mutex, call, history>>
    BY DEF AttachRegister
  <1>. QED BY <1>1, <1>2, <1>3, <1>4, AttachLoops

\* The loop is taken back, or not.
LEMMA LoopsAfter ==
  ASSUME ServiceInv, NEW a \in attaches, loops' \in {loops, LoopsWithout(a)}
  PROVE  \E B \in SUBSET Slots : loops' = [loops EXCEPT ![a.gen] = B] /\ (reg[a.gen].stopped => B = {})
  <1>1. PICK g \in 1..gens : g = a.gen
    BY StaleAttach
  <1>2. CASE loops' = loops
    BY <1>1, <1>2, SameScheduler
  <1>3. CASE loops' = [loops EXCEPT ![g] = loops[g] \ {Member(a)}]
    <2>1. loops[g] \ {Member(a)} \in SUBSET Slots /\ (reg[g].stopped => loops[g] \ {Member(a)} = {})
      BY SameScheduler
    <2>. QED BY <1>1, <1>3, <2>1
  <1>. QED BY <1>1, <1>2, <1>3 DEF LoopsWithout

\* An attach announces the runtime if its session is the published one: the service invariant is kept.
LEMMA AttachAnnounceInv ==
  ASSUME ServiceInv, NEW a \in attaches, AttachAnnounce(a)
  PROVE  ServiceInv'
  <1>1. PICK B \in SUBSET Slots : loops' = [loops EXCEPT ![a.gen] = B] /\ (reg[a.gen].stopped => B = {})
    BY LoopsAfter DEF AttachAnnounce
  <1>2. \A b \in attaches' : b \in attaches \/ AttachOK(b)
    BY StaleAttach DEF AttachAnnounce, Step, At, AttachOK
  <1>3. UNCHANGED <<rowVars, tasks, published, gens, reg, sched, mutex, call, history>>
    BY DEF AttachAnnounce
  <1>. QED BY <1>1, <1>2, <1>3, AttachLoops

\* An attach task ends its operation.
LEMMA AttachEnds ==
  ASSUME ServiceInv, NEW a \in attaches, Owns(reg[a.gen], a.op, "Attaching"),
         NEW e \in {Entry("Ready", 0), Entry("Failed", a.op)}, NEW x \in {"Ready", "Failed"},
         RegBecomes(a.gen, Ended(reg[a.gen], a.op, e, x)),
         UNCHANGED <<rowVars, tasks, published, gens, sched, loops, mutex, call, history>>,
         \A b \in attaches' : b \in attaches \/ b = At(a, "announce")
  PROVE  ServiceInv'
  <1>1. PICK g, o : g = a.gen /\ o = a.op /\ g \in 1..gens /\ o \in 1..reg[g].lastOp
    BY StaleAttach
  <1>2. RegBecomes(g, Ended(reg[g], o, e, x))
    BY <1>1
  <1>3. /\ RegStep(g, reg'[g], 0) /\ reg'[g].lastOp = reg[g].lastOp /\ reg'[g].leases = reg[g].leases
        /\ reg'[g].outcome[o] = x /\ reg'[g].entry[reg[g].leases[o]] = e
    <2>1. /\ e \in {Entry("Ready", 0), Entry("Absent", 0), Entry("Failed", o)}
          /\ x \in {"Ready", "Removed", "Failed"} /\ Owns(reg[g], o, "Attaching")
      BY <1>1
    <2>. QED BY <1>1, <1>2, <2>1, EndedStep
  <1>4. OnlyIn(g)
    BY <1>1, SameScheduler, OnlyInStep
  <1>5. RowsOK'
    BY DEF ServiceInv, RowsOK, rowVars, history
  <1>6. AttachOK(At(a, "announce"))'
    <2>1. PICK b : b = At(a, "announce")
      OBVIOUS
    <2>2. DOMAIN b = {"gen", "op", "pc", "fresh"} /\ b.gen = g /\ b.op = o
      BY <1>1, <2>1, StaleAttach DEF At, AttachOK
    <2>3. AttachOp(reg'[g], o)
      <3>1. e # Entry("Removing", o)
        BY DEF Entry
      <3>. QED BY <1>1, <1>3, <3>1 DEF AttachOp
    <2>4. AttachOK(b)'
      BY <1>1, <1>3, <2>2, <2>3 DEF AttachOK
    <2>. QED BY <2>1, <2>4
  <1>. QED BY <1>1, <1>3, <1>4, <1>5, <1>6, StartersElsewhere, SessionAttach

\* commit_ready of an attach: the service invariant is kept.
LEMMA AttachCommitInv ==
  ASSUME ServiceInv, NEW a \in attaches, AttachCommit(a)
  PROVE  ServiceInv'
  <1>1. UNCHANGED <<rowVars, tasks, published, gens, sched, mutex, call, history>>
    BY DEF AttachCommit
  <1>2. CASE Owns(reg[a.gen], a.op, "Attaching")
    <2>1. reg' = [reg EXCEPT ![a.gen] = Ended(reg[a.gen], a.op, Entry("Ready", 0), "Ready")]
      BY <1>2 DEF AttachCommit
    <2>2. RegBecomes(a.gen, Ended(reg[a.gen], a.op, Entry("Ready", 0), "Ready"))
      BY <2>1, StaleAttach, Begun DEF RegBecomes
    <2>3. loops' = loops /\ \A b \in attaches' : b \in attaches \/ b = At(a, "announce")
      BY <1>2 DEF AttachCommit, Step
    <2>. QED BY <1>1, <1>2, <2>2, <2>3, AttachEnds
  <1>3. CASE ~Owns(reg[a.gen], a.op, "Attaching")
    <2>1. PICK B \in SUBSET Slots : loops' = [loops EXCEPT ![a.gen] = B] /\ (reg[a.gen].stopped => B = {})
      BY <1>3, LoopsAfter DEF AttachCommit
    <2>2. \A b \in attaches' : b \in attaches \/ AttachOK(b)
      BY <1>3, StaleAttach DEF AttachCommit, Step, At, AttachOK
    <2>3. reg' = reg
      BY <1>3 DEF AttachCommit
    <2>. QED BY <1>1, <2>1, <2>2, <2>3, AttachLoops
  <1>. QED BY <1>2, <1>3

\* commit_failed of an attach: the service invariant is kept.
LEMMA AttachReportInv ==
  ASSUME ServiceInv, NEW a \in attaches, AttachReport(a)
  PROVE  ServiceInv'
  <1>1. /\ UNCHANGED <<rowVars, tasks, published, gens, sched, loops, mutex, call, history>>
        /\ attaches' = attaches \ {a}
    BY DEF AttachReport
  <1>2. CASE Owns(reg[a.gen], a.op, "Attaching")
    <2>1. reg' = [reg EXCEPT ![a.gen] = Ended(reg[a.gen], a.op, Entry("Failed", a.op), "Failed")]
      BY <1>2 DEF AttachReport
    <2>2. RegBecomes(a.gen, Ended(reg[a.gen], a.op, Entry("Failed", a.op), "Failed"))
      BY <2>1, StaleAttach, Begun DEF RegBecomes
    <2>. QED BY <1>1, <1>2, <2>2, AttachEnds
  <1>3. CASE ~Owns(reg[a.gen], a.op, "Attaching")
    <2>1. RowsOK' /\ \A b \in attaches' : AttachOK(b)
      BY <1>1 DEF ServiceInv, RowsOK, rowVars, history
    <2>2. UNCHANGED <<call, sessionVars, mutex>>
      BY <1>1, <1>3 DEF AttachReport, sessionVars
    <2>. QED BY <2>1, <2>2, AttachQuiet
  <1>. QED BY <1>2, <1>3

\* Any step of an attach task: the service invariant is kept.
LEMMA AttachStepInv ==
  ASSUME ServiceInv, NEW a \in attaches, AttachStep(a)
  PROVE  ServiceInv'
  BY AttachStartInv, AttachWarmInv, AttachCheckInv, AttachRegisterInv, AttachCommitInv,
     AttachAnnounceInv, AttachCleanInv, AttachFailedInv, AttachReportInv DEF AttachStep

-----------------------------------------------------------------------------
(* Sessions come and go *)

\* Request t becomes d, the sessions change, and the others do not mind.
LEMMA SessionsMove ==
  ASSUME ServiceInv, NEW t \in Callers, NEW d, Set(t, d), attaches' = attaches,
         RowsOK', SessionsOK', CallOK(d)', NoOrphanSession', gens <= gens', mutex <= mutex',
         \A g \in Generations : Evolves(reg[g], reg'[g]),
         \A u \in Callers : u # t =>
            /\ Apart(call[u], d) /\ Apart(d, call[u])
            /\ call[u].op = "spawn" => published' = published
            /\ call[u].pc = "stop" => published' # call[u].gen /\ ~reg'[call[u].gen].stopped
            /\ call[u].pc \in Starting =>
                  /\ published' = None /\ reg'[call[u].gen] = reg[call[u].gen]
                  /\ sched'[call[u].gen] = sched[call[u].gen] /\ loops'[call[u].gen] = loops[call[u].gen]
            /\ ~reg'[call[u].gen].stopped /\ call[u].lease # 0 => reg'[call[u].gen] = reg[call[u].gen]
  PROVE  ServiceInv'
  <1>1. /\ SessionsOK /\ CallsOK /\ mutex \in Nat /\ mutex' \in Nat /\ gens \in Nat /\ gens' \in Nat
    BY ServiceAssumption DEF ServiceInv, RowsOK, SessionsOK
  <1>2. \A c : (\E u \in Callers : u # t /\ c = call[u]) => CallOK(c)'
    <2> SUFFICES ASSUME NEW c, NEW u \in Callers, u # t, c = call[u] PROVE CallOK(c)'
      OBVIOUS
    <2>1. CallOK(c)
      BY CallFacts
    <2>2. /\ c.op = "spawn" => published' = published
          /\ c.pc = "stop" => published' # c.gen /\ ~reg'[c.gen].stopped
          /\ c.pc \in Starting => /\ published' = None /\ reg'[c.gen] = reg[c.gen]
                                  /\ sched'[c.gen] = sched[c.gen] /\ loops'[c.gen] = loops[c.gen]
          /\ c.lease # 0 /\ c.pc \in Removing /\ ~reg'[c.gen].stopped =>
                reg'[c.gen].entry[c.slot] = reg[c.gen].entry[c.slot]
      OBVIOUS
    <2>. QED BY <1>1, <2>1, <2>2, CallKept
  <1>3. CallsOK'
    BY <1>1, <1>2, CallsStep
  <1>4. \A a \in attaches' : AttachOK(a)'
    BY <1>1, AttachKept DEF ServiceInv
  <1>. QED BY <1>3, <1>4 DEF ServiceInv

\* Request t stops the session that it answers for.
LEMMA Stops ==
  ASSUME ServiceInv, NEW t \in Callers, NEW c, c = call[t], NEW g, g = c.gen, c.pc \in Owning,
         reg' = [reg EXCEPT ![g] = StoppedReg(reg[g])], loops' = [loops EXCEPT ![g] = {}],
         UNCHANGED <<published, gens, sched, mutex, attaches>>, RowsOK',
         NEW d, Set(t, d), CallOK(d)', \A u \in Callers : u # t => Apart(call[u], d) /\ Apart(d, call[u])
  PROVE  ServiceInv'
  <1>1. /\ g \in 1..gens /\ published # g /\ gens \in Nat /\ mutex \in Nat
    BY CallFacts DEF CallOK, GenOK, Owning, Starting, None
  <1>2. g \in Generations /\ DOMAIN reg = Generations /\ 1..gens \subseteq Generations
    BY <1>1, Begun
  <1>3. SessionsOK /\ CallsOK /\ NoOrphanSession /\ RegOK(reg[g])
    BY <1>2 DEF ServiceInv, SessionsOK
  <1>4. PICK s : s = StoppedReg(reg[g])
    OBVIOUS
  <1>5. RegOK(s) /\ Evolves(reg[g], s) /\ s.stopped
    BY <1>3, <1>4, StoppedOK
  <1>6. /\ DOMAIN reg' = Generations /\ reg'[g] = s
        /\ \A h \in Generations : h # g => reg'[h] = reg[h]
    BY <1>2, <1>4
  <1>7. \A h \in Generations : Evolves(reg[h], reg'[h]) /\ RegOK(reg'[h])
    BY <1>3, <1>5, <1>6, EvolvesSame DEF SessionsOK
  <1>8. SessionsOK'
    <2>1. loops' \in [Generations -> SUBSET Slots] /\ loops'[g] = {} /\ \A h \in Generations : h # g => loops'[h] = loops[h]
      BY <1>2, <1>3 DEF SessionsOK
    <2>2. \A h \in Generations : h > gens => reg'[h] = Registry /\ loops'[h] = {}
      BY <1>1, <1>3, <1>6, <2>1 DEF SessionsOK
    <2>3. published # None => ~reg'[published].stopped
      BY <1>1, <1>2, <1>3, <1>6 DEF SessionsOK, None
    <2>4. \A h \in Generations : reg'[h].stopped => loops'[h] = {}
      BY <1>3, <1>6, <2>1 DEF SessionsOK
    <2>. QED BY <1>3, <1>6, <1>7, <2>1, <2>2, <2>3, <2>4 DEF SessionsOK
  <1>9. NoOrphanSession'
    <2>1. \A h \in Generations : reg[h].stopped => reg'[h].stopped
      BY <1>5, <1>6
    <2>. QED BY <1>3, <1>5, <1>6, <2>1, OrphanStep
  <1>10. ASSUME NEW u \in Callers, u # t
         PROVE  /\ call[u].op = "spawn" => published' = published
                /\ call[u].pc = "stop" => published' # call[u].gen /\ ~reg'[call[u].gen].stopped
                /\ call[u].pc \in Starting =>
                      /\ published' = None /\ reg'[call[u].gen] = reg[call[u].gen]
                      /\ sched'[call[u].gen] = sched[call[u].gen] /\ loops'[call[u].gen] = loops[call[u].gen]
                /\ ~reg'[call[u].gen].stopped /\ call[u].lease # 0 => reg'[call[u].gen] = reg[call[u].gen]
    <2>1. call[u].gen # None => call[u].gen \in Generations
      BY <1>2, <1>10, CallFacts DEF CallOK, GenOK, None
    <2>2. call[u].pc \in Owning => call[u].gen # g /\ call[u].gen # None
      BY <1>10, CallFacts DEF Apart, CallOK, GenOK, Owning, Starting
    <2>3. call[u].lease # 0 => call[u].gen # None
      BY <1>10, CallFacts DEF CallOK, OpsOK
    <2>4. CallOK(call[u])
      BY <1>10, CallFacts
    <2>5. loops' = [loops EXCEPT ![g] = {}] /\ DOMAIN loops = Generations
      BY <1>3 DEF SessionsOK
    <2>. QED BY <1>2, <1>5, <1>6, <2>1, <2>2, <2>3, <2>4, <2>5 DEF Owning, Starting, CallOK, GenOK
  <1>. QED BY <1>1, <1>7, <1>8, <1>9, <1>10, SessionsMove

\* A session is stopped before anybody has seen it: the service invariant is kept.
LEMMA AbortStartInv ==
  ASSUME ServiceInv, NEW t \in Callers, AbortStart(t)
  PROVE  ServiceInv'
  <1>1. PICK c, g : c = call[t] /\ g = c.gen
    OBVIOUS
  <1>2. /\ c.pc = "failing" /\ reg' = [reg EXCEPT ![g] = StoppedReg(reg[g])] /\ End(t)
        /\ tasks' \subseteq tasks
        /\ UNCHANGED <<rowVars, published, gens, sched, loops, mutex, attaches, history>>
    BY <1>1 DEF AbortStart
  <1>3. RowsOK'
    BY <1>2 DEF ServiceInv, RowsOK, rowVars, history
  <1>4. g \in 1..gens /\ loops[g] = {}
    BY <1>1, <1>2, CallFacts DEF CallOK, GenOK, Starting, None
  <1>5. loops' = [loops EXCEPT ![g] = {}]
    BY <1>2, <1>4, SameScheduler
  <1>6. PICK d : Set(t, d) /\ Blank(d)
    BY <1>2, CallFacts, EndsBlank
  <1>7. CallOK(d)'
    BY <1>2, <1>6, CallFacts, BlankOKNext
  <1>8. \A u \in Callers : u # t => Apart(call[u], d) /\ Apart(d, call[u])
    BY <1>6, CallFacts, BlankApart
  <1>. QED BY <1>1, <1>2, <1>3, <1>5, <1>6, <1>7, <1>8, Stops DEF Owning, Starting

\* What comes after a session was stopped.
LEMMA AfterStopOK ==
  ASSUME ServiceInv, NEW t \in Callers, NEW c, c = call[t], c.pc \in {"unpublish", "stop"}, AfterStop(t, c)
  PROVE  \E d : /\ Set(t, d) /\ d.pc \in {"killAll", "done", "check"}
                /\ CallOK(d)
                /\ \A u \in Callers : u # t => Apart(call[u], d) /\ Apart(d, call[u])
  <1>1. CASE End(t)
    <2>1. PICK d : Set(t, d) /\ Blank(d)
      BY <1>1, CallFacts, EndsBlank
    <2>2. CallOK(d) /\ \A u \in Callers : u # t => Apart(call[u], d) /\ Apart(d, call[u])
      BY <2>1, CallFacts, BlankOK, BlankApart
    <2>. QED BY <2>1, <2>2 DEF Blank
  <1>2. CASE Set(t, [c EXCEPT !.pc = "killAll"])
    <2>1. PICK d : d = [c EXCEPT !.pc = "killAll"]
      OBVIOUS
    <2>2. CallOK(d)
      BY <2>1, CallFacts DEF CallOK, CallTyped, Fields, LocksOK, GenOK, OpsOK, Starting, Holding, Removing, None
    <2>3. \A u \in Callers : u # t => Apart(call[u], d) /\ Apart(d, call[u])
      BY <2>1, CallFacts DEF Apart, CallOK, CallTyped, Fields, LocksOK, GenOK, OpsOK, Starting, Holding, Removing, None
    <2>4. d.pc = "killAll"
      BY <2>1, CallFacts DEF CallTyped, Fields
    <2>. QED BY <1>2, <2>1, <2>2, <2>3, <2>4
  <1>. QED BY <1>1, <1>2 DEF AfterStop


\* The session that was taken out of the map is stopped: the service invariant is kept.
LEMMA StopSessionInv ==
  ASSUME ServiceInv, NEW t \in Callers, StopSession(t)
  PROVE  ServiceInv'
  <1>1. PICK c, g : c = call[t] /\ g = c.gen
    OBVIOUS
  <1>2. /\ c.pc = "stop" /\ reg' = [reg EXCEPT ![g] = StoppedReg(reg[g])]
        /\ loops' = [loops EXCEPT ![g] = {}] /\ AfterStop(t, c)
        /\ UNCHANGED <<rowVars, tasks, published, gens, sched, mutex, attaches, history>>
    BY <1>1 DEF StopSession
  <1>3. RowsOK'
    BY <1>2 DEF ServiceInv, RowsOK, rowVars, history
  <1>4. PICK d : /\ Set(t, d) /\ d.pc \in {"killAll", "done", "check"} /\ CallOK(d)
                 /\ \A u \in Callers : u # t => Apart(call[u], d) /\ Apart(d, call[u])
    BY <1>1, <1>2, AfterStopOK
  <1>5. CallOK(d)'
    <2>1. UNCHANGED <<published, gens, mutex>>
      BY <1>2
    <2>2. LocksOK(d)' /\ GenOK(d)' /\ OpsOK(d)'
      BY <1>4, <2>1 DEF CallOK, LocksOK, GenOK, OpsOK, Starting, Removing
    <2>. QED BY <1>4, <2>2 DEF CallOK
  <1>. QED BY <1>1, <1>2, <1>3, <1>4, <1>5, Stops DEF Owning

\* The session is taken out of the map: the service invariant is kept.
LEMMA UnpublishInv ==
  ASSUME ServiceInv, NEW t \in Callers, Unpublish(t)
  PROVE  ServiceInv'
  <1>1. PICK c, d, g : c = call[t] /\ d = [c EXCEPT !.pc = "stop", !.gen = published] /\ g = published
    OBVIOUS
  <1>2. /\ c.pc = "unpublish" /\ published' = None
        /\ UNCHANGED <<rowVars, tasks, gens, reg, sched, loops, mutex, attaches, history>>
    BY <1>1 DEF Unpublish
  <1>3. RowsOK'
    BY <1>2 DEF ServiceInv, RowsOK, rowVars, history
  <1>4. CASE published = None
    <2>1. AfterStop(t, c) /\ UNCHANGED <<sessionVars, mutex>>
      BY <1>1, <1>2, <1>4 DEF Unpublish, sessionVars
    <2>2. PICK e : /\ Set(t, e) /\ CallOK(e)
                   /\ \A u \in Callers : u # t => Apart(call[u], e) /\ Apart(e, call[u])
      BY <1>1, <1>2, <2>1, AfterStopOK
    <2>3. \A a \in attaches' : AttachOK(a)
      BY <1>2 DEF ServiceInv
    <2>. QED BY <1>1, <1>2, <1>3, <2>1, <2>2, <2>3, QuietStep DEF Owning, Starting
  <1>5. CASE published # None
    <2>1. Set(t, d) /\ \A u \in Callers : call[u].op # "spawn"
      BY <1>1, <1>5 DEF Unpublish, MapGuarded
    <2>2. \A u \in Callers : u # t => call[u].pc \notin Starting /\ (call[u].pc = "stop" => call[u].gen # g)
      BY <1>1, <1>5, CallFacts DEF CallOK, GenOK
    <2>3. g \in 1..gens /\ ~reg[g].stopped /\ gens \in Nat /\ mutex \in Nat
      BY <1>1, <1>5, CallFacts DEF None
    <2>4. /\ CallTyped(d) /\ d.op = c.op /\ d.pc = "stop" /\ d.mx = c.mx /\ d.holds = c.holds
          /\ d.ensures = c.ensures /\ d.gen = g /\ d.lease = c.lease /\ d.owned = c.owned
          /\ c.lease = 0 /\ ~c.ensures
      BY <1>1, <1>2, CallFacts DEF CallOK, CallTyped, Fields, LocksOK, GenOK, OpsOK, Starting, Holding, Removing, None
    <2>5. CallOK(d)'
      <3>1. LocksOK(d)'
        BY <1>1, <1>2, <2>4, CallFacts DEF CallOK, LocksOK, Starting, Holding
      <3>2. GenOK(d)'
        BY <1>1, <1>2, <2>1, <2>3, <2>4 DEF GenOK, Starting, None
      <3>3. OpsOK(d)'
        BY <2>4 DEF OpsOK
      <3>. QED BY <2>4, <3>1, <3>2, <3>3 DEF CallOK
    <2>6. \A u \in Callers : u # t => Apart(call[u], d) /\ Apart(d, call[u])
      BY <1>1, <1>2, <2>2, <2>4, CallFacts DEF Apart, Starting
    <2>7. SessionsOK'
      <3>1. SessionsOK
        BY DEF ServiceInv
      <3>. QED BY <1>2, <2>3, <3>1 DEF SessionsOK, None
    <2>8. NoOrphanSession'
      <3>1. call'[t] = d /\ \A u \in Callers : u # t => call'[u] = call[u]
        BY <2>1 DEF ServiceInv, CallsOK, Set
      <3>2. SUFFICES ASSUME NEW h \in 1..gens, ~reg[h].stopped
                     PROVE  \E u \in Callers : call'[u].gen = h /\ call'[u].pc \in {"rebuild", "failing", "seed", "stop"}
        BY <1>2 DEF NoOrphanSession
      <3>3. g = h \/ \E u \in Callers : call[u].gen = h /\ call[u].pc \in {"rebuild", "failing", "seed", "stop"}
        BY <1>1, <3>2 DEF ServiceInv, NoOrphanSession
      <3>. QED BY <1>1, <1>2, <2>4, <3>1, <3>3
    <2>9. \A h \in Generations : Evolves(reg[h], reg'[h])
      BY <1>2, EvolvesSame DEF ServiceInv, SessionsOK
    <2>10. \A u \in Callers : u # t => (call[u].pc = "stop" => call[u].gen # None /\ ~reg[call[u].gen].stopped)
      BY CallFacts DEF CallOK, GenOK
    <2>. QED BY <1>2, <1>3, <2>1, <2>2, <2>3, <2>5, <2>6, <2>7, <2>8, <2>9, <2>10, SessionsMove
  <1>. QED BY <1>4, <1>5

\* The team is archived or deleted and the mutex entry dropped: the service invariant is kept.
LEMMA CloseTeamInv ==
  ASSUME ServiceInv, NEW t \in Callers, CloseTeam(t)
  PROVE  ServiceInv'
  <1>1. /\ call[t].pc = "close" /\ End(t)
        /\ UNCHANGED <<tasks, published, gens, reg, sched, loops, attaches, history>>
        /\ mutex' \in {mutex, mutex + 1}
    BY DEF CloseTeam, sessionVars
  <1>2. gens \in Nat /\ mutex \in Nat \ {0}
    BY CallFacts
  <1>3. RowsOK'
    BY <1>1, <1>2 DEF CloseTeam, ServiceInv, RowsOK, rowVars, history
  <1>4. PICK d : Set(t, d) /\ Blank(d)
    BY <1>1, CallFacts, EndsBlank
  <1>5. CallOK(d)'
    BY <1>1, <1>2, <1>4, BlankOKNext
  <1>6. \A u \in Callers : u # t => Apart(call[u], d) /\ Apart(d, call[u])
    BY <1>4, CallFacts, BlankApart
  <1>7. SessionsOK'
    <2>1. SessionsOK
      BY DEF ServiceInv
    <2>. QED BY <1>1, <2>1 DEF SessionsOK
  <1>8. NoOrphanSession'
    <2>1. CallsOK /\ NoOrphanSession /\ SessionsOK
      BY DEF ServiceInv
    <2>. QED BY <1>1, <1>4, <2>1, OrphanStep DEF Owning, Starting
  <1>9. \A h \in Generations : Evolves(reg[h], reg'[h])
    BY <1>1, EvolvesSame DEF ServiceInv, SessionsOK
  <1>10. \A u \in Callers : u # t =>
            /\ call[u].pc = "stop" => published # call[u].gen /\ ~reg[call[u].gen].stopped
            /\ call[u].pc \in Starting => published = None
    BY CallFacts DEF CallOK, GenOK
  <1>. QED BY <1>1, <1>2, <1>3, <1>4, <1>5, <1>6, <1>7, <1>8, <1>9, <1>10, SessionsMove

\* The loops of a new session are spawned: the service invariant is kept.
LEMMA SpawnEventLoopsInv ==
  ASSUME ServiceInv, NEW t \in Callers, SpawnEventLoops(t)
  PROVE  ServiceInv'
  <1>1. PICK c, d, g, B : /\ c = call[t] /\ d = [c EXCEPT !.pc = "seed", !.todo = c.snap] /\ g = c.gen
                          /\ B = c.snap
    OBVIOUS
  <1>2. /\ c.pc = "rebuild" /\ Set(t, d) /\ loops' = [loops EXCEPT ![g] = B]
        /\ UNCHANGED <<rowVars, tasks, published, gens, reg, sched, mutex, attaches, history>>
    BY <1>1 DEF SpawnEventLoops
  <1>3. /\ g \in 1..gens /\ CallOK(c) /\ published = None /\ Untouched(reg[g])
        /\ sched[g] = B /\ reg[g].entry = Registry.entry /\ B \in SUBSET Slots /\ c.lease = 0
    BY <1>1, <1>2, CallFacts DEF CallOK, CallTyped, GenOK, OpsOK, Starting, Removing, None
  <1>4. RegStep(g, reg[g], 0)
    BY <1>2, <1>3, SameRegistry
  <1>5. OnlyIn(g)
    BY <1>2, <1>3, SameScheduler, OnlyInStep DEF Untouched
  <1>6. RowsOK'
    BY <1>2 DEF ServiceInv, RowsOK, rowVars, history
  <1>7. /\ CallTyped(d) /\ d.op = c.op /\ d.pc = "seed" /\ d.mx = c.mx /\ d.holds = c.holds
        /\ d.ensures = c.ensures /\ d.gen = g /\ d.snap = B /\ d.lease = 0 /\ d.todo = B
    BY <1>1, <1>3 DEF CallOK, CallTyped, Fields
  <1>8. CallOK(d)'
    <2>1. LocksOK(d)'
      BY <1>2, <1>3, <1>7 DEF CallOK, LocksOK, Starting, Holding
    <2>2. GenOK(d)'
      <3>1. \A m \in Slots : reg[g].entry[m].kind = "Absent"
        BY <1>3 DEF Registry, Entry
      <3>2. loops'[g] = B
        BY <1>2, <1>3, Begun DEF ServiceInv, SessionsOK
      <3>3. d.op # "spawn"
        BY <1>3, <1>7 DEF CallOK, GenOK
      <3>. QED BY <1>2, <1>3, <1>7, <3>1, <3>2, <3>3 DEF GenOK, None
    <2>3. OpsOK(d)'
      BY <1>7 DEF OpsOK
    <2>. QED BY <1>7, <2>1, <2>2, <2>3 DEF CallOK
  <1>9. \A u \in Callers : u # t => Apart(call[u], d) /\ Apart(d, call[u])
    BY <1>1, <1>2, <1>3, <1>7, CallFacts DEF Apart, Starting
  <1>10. \A u \in Callers : u # t => (call[u].pc \in Starting => call[u].gen # g)
    BY <1>1, CallFacts DEF Apart
  <1>11. d.pc \in Owning /\ d.gen = call[t].gen
    BY <1>1, <1>7 DEF Owning, Starting
  <1>. QED BY <1>2, <1>4, <1>5, <1>6, <1>8, <1>9, <1>10, <1>11, SessionCall

\* A new session is published: the service invariant is kept.
LEMMA PublishSessionInv ==
  ASSUME ServiceInv, NEW t \in Callers, PublishSession(t)
  PROVE  ServiceInv'
  <1>1. PICK c, d, g : c = call[t] /\ d = [Call(c.op, "recover", Lead) EXCEPT !.ensures = TRUE] /\ g = c.gen
    OBVIOUS
  <1>2. /\ c.pc = "seed" /\ Set(t, d) /\ published' = g
        /\ UNCHANGED <<rowVars, tasks, gens, reg, sched, loops, mutex, attaches, history>>
    BY <1>1 DEF PublishSession
  <1>3. /\ g \in 1..gens /\ published = None /\ ~reg[g].stopped /\ c.ensures /\ c.op # "spawn"
        /\ gens \in Nat /\ mutex \in Nat
    BY <1>1, <1>2, CallFacts DEF CallOK, LocksOK, GenOK, Starting, None, Untouched
  <1>4. RowsOK'
    BY <1>2 DEF ServiceInv, RowsOK, rowVars, history
  <1>5. /\ CallTyped(d) /\ d.op = c.op /\ d.pc = "recover" /\ d.mx = 0 /\ ~d.holds /\ d.ensures
        /\ d.gen = None /\ d.lease = 0
    BY <1>1 DEF Call, CallTyped, Fields, Slots, None
  <1>6. CallOK(d)'
    BY <1>2, <1>3, <1>5 DEF CallOK, LocksOK, GenOK, OpsOK, Starting, Holding, Removing, None
  <1>7. \A u \in Callers : u # t =>
            /\ call[u].op # "spawn" /\ call[u].pc \notin Starting
            /\ call[u].pc = "stop" => call[u].gen # g /\ ~reg[call[u].gen].stopped
    BY <1>1, <1>2, <1>3, CallFacts DEF CallOK, LocksOK, GenOK, Apart, Starting
  <1>8. \A u \in Callers : u # t => Apart(call[u], d) /\ Apart(d, call[u])
    <2>1. \A u \in Callers : u # t => ~call[u].ensures /\ (call[u].lease # 0 => call[u].gen # None)
      BY <1>1, <1>3, CallFacts DEF Apart, CallOK, OpsOK
    <2>. QED BY <1>5, <1>7, <2>1 DEF Apart, Starting
  <1>9. SessionsOK'
    <2>1. SessionsOK
      BY DEF ServiceInv
    <2>. QED BY <1>2, <1>3, <2>1 DEF SessionsOK
  <1>10. NoOrphanSession'
    <2>1. call'[t] = d /\ \A u \in Callers : u # t => call'[u] = call[u]
      BY <1>2 DEF ServiceInv, CallsOK, Set
    <2>. QED BY <1>1, <1>2, <1>3, <2>1 DEF ServiceInv, NoOrphanSession, None
  <1>11. \A h \in Generations : Evolves(reg[h], reg'[h])
    BY <1>2, EvolvesSame DEF ServiceInv, SessionsOK
  <1>. QED BY <1>2, <1>3, <1>4, <1>6, <1>7, <1>8, <1>9, <1>10, <1>11, SessionsMove

\* A session is started: request t becomes d, which starts it for everybody or
\* publishes it at once.
LEMMA Starts ==
  ASSUME ServiceInv, NEW t \in Callers, NEW c, c = call[t], c.pc = "start", EnsureFree, published = None,
         NEW g, g = gens + 1, NewSession(g, c.snap), NEW d, Set(t, d),
         CallTyped(d), d.op = c.op, d.mx = c.mx, d.holds, d.gen = g, d.lease = 0, d.owned = {},
         \/ d.pc = "rebuild" /\ d.snap = c.snap /\ d.ensures /\ published' = None
         \/ d.pc = "reserve" /\ ~d.ensures /\ published' = g,
         UNCHANGED <<rowVars, tasks, mutex, attaches, history>>
  PROVE  ServiceInv'
  <1>1. /\ gens \in Nat /\ mutex \in Nat /\ g \in Nat /\ g > gens /\ g # None
        /\ g \in Generations /\ gens' = g /\ reg' = reg /\ loops' = loops
        /\ CallOK(c) /\ c.op # "spawn" /\ c.holds
    BY CallFacts DEF NewSession, CallOK, LocksOK, GenOK, Holding, None
  <1>2. SessionsOK /\ reg[g] = Registry /\ loops[g] = {}
    BY <1>1 DEF ServiceInv, SessionsOK
  <1>3. RegOK(Registry) /\ Untouched(Registry) /\ ~Registry.stopped
    BY RegistryOK DEF Untouched
  <1>4. RowsOK'
    BY DEF ServiceInv, RowsOK, rowVars, history
  <1>5. /\ sched' \in [Generations -> SUBSET Slots] /\ sched'[g] = c.snap
        /\ \A h \in Generations : h # g => sched'[h] = sched[h]
    BY <1>1, <1>2 DEF NewSession, SessionsOK, CallOK, CallTyped
  <1>6. SessionsOK'
    <2>1. g \in 0..MaxGenerations /\ published' \in 0..g
      BY <1>1, ServiceAssumption DEF Generations, None
    <2>2. \A h \in Generations : h > g => h > gens
      BY <1>1 DEF Generations
    <2>. QED BY <1>1, <1>2, <1>3, <1>5, <2>1, <2>2 DEF SessionsOK, None
  <1>7. CallOK(d)'
    <2>1. LocksOK(d)'
      BY <1>1 DEF CallOK, LocksOK, Starting, Holding
    <2>2. GenOK(d)'
      <3>1. \A m \in Slots : Registry.entry[m].kind = "Absent"
        BY DEF Registry, Entry
      <3>. QED BY <1>1, <1>2, <1>3, <1>5, <3>1 DEF GenOK, Starting, None
    <2>3. OpsOK(d)'
      BY DEF OpsOK
    <2>. QED BY <2>1, <2>2, <2>3 DEF CallOK
  <1>8. \A u \in Callers : u # t =>
           /\ call[u].op # "spawn" /\ call[u].pc \notin Starting /\ ~call[u].ensures /\ call[u].gen \in 0..gens
           /\ call[u].pc = "stop" => call[u].gen # None /\ ~reg[call[u].gen].stopped
    BY CallFacts DEF CallOK, LocksOK, GenOK, EnsureFree
  <1>9. \A u \in Callers : u # t => Apart(call[u], d) /\ Apart(d, call[u])
    <2>1. \A u \in Callers : u # t => call[u].gen # g
      BY <1>1, <1>8
    <2>2. \A u \in Callers : u # t => ~(call[u].holds /\ c.holds /\ call[u].mx = c.mx)
      BY CallFacts DEF Apart
    <2>. QED BY <1>1, <1>8, <2>1, <2>2 DEF Apart, Starting
  <1>10. NoOrphanSession'
    <2>1. call'[t] = d /\ \A u \in Callers : u # t => call'[u] = call[u]
      BY DEF ServiceInv, CallsOK, Set
    <2>2. SUFFICES ASSUME NEW h \in 1..g, ~reg[h].stopped
                   PROVE  \/ published' = h
                          \/ \E u \in Callers : call'[u].gen = h /\ call'[u].pc \in {"rebuild", "failing", "seed", "stop"}
      BY <1>1 DEF NoOrphanSession
    <2>3. CASE h = g
      BY <2>1, <2>3
    <2>4. CASE h # g
      <3>1. h \in 1..gens /\ published # h
        BY <1>1, <2>4 DEF None
      <3>2. PICK u \in Callers : call[u].gen = h /\ call[u].pc \in {"rebuild", "failing", "seed", "stop"}
        BY <2>2, <3>1 DEF ServiceInv, NoOrphanSession
      <3>. QED BY <2>1, <3>2
    <2>. QED BY <2>3, <2>4
  <1>11. \A h \in Generations : Evolves(reg[h], reg'[h])
    BY <1>1, <1>2, EvolvesSame DEF SessionsOK
  <1>12. \A u \in Callers : u # t => (call[u].pc = "stop" => published' # call[u].gen)
    BY <1>1, <1>8 DEF None
  <1>. QED BY <1>1, <1>4, <1>6, <1>7, <1>8, <1>9, <1>10, <1>11, <1>12, SessionsMove

\* A session is joined or started under the ensure mutex: the service invariant is kept.
LEMMA StartSessionInv ==
  ASSUME ServiceInv, NEW t \in Callers, StartSession(t)
  PROVE  ServiceInv'
  <1>1. PICK c, g, new : c = call[t] /\ g = gens + 1 /\ new = [c EXCEPT !.gen = gens + 1]
    OBVIOUS
  <1>2. c.pc = "start" /\ EnsureFree /\ UNCHANGED <<rowVars, tasks, mutex, attaches, history>>
    BY <1>1 DEF StartSession
  <1>3. CASE /\ published # None /\ UNCHANGED sessionVars
             /\ Set(t, [c EXCEPT !.pc = "reserve", !.gen = published, !.snap = {}])
    BY <1>1, <1>2, <1>3, Joins
  <1>4. CASE End(t) /\ UNCHANGED sessionVars
    BY <1>1, <1>2, <1>4, EndAlone DEF Owning, Starting
  <1>5. CASE published = None /\ NewSession(g, c.snap) /\ StartForAll(t, new)
    <2>1. PICK d : d = [new EXCEPT !.pc = "rebuild", !.ensures = TRUE]
      OBVIOUS
    <2>2. /\ CallTyped(d) /\ d.op = c.op /\ d.mx = c.mx /\ d.holds /\ d.gen = g /\ d.lease = 0 /\ d.owned = {}
          /\ d.pc = "rebuild" /\ d.snap = c.snap /\ d.ensures
      BY <1>1, <1>2, <2>1, CallFacts DEF CallOK, CallTyped, Fields, LocksOK, GenOK, OpsOK, Starting, Holding, Removing, None
    <2>3. Set(t, d) /\ published' = None
      BY <1>5, <2>1 DEF StartForAll
    <2>. QED BY <1>1, <1>2, <1>5, <2>2, <2>3, Starts
  <1>6. CASE published = None /\ NewSession(g, c.snap) /\ StartForOne(t, new)
    <2>1. PICK d : d = [new EXCEPT !.pc = "reserve", !.snap = {}]
      OBVIOUS
    <2>2. /\ CallTyped(d) /\ d.op = c.op /\ d.mx = c.mx /\ d.holds /\ d.gen = g /\ d.lease = 0 /\ d.owned = {}
          /\ d.pc = "reserve" /\ ~d.ensures /\ new.gen = g
      BY <1>1, <1>2, <2>1, CallFacts DEF CallOK, CallTyped, Fields, LocksOK, GenOK, OpsOK, Starting, Holding, Removing, None
    <2>3. Set(t, d) /\ published' = g
      BY <1>6, <2>1, <2>2 DEF StartForOne
    <2>. QED BY <1>1, <1>2, <1>6, <2>2, <2>3, Starts
  <1>. QED BY <1>1, <1>3, <1>4, <1>5, <1>6 DEF StartSession

-----------------------------------------------------------------------------
(* The specification *)

\* Any step of an ensure: the service invariant is kept.
LEMMA EnsureStepInv ==
  ASSUME ServiceInv, NEW t \in Callers, EnsureStep(t)
  PROVE  ServiceInv'
  BY LookUpMutexInv, LoadTeamInv, FindSessionInv, StartSessionInv, SettleInv, ReserveStoppedInv,
     SpawnAttachesInv, AbortStartInv, SpawnEventLoopsInv, PublishSessionInv, RecoverInv, LaunchJobInv,
     EndJobInv, SeedReadyInv, ReserveMemberInv DEF EnsureStep

\* Any step of a change of members: the service invariant is kept.
LEMMA MemberStepInv ==
  ASSUME ServiceInv, NEW t \in Callers, MemberStep(t)
  PROVE  ServiceInv'
  BY EditRosterInv, ProvisionAgentInv, PersistAgentsInv, AdmitAgentInv, WelcomeAgentInv,
     WriteLastMessageInv, RemoveAgentInv, JoinRemovalInv, KillMemberInv, ReloadRosterInv,
     UnlistMemberInv, RetireMemberInv, DetachMemberInv, FinishRemoveInv, DeleteConversationInv
     DEF MemberStep

\* Any step of a stop: the service invariant is kept.
LEMMA StopStepInv ==
  ASSUME ServiceInv, NEW t \in Callers, StopStep(t)
  PROVE  ServiceInv'
  BY UnpublishInv, StopSessionInv, KillAllInv, CloseTeamInv DEF StopStep

\* Steps that are nobody's request: the creation of the team, and none at all.
LEMMA CreationInv ==
  ASSUME ServiceInv,
         \/ \E m \in Slots : ProvisionInitial(m)
         \/ CreateTeam \/ CreateFails \/ UNCHANGED serviceVars
  PROVE  ServiceInv'
  <1>1. UNCHANGED <<call, sessionVars, mutex, attaches>>
    BY DEF ProvisionInitial, CreateTeam, CreateFails, serviceVars
  <1>2. RowsOK'
    <2>1. RowsOK
      BY DEF ServiceInv
    <2>2. CASE \E m \in Slots : ProvisionInitial(m)
      BY <2>1, <2>2 DEF RowsOK, ProvisionInitial, history
    <2>3. CASE CreateTeam
      BY <2>1, <2>3 DEF RowsOK, CreateTeam, history
    <2>4. CASE CreateFails
      BY <2>1, <2>4 DEF RowsOK, CreateFails, history
    <2>5. CASE UNCHANGED serviceVars
      BY <2>1, <2>5 DEF RowsOK, serviceVars, rowVars, history
    <2>. QED BY <2>2, <2>3, <2>4, <2>5
  <1>3. \A a \in attaches' : AttachOK(a)
    BY <1>1 DEF ServiceInv
  <1>. QED BY <1>1, <1>2, <1>3, AttachQuiet

\* The service invariant holds of the initial state.
LEMMA ServiceStart == ServiceInit => ServiceInv
  <1> SUFFICES ASSUME ServiceInit PROVE ServiceInv
    OBVIOUS
  <1>1. RowsOK
    <2>1. unlocked \in BOOLEAN
      BY Zenon DEF ServiceInit
    <2>2. mutex \in Nat \ {0} /\ team = "none" /\ roster = {} /\ convs = {} /\ tasks = {} /\ removed = {}
      BY DEF ServiceInit
    <2>. QED BY <2>1, <2>2 DEF RowsOK
  <1>2. SessionsOK
    BY RegistryOK, ServiceAssumption DEF ServiceInit, SessionsOK, None, Untouched
  <1>3. PICK c : c = Call("none", "begin", Lead)
    OBVIOUS
  <1>4. CallOK(c) /\ Apart(c, c)
    BY <1>3 DEF ServiceInit, Call, Apart, Slots, CallOK, CallTyped, Fields, LocksOK, GenOK, OpsOK, Starting, Holding, Removing, None
  <1>5. CallsOK
    BY <1>3, <1>4 DEF ServiceInit, CallsOK
  <1>6. NoOrphanSession /\ \A a \in attaches : AttachOK(a)
    BY DEF ServiceInit, NoOrphanSession
  <1>. QED BY <1>1, <1>2, <1>5, <1>6 DEF ServiceInv

\* Every step of the service keeps the service invariant.
LEMMA ServiceStep == ServiceInv /\ [ServiceNext]_serviceVars => ServiceInv'
  <1> SUFFICES ASSUME ServiceInv, ServiceNext \/ UNCHANGED serviceVars PROVE ServiceInv'
    OBVIOUS
  <1>1. CASE \E t \in Callers : Begin(t) \/ CheckOwned(t) \/ EnsureStep(t) \/ MemberStep(t) \/ StopStep(t)
    BY <1>1, BeginInv, CheckOwnedInv, EnsureStepInv, MemberStepInv, StopStepInv
  <1>2. CASE \E a \in attaches : AttachStep(a)
    BY <1>2, AttachStepInv
  <1>. QED BY <1>1, <1>2, CreationInv DEF ServiceNext

\* The inductive invariant of the service.
THEOREM ServiceInvariant == ServiceSpec => []ServiceInv
  <1>. QED BY ServiceStart, ServiceStep, PTL DEF ServiceSpec

\* What a request and an attach task refer to is there, and a stopped session
\* has no event loops.
THEOREM ServiceTypes == ServiceSpec => []ServiceTypeOK
  <1>1. ServiceInv => ServiceTypeOK
    BY DEF ServiceInv, ServiceTypeOK, RowsOK, SessionsOK, CallsOK, CallOK, LocksOK, GenOK, AttachOK, AttachOp
  <1>. QED BY <1>1, ServiceInvariant, PTL

\* No session is left running where nobody can find it.
THEOREM SessionsHaveOwners == ServiceSpec => []NoOrphanSession
  <1>1. ServiceInv => NoOrphanSession
    BY DEF ServiceInv
  <1>. QED BY <1>1, ServiceInvariant, PTL

-----------------------------------------------------------------------------
(* Whoever waits is answered *)

\* Operation o of session g is waited for.
Waited(g, o) == g \in 1..gens /\ o \in 1..reg[g].lastOp /\ reg[g].outcome[o] = "Pending"

Leased == {"welcome", "remove", "kill", "reload", "unlist", "retire", "detach", "finish"}
Tending == Leased \cup {"stop", "reserve"}

\* Request c works on operation o of session g, or is about to stop the session.
Tends(c, g, o) ==
    c.gen = g /\ (c.pc = "stop" \/ (c.pc = "reserve" /\ o \in c.owned) \/ (c.lease = o /\ c.pc \in Leased))

Attended(g, o) ==
    \/ <<g, o>> \in dropped
    \/ \E a \in attaches : a.gen = g /\ a.op = o
    \/ \E t \in Callers : Tends(call[t], g, o)

\* Nobody waits forever: every operation that is waited for is attended to.
LEMMA WaitersAttended == NobodyWaitsForever <=> \A g, o : Waited(g, o) => Attended(g, o)
  BY DEF NobodyWaitsForever, Waited, Attended, Tends, Leased

\* The same of the next state.
LEMMA WaitersAttendedNext == NobodyWaitsForever' <=> \A g, o : Waited(g, o)' => Attended(g, o)'
  BY DEF NobodyWaitsForever, Waited, Attended, Tends, Leased

\* An operation that is waited for owns its member.
LEMMA WaitedOwns ==
  ASSUME ServiceInv, NEW g, NEW o, Waited(g, o)
  PROVE  /\ g \in 1..gens /\ o \in 1..reg[g].lastOp /\ reg[g].leases[o] \in Slots /\ o # 0
         /\ ~reg[g].stopped
         /\ reg[g].entry[reg[g].leases[o]] \in {Entry("Attaching", o), Entry("Removing", o)}
  <1>1. g \in 1..gens /\ g \in Generations /\ o \in 1..reg[g].lastOp
    BY Begun DEF Waited
  <1>2. PICK r : r = reg[g] /\ RegOK(r)
    BY <1>1 DEF ServiceInv, SessionsOK
  <1>3. r.lastOp \in Nat /\ r.leases \in [1..r.lastOp -> Slots]
    BY <1>2, RegParts
  <1>4. r.leases[o] \in Slots /\ o # 0
    BY <1>1, <1>2, <1>3
  <1>5. r.entry[r.leases[o]] \in {Entry("Attaching", o), Entry("Removing", o)}
    BY <1>1, <1>2 DEF RegOK, Waited
  <1>6. ~r.stopped
    <2>1. Registry.entry[r.leases[o]] = Entry("Absent", 0)
      BY <1>4 DEF Registry
    <2>2. Entry("Absent", 0) # Entry("Attaching", o) /\ Entry("Absent", 0) # Entry("Removing", o)
      BY DEF Entry
    <2>. QED BY <1>2, <1>5, <2>1, <2>2 DEF RegOK
  <1>. QED BY <1>1, <1>2, <1>4, <1>5, <1>6

\* Only request t has moved.
Others(t) == \A u \in Callers : u # t => call'[u] = call[u]

\* A request that is set leaves the others alone.
LEMMA SetOthers ==
  ASSUME ServiceInv, NEW t \in Callers, NEW d, Set(t, d)
  PROVE  Others(t) /\ call'[t] = d
  BY DEF ServiceInv, CallsOK, Set, Others

\* A request that returns becomes a blank one and leaves the others alone.
LEMMA EndOthers ==
  ASSUME ServiceInv, NEW t \in Callers, End(t)
  PROVE  Others(t) /\ \E d : Set(t, d) /\ Blank(d)
  BY CallFacts, EndsBlank, SetOthers

\* Others attend as before; the operations that t attended are attended, or answered.
LEMMA WaitStep ==
  ASSUME ServiceInv, NobodyWaitsForever, NEW t \in Callers, Others(t), dropped \subseteq dropped',
         \A a \in attaches : \E b \in attaches' : b.gen = a.gen /\ b.op = a.op,
         \A g, o : Waited(g, o)' => Waited(g, o) \/ Tends(call'[t], g, o),
         \A g, o : Waited(g, o)' /\ Waited(g, o) /\ Tends(call[t], g, o) => Attended(g, o)'
  PROVE  NobodyWaitsForever'
  <1> SUFFICES ASSUME NEW g, NEW o, Waited(g, o)' PROVE Attended(g, o)'
    BY WaitersAttendedNext
  <1>1. CASE Tends(call'[t], g, o)
    BY <1>1 DEF Attended
  <1>2. CASE Waited(g, o)
    <2>1. Attended(g, o)
      BY <1>2, WaitersAttended
    <2>2. CASE \E u \in Callers : Tends(call[u], g, o)
      <3>1. PICK u \in Callers : Tends(call[u], g, o)
        BY <2>2
      <3>2. CASE u = t
        BY <1>2, <3>1, <3>2
      <3>3. CASE u # t
        BY <3>1, <3>3 DEF Others, Attended
      <3>. QED BY <3>2, <3>3
    <2>3. CASE <<g, o>> \in dropped \/ \E a \in attaches : a.gen = g /\ a.op = o
      BY <2>3 DEF Attended
    <2>. QED BY <2>1, <2>2, <2>3 DEF Attended
  <1>. QED BY <1>1, <1>2

\* Sessions are left alone, but for one that is new.
LEMMA SameWaits ==
  ASSUME ServiceInv, reg' = reg, gens' = gens \/ (gens' = gens + 1 /\ gens + 1 \in Generations)
  PROVE  \A g, o : Waited(g, o)' => Waited(g, o)
  <1>1. gens \in Nat
    BY ServiceAssumption DEF ServiceInv, SessionsOK
  <1>2. gens + 1 \in Generations => reg[gens + 1].lastOp = 0
    BY <1>1 DEF ServiceInv, SessionsOK, Registry
  <1>. QED BY <1>1, <1>2 DEF Waited

\* A request that attends nothing.
LEMMA IdleWaits ==
  ASSUME ServiceInv, NobodyWaitsForever, NEW t \in Callers, Others(t), call[t].pc \notin Tending,
         reg' = reg, gens' = gens \/ (gens' = gens + 1 /\ gens + 1 \in Generations),
         UNCHANGED <<attaches, dropped>>
  PROVE  NobodyWaitsForever'
  <1>1. \A g, o : Waited(g, o)' => Waited(g, o)
    BY SameWaits
  <1>2. \A g, o : ~Tends(call[t], g, o)
    BY DEF Tends, Tending
  <1>. QED BY <1>1, <1>2, WaitStep

\* A request that keeps its lease.
LEMMA LeasedWaits ==
  ASSUME ServiceInv, NobodyWaitsForever, NEW t \in Callers, NEW d, Set(t, d),
         call[t].pc \in Leased, d.pc \in Leased, d.gen = call[t].gen, d.lease = call[t].lease,
         UNCHANGED <<reg, gens, attaches, dropped>>
  PROVE  NobodyWaitsForever'
  <1>1. \A g, o : Waited(g, o)' => Waited(g, o)
    BY SameWaits
  <1>2. Others(t) /\ call'[t] = d
    BY SetOthers
  <1>3. \A g, o : Tends(call[t], g, o) => Tends(d, g, o)
    BY DEF Tends, Leased
  <1>4. \A g, o : Tends(call[t], g, o) => Attended(g, o)'
    BY <1>2, <1>3 DEF Attended
  <1>. QED BY <1>1, <1>2, <1>4, WaitStep

\* send_message_to_agent loads the team: whoever waits is still served.
LEMMA CheckOwnedWaits ==
  ASSUME ServiceInv, NobodyWaitsForever, NEW t \in Callers, CheckOwned(t)
  PROVE  NobodyWaitsForever'
  <1>1. Others(t)
    BY SetOthers, EndOthers DEF CheckOwned
  <1>2. /\ call[t].pc \notin Tending /\ UNCHANGED <<reg, attaches, dropped>>
        /\ gens' = gens
    BY DEF CheckOwned, Tending, Leased, sessionVars, history
  <1>. QED BY <1>1, <1>2, IdleWaits

\* The mutex that is now in the map is looked up: whoever waits is still served.
LEMMA LookUpMutexWaits ==
  ASSUME ServiceInv, NobodyWaitsForever, NEW t \in Callers, LookUpMutex(t)
  PROVE  NobodyWaitsForever'
  <1>1. Others(t)
    BY SetOthers, EndOthers DEF LookUpMutex
  <1>2. /\ call[t].pc \notin Tending /\ UNCHANGED <<reg, attaches, dropped>>
        /\ gens' = gens
    BY DEF LookUpMutex, Tending, Leased, sessionVars, history
  <1>. QED BY <1>1, <1>2, IdleWaits

\* An ensure takes the membership mutex and reads the roster: whoever waits is still served.
LEMMA LoadTeamWaits ==
  ASSUME ServiceInv, NobodyWaitsForever, NEW t \in Callers, LoadTeam(t)
  PROVE  NobodyWaitsForever'
  <1>1. Others(t)
    BY SetOthers, EndOthers DEF LoadTeam
  <1>2. /\ call[t].pc \notin Tending /\ UNCHANGED <<reg, attaches, dropped>>
        /\ gens' = gens
    BY DEF LoadTeam, Tending, Leased, sessionVars, history
  <1>. QED BY <1>1, <1>2, IdleWaits

\* An ensure looks for the published session: whoever waits is still served.
LEMMA FindSessionWaits ==
  ASSUME ServiceInv, NobodyWaitsForever, NEW t \in Callers, FindSession(t)
  PROVE  NobodyWaitsForever'
  <1>1. Others(t)
    BY SetOthers, EndOthers DEF FindSession, NoSession
  <1>2. /\ call[t].pc \notin Tending /\ UNCHANGED <<reg, attaches, dropped>>
        /\ gens' = gens
    BY DEF FindSession, NoSession, Tending, Leased, sessionVars, history
  <1>. QED BY <1>1, <1>2, IdleWaits

\* A session is joined or started under the ensure mutex: whoever waits is still served.
LEMMA StartSessionWaits ==
  ASSUME ServiceInv, NobodyWaitsForever, NEW t \in Callers, StartSession(t)
  PROVE  NobodyWaitsForever'
  <1>1. Others(t)
    BY SetOthers, EndOthers DEF StartSession, StartForAll, StartForOne, NewSession
  <1>2. /\ call[t].pc \notin Tending /\ UNCHANGED <<reg, attaches, dropped>>
        /\ gens' = gens \/ (gens' = gens + 1 /\ gens + 1 \in Generations)
    BY DEF StartSession, StartForAll, StartForOne, NewSession, Tending, Leased, sessionVars, history
  <1>. QED BY <1>1, <1>2, IdleWaits

\* The loops of a new session are spawned: whoever waits is still served.
LEMMA SpawnEventLoopsWaits ==
  ASSUME ServiceInv, NobodyWaitsForever, NEW t \in Callers, SpawnEventLoops(t)
  PROVE  NobodyWaitsForever'
  <1>1. Others(t)
    BY SetOthers, EndOthers DEF SpawnEventLoops
  <1>2. /\ call[t].pc \notin Tending /\ UNCHANGED <<reg, attaches, dropped>>
        /\ gens' = gens
    BY DEF SpawnEventLoops, Tending, Leased, sessionVars, history
  <1>. QED BY <1>1, <1>2, IdleWaits

\* A new session is published: whoever waits is still served.
LEMMA PublishSessionWaits ==
  ASSUME ServiceInv, NobodyWaitsForever, NEW t \in Callers, PublishSession(t)
  PROVE  NobodyWaitsForever'
  <1>1. Others(t)
    BY SetOthers, EndOthers DEF PublishSession
  <1>2. /\ call[t].pc \notin Tending /\ UNCHANGED <<reg, attaches, dropped>>
        /\ gens' = gens
    BY DEF PublishSession, Tending, Leased, sessionVars, history
  <1>. QED BY <1>1, <1>2, IdleWaits

\* The recovery drain ends: whoever waits is still served.
LEMMA RecoverWaits ==
  ASSUME ServiceInv, NobodyWaitsForever, NEW t \in Callers, Recover(t)
  PROVE  NobodyWaitsForever'
  <1>1. Others(t)
    BY SetOthers, EndOthers DEF Recover
  <1>2. /\ call[t].pc \notin Tending /\ UNCHANGED <<reg, attaches, dropped>>
        /\ gens' = gens
    BY DEF Recover, Tending, Leased, sessionVars, history
  <1>. QED BY <1>1, <1>2, IdleWaits

\* The answer after all waiters are served: whoever waits is still served.
LEMMA SettleWaits ==
  ASSUME ServiceInv, NobodyWaitsForever, NEW t \in Callers, Settle(t)
  PROVE  NobodyWaitsForever'
  <1>1. Others(t)
    BY SetOthers, EndOthers DEF Settle
  <1>2. /\ call[t].pc \notin Tending /\ UNCHANGED <<reg, attaches, dropped>>
        /\ gens' = gens
    BY DEF Settle, Tending, Leased, sessionVars, history
  <1>. QED BY <1>1, <1>2, IdleWaits

\* The roster is read for a change: whoever waits is still served.
LEMMA EditRosterWaits ==
  ASSUME ServiceInv, NobodyWaitsForever, NEW t \in Callers, EditRoster(t)
  PROVE  NobodyWaitsForever'
  <1>1. Others(t)
    BY SetOthers, EndOthers DEF EditRoster
  <1>2. /\ call[t].pc \notin Tending /\ UNCHANGED <<reg, attaches, dropped>>
        /\ gens' = gens
    BY DEF EditRoster, Tending, Leased, sessionVars, history
  <1>. QED BY <1>1, <1>2, IdleWaits

\* The conversation of a new member is created: whoever waits is still served.
LEMMA ProvisionAgentWaits ==
  ASSUME ServiceInv, NobodyWaitsForever, NEW t \in Callers, ProvisionAgent(t)
  PROVE  NobodyWaitsForever'
  <1>1. Others(t)
    BY SetOthers, EndOthers DEF ProvisionAgent
  <1>2. /\ call[t].pc \notin Tending /\ UNCHANGED <<reg, attaches, dropped>>
        /\ gens' = gens
    BY DEF ProvisionAgent, Tending, Leased, sessionVars, history
  <1>. QED BY <1>1, <1>2, IdleWaits

\* The changed roster is written: whoever waits is still served.
LEMMA PersistAgentsWaits ==
  ASSUME ServiceInv, NobodyWaitsForever, NEW t \in Callers, PersistAgents(t)
  PROVE  NobodyWaitsForever'
  <1>1. Others(t)
    BY SetOthers, EndOthers DEF PersistAgents
  <1>2. /\ call[t].pc \notin Tending /\ UNCHANGED <<reg, attaches, dropped>>
        /\ gens' = gens
    BY DEF PersistAgents, Tending, Leased, sessionVars, history
  <1>. QED BY <1>1, <1>2, IdleWaits

\* persist_agent_last_message writes the roster it has read: whoever waits is still served.
LEMMA WriteLastMessageWaits ==
  ASSUME ServiceInv, NobodyWaitsForever, NEW t \in Callers, WriteLastMessage(t)
  PROVE  NobodyWaitsForever'
  <1>1. Others(t)
    BY SetOthers, EndOthers DEF WriteLastMessage
  <1>2. /\ call[t].pc \notin Tending /\ UNCHANGED <<reg, attaches, dropped>>
        /\ gens' = gens
    BY DEF WriteLastMessage, Tending, Leased, sessionVars, history
  <1>. QED BY <1>1, <1>2, IdleWaits

\* A removal that was joined is over: whoever waits is still served.
LEMMA JoinRemovalWaits ==
  ASSUME ServiceInv, NobodyWaitsForever, NEW t \in Callers, JoinRemoval(t)
  PROVE  NobodyWaitsForever'
  <1>1. Others(t)
    BY SetOthers, EndOthers DEF JoinRemoval
  <1>2. /\ call[t].pc \notin Tending /\ UNCHANGED <<reg, attaches, dropped>>
        /\ gens' = gens
    BY DEF JoinRemoval, Tending, Leased, sessionVars, history
  <1>. QED BY <1>1, <1>2, IdleWaits

\* The conversation of a removed member is deleted: whoever waits is still served.
LEMMA DeleteConversationWaits ==
  ASSUME ServiceInv, NobodyWaitsForever, NEW t \in Callers, DeleteConversation(t)
  PROVE  NobodyWaitsForever'
  <1>1. Others(t)
    BY SetOthers, EndOthers DEF DeleteConversation
  <1>2. /\ call[t].pc \notin Tending /\ UNCHANGED <<reg, attaches, dropped>>
        /\ gens' = gens
    BY DEF DeleteConversation, Tending, Leased, sessionVars, history
  <1>. QED BY <1>1, <1>2, IdleWaits

\* The session is taken out of the map: whoever waits is still served.
LEMMA UnpublishWaits ==
  ASSUME ServiceInv, NobodyWaitsForever, NEW t \in Callers, Unpublish(t)
  PROVE  NobodyWaitsForever'
  <1>1. Others(t)
    BY SetOthers, EndOthers DEF Unpublish, AfterStop
  <1>2. /\ call[t].pc \notin Tending /\ UNCHANGED <<reg, attaches, dropped>>
        /\ gens' = gens
    BY DEF Unpublish, AfterStop, Tending, Leased, sessionVars, history
  <1>. QED BY <1>1, <1>2, IdleWaits

\* The tasks of a closed team are killed: whoever waits is still served.
LEMMA KillAllWaits ==
  ASSUME ServiceInv, NobodyWaitsForever, NEW t \in Callers, KillAll(t)
  PROVE  NobodyWaitsForever'
  <1>1. Others(t)
    BY SetOthers, EndOthers DEF KillAll
  <1>2. /\ call[t].pc \notin Tending /\ UNCHANGED <<reg, attaches, dropped>>
        /\ gens' = gens
    BY DEF KillAll, Tending, Leased, sessionVars, history
  <1>. QED BY <1>1, <1>2, IdleWaits

\* The team is archived or deleted and the mutex entry dropped: whoever waits is still served.
LEMMA CloseTeamWaits ==
  ASSUME ServiceInv, NobodyWaitsForever, NEW t \in Callers, CloseTeam(t)
  PROVE  NobodyWaitsForever'
  <1>1. Others(t)
    BY SetOthers, EndOthers DEF CloseTeam
  <1>2. /\ call[t].pc \notin Tending /\ UNCHANGED <<reg, attaches, dropped>>
        /\ gens' = gens
    BY DEF CloseTeam, Tending, Leased, sessionVars, history
  <1>. QED BY <1>1, <1>2, IdleWaits

\* A request begins: whoever waits is still served.
LEMMA BeginWaits ==
  ASSUME ServiceInv, NobodyWaitsForever, NEW t \in Callers, Begin(t)
  PROVE  NobodyWaitsForever'
  <1>1. Others(t)
    BY TeamOpens, MemberOpens, SetOthers DEF Begin
  <1>2. call[t].pc \notin Tending /\ UNCHANGED <<reg, gens, attaches, dropped>>
    BY DEF Begin, Tending, Leased, sessionVars, history
  <1>. QED BY <1>1, <1>2, IdleWaits

\* Rebuild jobs are launched and end: whoever waits is still served.
LEMMA JobWaits ==
  ASSUME ServiceInv, NobodyWaitsForever, NEW t \in Callers, NEW m, LaunchJob(t, m) \/ EndJob(t, m)
  PROVE  NobodyWaitsForever'
  <1>1. Others(t)
    BY SetOthers DEF LaunchJob, EndJob
  <1>2. call[t].pc \notin Tending /\ UNCHANGED <<reg, gens, attaches, dropped>>
    BY DEF LaunchJob, EndJob, Tending, Leased, sessionVars, history
  <1>. QED BY <1>1, <1>2, IdleWaits

\* A removal aborts the loop and kills the task: whoever waits is still served.
LEMMA KillMemberWaits ==
  ASSUME ServiceInv, NobodyWaitsForever, NEW t \in Callers, KillMember(t)
  PROVE  NobodyWaitsForever'
  <1>1. PICK c, d : c = call[t] /\ d = [c EXCEPT !.pc = "reload"]
    OBVIOUS
  <1>2. c.pc = "kill" /\ Set(t, d) /\ UNCHANGED <<reg, gens, attaches, dropped>>
    BY <1>1 DEF KillMember, history
  <1>3. d.pc = "reload" /\ d.gen = c.gen /\ d.lease = c.lease
    BY <1>1, CallFacts DEF CallTyped, Fields
  <1>. QED BY <1>1, <1>2, <1>3, LeasedWaits DEF Leased

\* A removal takes the slot out of the scheduler: whoever waits is still served.
LEMMA DetachMemberWaits ==
  ASSUME ServiceInv, NobodyWaitsForever, NEW t \in Callers, DetachMember(t)
  PROVE  NobodyWaitsForever'
  <1>1. PICK c, d : c = call[t] /\ d = [c EXCEPT !.pc = "finish"]
    OBVIOUS
  <1>2. c.pc = "detach" /\ Set(t, d) /\ UNCHANGED <<reg, gens, attaches, dropped>>
    BY <1>1 DEF DetachMember, history
  <1>3. d.pc = "finish" /\ d.gen = c.gen /\ d.lease = c.lease
    BY <1>1, CallFacts DEF CallTyped, Fields
  <1>. QED BY <1>1, <1>2, <1>3, LeasedWaits DEF Leased

\* A request that drops its lease.
LEMMA DroppedWaits ==
  ASSUME ServiceInv, NobodyWaitsForever, NEW t \in Callers, NEW c, c = call[t], c.pc \in Leased,
         Others(t), DropLease(c), UNCHANGED <<reg, gens, attaches>>
  PROVE  NobodyWaitsForever'
  <1>1. \A g, o : Waited(g, o)' => Waited(g, o)
    BY SameWaits
  <1>2. ASSUME NEW g, NEW o, Waited(g, o), Tends(c, g, o) PROVE Attended(g, o)'
    <2>1. o # 0 /\ c.gen = g /\ c.lease = o
      BY <1>2, WaitedOwns DEF Tends, Leased
    <2>. QED BY <2>1 DEF DropLease, Attended
  <1>3. dropped \subseteq dropped'
    BY DEF DropLease
  <1>. QED BY <1>1, <1>2, <1>3, WaitStep

\* A removal reads the roster under the mutex: whoever waits is still served.
LEMMA ReloadRosterWaits ==
  ASSUME ServiceInv, NobodyWaitsForever, NEW t \in Callers, ReloadRoster(t)
  PROVE  NobodyWaitsForever'
  <1>1. PICK c, d : c = call[t] /\ d = [c EXCEPT !.pc = "unlist", !.holds = TRUE, !.snap = roster]
    OBVIOUS
  <1>2. c.pc = "reload" /\ UNCHANGED <<reg, gens, attaches>>
    BY <1>1 DEF ReloadRoster, sessionVars
  <1>3. CASE Set(t, d) /\ UNCHANGED dropped
    <2>1. d.pc = "unlist" /\ d.gen = c.gen /\ d.lease = c.lease
      BY <1>1, CallFacts DEF CallTyped, Fields
    <2>. QED BY <1>1, <1>2, <1>3, <2>1, LeasedWaits DEF Leased
  <1>4. CASE End(t) /\ DropLease(c)
    BY <1>1, <1>2, <1>4, EndOthers, DroppedWaits DEF Leased
  <1>. QED BY <1>1, <1>3, <1>4 DEF ReloadRoster

\* The welcome message and the attach task of a new member: whoever waits is still served.
LEMMA WelcomeAgentWaits ==
  ASSUME ServiceInv, NobodyWaitsForever, NEW t \in Callers, WelcomeAgent(t)
  PROVE  NobodyWaitsForever'
  <1>1. PICK c, d : c = call[t] /\ d = [c EXCEPT !.pc = "remove", !.mx = mutex]
    OBVIOUS
  <1>2. c.pc = "welcome" /\ UNCHANGED <<reg, gens>>
    BY <1>1 DEF WelcomeAgent, sessionVars
  <1>3. CASE Set(t, d) /\ UNCHANGED <<attaches, dropped>>
    <2>1. d.pc = "remove" /\ d.gen = c.gen /\ d.lease = c.lease
      BY <1>1, CallFacts DEF CallTyped, Fields
    <2>. QED BY <1>1, <1>2, <1>3, <2>1, LeasedWaits DEF Leased
  <1>4. CASE End(t) /\ DropLease(c) /\ UNCHANGED attaches
    BY <1>1, <1>2, <1>4, EndOthers, DroppedWaits DEF Leased
  <1>5. CASE /\ attaches' = attaches \cup (IF c.lease = 0 THEN {} ELSE {Attach(c.gen, c.lease)})
             /\ End(t) /\ UNCHANGED dropped
    <2>1. \A g, o : Waited(g, o)' => Waited(g, o)
      BY <1>2, SameWaits
    <2>2. ASSUME NEW g, NEW o, Waited(g, o), Tends(c, g, o) PROVE Attended(g, o)'
      <3>1. o # 0 /\ c.gen = g /\ c.lease = o
        BY <1>2, <2>2, WaitedOwns DEF Tends, Leased
      <3>2. Attach(g, o) \in attaches' /\ Attach(g, o).gen = g /\ Attach(g, o).op = o
        BY <1>5, <3>1 DEF Attach
      <3>. QED BY <3>2 DEF Attended
    <2>. QED BY <1>1, <1>5, <2>1, <2>2, EndOthers, WaitStep
  <1>. QED BY <1>1, <1>3, <1>4, <1>5 DEF WelcomeAgent

\* The attaches of a request are spawned: whoever waits is still served.
LEMMA SpawnAttachesWaits ==
  ASSUME ServiceInv, NobodyWaitsForever, NEW t \in Callers, SpawnAttaches(t)
  PROVE  NobodyWaitsForever'
  <1>1. PICK c : c = call[t]
    OBVIOUS
  <1>2. /\ c.pc = "reserve" /\ Others(t) /\ UNCHANGED <<reg, gens, dropped>>
        /\ attaches' = attaches \cup {Attach(c.gen, o) : o \in c.owned}
    BY <1>1, SetOthers DEF SpawnAttaches, sessionVars, history
  <1>3. \A g, o : Waited(g, o)' => Waited(g, o)
    BY <1>2, SameWaits
  <1>4. ASSUME NEW g, NEW o, Tends(c, g, o) PROVE Attended(g, o)'
    <2>1. o \in c.owned /\ c.gen = g
      BY <1>2, <1>4 DEF Tends, Leased
    <2>2. Attach(g, o) \in attaches' /\ Attach(g, o).gen = g /\ Attach(g, o).op = o
      BY <1>2, <2>1 DEF Attach
    <2>. QED BY <2>2 DEF Attended
  <1>. QED BY <1>1, <1>2, <1>3, <1>4, WaitStep

\* A new operation is waited for; the one it takes the place of is not any more.
LEMMA StartedWaits ==
  ASSUME ServiceInv, gens' = gens, NEW g \in 1..gens, NEW m \in Slots, NEW kind \in {"Attaching", "Removing"},
         ~reg[g].stopped, reg[g].entry[m].kind # "Removing", RegBecomes(g, Started(reg[g], m, kind))
  PROVE  \A h, o : Waited(h, o)' => \/ Waited(h, o) /\ ~(h = g /\ reg[g].leases[o] = m)
                                    \/ h = g /\ o = reg[g].lastOp + 1
  <1>1. /\ reg[g].lastOp \in Nat /\ reg'[g].lastOp = reg[g].lastOp + 1
        /\ \A o \in 1..reg[g].lastOp : reg'[g].outcome[o] = "Pending" =>
               reg[g].outcome[o] = "Pending" /\ reg[g].leases[o] # m
    BY StartedStep
  <1>2. \A h \in 1..gens : h # g => reg'[h] = reg[h]
    BY Begun DEF RegBecomes
  <1>3. \A o \in 1..reg'[g].lastOp : o \in 1..reg[g].lastOp \/ o = reg[g].lastOp + 1
    BY <1>1
  <1>. QED BY <1>1, <1>2, <1>3 DEF Waited

\* Operation k is answered.
LEMMA EndedWaits ==
  ASSUME ServiceInv, gens' = gens, NEW g \in 1..gens, NEW k \in 1..reg[g].lastOp,
         NEW kind \in {"Attaching", "Removing"}, Owns(reg[g], k, kind),
         NEW e \in {Entry("Ready", 0), Entry("Absent", 0), Entry("Failed", k)},
         NEW x \in {"Ready", "Removed", "Failed"}, RegBecomes(g, Ended(reg[g], k, e, x))
  PROVE  \A h, o : Waited(h, o)' => Waited(h, o) /\ ~(h = g /\ o = k)
  <1>1. /\ reg'[g].lastOp = reg[g].lastOp /\ reg'[g].outcome[k] = x
        /\ \A o \in 1..reg[g].lastOp : o # k => reg'[g].outcome[o] = reg[g].outcome[o]
    BY EndedStep
  <1>2. \A h \in 1..gens : h # g => reg'[h] = reg[h]
    BY Begun DEF RegBecomes
  <1>3. x # "Pending"
    OBVIOUS
  <1>. QED BY <1>1, <1>2, <1>3 DEF Waited

\* Nothing is waited for in a stopped session.
LEMMA StoppedWaits ==
  ASSUME ServiceInv, gens' = gens, NEW g \in 1..gens, reg' = [reg EXCEPT ![g] = StoppedReg(reg[g])]
  PROVE  \A h, o : Waited(h, o)' => Waited(h, o) /\ h # g
  <1>1. g \in Generations /\ DOMAIN reg = Generations /\ 1..gens \subseteq Generations
    BY Begun
  <1>2. PICK s : s = StoppedReg(reg[g])
    OBVIOUS
  <1>3. RegOK(reg[g])
    BY <1>1 DEF ServiceInv, SessionsOK
  <1>4. s.lastOp = reg[g].lastOp /\ \A o \in 1..reg[g].lastOp : s.outcome[o] # "Pending"
    BY <1>2, <1>3, StoppedOK
  <1>5. reg'[g] = s /\ \A h \in Generations : h # g => reg'[h] = reg[h]
    BY <1>1, <1>2
  <1>. QED BY <1>1, <1>4, <1>5 DEF Waited

\* The waiters of a session that is not published will be answered when it is stopped.
LEMMA Unpublished ==
  ASSUME ServiceInv, NEW g, NEW o, Waited(g, o), published # g
  PROVE  \E u \in Callers : call[u].gen = g /\ call[u].pc = "stop"
  <1>1. g \in 1..gens /\ ~reg[g].stopped /\ reg[g].lastOp # 0
    <2>1. o \in 1..reg[g].lastOp
      BY DEF Waited
    <2>. QED BY <2>1, WaitedOwns
  <1>2. PICK u \in Callers : call[u].gen = g /\ call[u].pc \in {"rebuild", "failing", "seed", "stop"}
    BY <1>1 DEF ServiceInv, NoOrphanSession
  <1>3. call[u].pc \in Starting => reg[g].lastOp = 0
    BY <1>2, CallFacts DEF CallOK, GenOK, Untouched
  <1>. QED BY <1>1, <1>2, <1>3 DEF Starting

\* A removal that is waited for owns its member.
LEMMA RemovalOwned ==
  ASSUME ServiceInv, NEW t \in Callers, NEW c, c = call[t], c.pc \in Removing, Waited(c.gen, c.lease)
  PROVE  /\ c.gen \in 1..gens /\ c.gen # None /\ c.lease \in 1..reg[c.gen].lastOp
         /\ Owns(reg[c.gen], c.lease, "Removing")
  <1>1. c.gen \in 1..gens /\ c.lease # 0 /\ ~reg[c.gen].stopped /\ c.lease \in 1..reg[c.gen].lastOp
    BY WaitedOwns
  <1>2. reg[c.gen].leases[c.lease] = c.slot /\ reg[c.gen].entry[c.slot] = Entry("Removing", c.lease)
    BY <1>1, CallFacts DEF CallOK, OpsOK
  <1>3. c.gen # None
    BY <1>1 DEF None
  <1>. QED BY <1>1, <1>2, <1>3 DEF Owns

\* The attach of a member is reserved or joined: whoever waits is still served.
LEMMA ReserveMemberWaits ==
  ASSUME ServiceInv, NobodyWaitsForever, NEW t \in Callers, NEW m \in Slots, ReserveMember(t, m)
  PROVE  NobodyWaitsForever'
  <1>1. PICK c, g, r, n : c = call[t] /\ g = c.gen /\ r = reg[g] /\ n = r.lastOp + 1
    OBVIOUS
  <1>2. c.pc = "reserve" /\ ~r.stopped /\ UNCHANGED <<gens, attaches, dropped>> /\ g \in 1..gens
    BY <1>1, CallFacts DEF ReserveMember, history, CallOK, GenOK, None
  <1>3. PICK d : /\ Set(t, d) /\ d.pc = "reserve" /\ d.gen = g /\ c.owned \subseteq d.owned
                 /\ \A h, o : Waited(h, o)' => Waited(h, o) \/ (h = g /\ o \in d.owned)
    <2>1. CASE NeedsAttach(r, m)
      <3>1. PICK d : d = [[c EXCEPT !.todo = @ \ {m}] EXCEPT !.waits = @ \cup {n}, !.owned = @ \cup {n}]
        OBVIOUS
      <3>2. Set(t, d) /\ reg' = [reg EXCEPT ![g] = Started(r, m, "Attaching")]
        BY <1>1, <2>1, <3>1 DEF ReserveMember
      <3>3. d.pc = "reserve" /\ d.gen = g /\ d.owned = c.owned \cup {n}
        BY <1>1, <1>2, <3>1, CallFacts DEF CallTyped, Fields
      <3>4. RegBecomes(g, Started(reg[g], m, "Attaching"))
        BY <1>1, <1>2, <3>2, Begun DEF RegBecomes
      <3>5. reg[g].entry[m].kind # "Removing"
        BY <1>1, <2>1 DEF NeedsAttach
      <3>6. \A h, o : Waited(h, o)' => Waited(h, o) \/ (h = g /\ o = n)
        BY <1>1, <1>2, <3>4, <3>5, StartedWaits
      <3>. QED BY <3>2, <3>3, <3>6
    <2>2. CASE ~NeedsAttach(r, m)
      <3>1. PICK w : Set(t, [[c EXCEPT !.todo = @ \ {m}] EXCEPT !.waits = w]) /\ reg' = reg
        <4>1. CASE r.entry[m].kind = "Ready"
          <5>1. [c EXCEPT !.todo = @ \ {m}] = [[c EXCEPT !.todo = @ \ {m}] EXCEPT !.waits = c.waits]
            BY <1>1, CallFacts DEF CallTyped, Fields
          <5>2. Set(t, [c EXCEPT !.todo = @ \ {m}]) /\ reg' = reg
            BY <1>1, <2>2, <4>1 DEF ReserveMember
          <5>. QED BY <5>1, <5>2
        <4>2. CASE r.entry[m].kind # "Ready"
          BY <1>1, <2>2, <4>2 DEF ReserveMember
        <4>. QED BY <4>1, <4>2
      <3>2. PICK d : d = [[c EXCEPT !.todo = @ \ {m}] EXCEPT !.waits = w]
        OBVIOUS
      <3>3. d.pc = "reserve" /\ d.gen = g /\ d.owned = c.owned
        BY <1>1, <1>2, <3>2, CallFacts DEF CallTyped, Fields
      <3>4. \A h, o : Waited(h, o)' => Waited(h, o)
        BY <1>2, <3>1, SameWaits
      <3>. QED BY <3>1, <3>2, <3>3, <3>4
    <2>. QED BY <2>1, <2>2
  <1>4. Others(t) /\ call'[t] = d
    BY <1>3, SetOthers
  <1>5. \A h, o : Tends(c, h, o) => Tends(d, h, o)
    BY <1>1, <1>2, <1>3 DEF Tends, Leased
  <1>6. \A h, o : Tends(c, h, o) => Attended(h, o)'
    BY <1>4, <1>5 DEF Attended
  <1>7. \A h, o : Waited(h, o)' => Waited(h, o) \/ Tends(d, h, o)
    BY <1>3 DEF Tends
  <1>. QED BY <1>1, <1>2, <1>4, <1>6, <1>7, WaitStep

\* A reconciliation meets a stopped session: whoever waits is still served.
LEMMA ReserveStoppedWaits ==
  ASSUME ServiceInv, NobodyWaitsForever, NEW t \in Callers, ReserveStopped(t)
  PROVE  NobodyWaitsForever'
  <1>1. /\ reg[call[t].gen].stopped /\ Others(t) /\ UNCHANGED <<reg, gens, attaches, dropped>>
    BY EndOthers DEF ReserveStopped, sessionVars, history
  <1>2. \A g, o : Waited(g, o)' => Waited(g, o)
    BY <1>1, SameWaits
  <1>3. \A g, o : Waited(g, o) => ~Tends(call[t], g, o)
    BY <1>1, WaitedOwns DEF Tends
  <1>. QED BY <1>1, <1>2, <1>3, WaitStep

\* The session that was taken out of the map is stopped: whoever waits is still served.
LEMMA StopSessionWaits ==
  ASSUME ServiceInv, NobodyWaitsForever, NEW t \in Callers, StopSession(t)
  PROVE  NobodyWaitsForever'
  <1>1. PICK c, g : c = call[t] /\ g = c.gen
    OBVIOUS
  <1>2. /\ c.pc = "stop" /\ reg' = [reg EXCEPT ![g] = StoppedReg(reg[g])] /\ Others(t)
        /\ UNCHANGED <<gens, attaches, dropped>>
    BY <1>1, SetOthers, EndOthers DEF StopSession, AfterStop, history
  <1>3. g \in 1..gens
    BY <1>1, <1>2, CallFacts DEF CallOK, GenOK, None
  <1>4. \A h, o : Waited(h, o)' => Waited(h, o) /\ h # g
    BY <1>2, <1>3, StoppedWaits
  <1>5. \A h, o : Tends(c, h, o) => h = g
    BY <1>1 DEF Tends
  <1>. QED BY <1>1, <1>2, <1>4, <1>5, WaitStep

\* A session is stopped before anybody has seen it: whoever waits is still served.
LEMMA AbortStartWaits ==
  ASSUME ServiceInv, NobodyWaitsForever, NEW t \in Callers, AbortStart(t)
  PROVE  NobodyWaitsForever'
  <1>1. PICK c, g : c = call[t] /\ g = c.gen
    OBVIOUS
  <1>2. /\ c.pc = "failing" /\ reg' = [reg EXCEPT ![g] = StoppedReg(reg[g])] /\ Others(t)
        /\ UNCHANGED <<gens, attaches, dropped>>
    BY <1>1, EndOthers DEF AbortStart, history
  <1>3. g \in 1..gens
    BY <1>1, <1>2, CallFacts DEF CallOK, GenOK, Starting, None
  <1>4. \A h, o : Waited(h, o)' => Waited(h, o)
    BY <1>2, <1>3, StoppedWaits
  <1>5. \A h, o : ~Tends(c, h, o)
    BY <1>2 DEF Tends, Leased
  <1>. QED BY <1>1, <1>2, <1>4, <1>5, WaitStep

\* A member of a new session is marked ready: whoever waits is still served.
LEMMA SeedReadyWaits ==
  ASSUME ServiceInv, NobodyWaitsForever, NEW t \in Callers, NEW m \in Slots, SeedReady(t, m)
  PROVE  NobodyWaitsForever'
  <1>1. PICK c, g, s : c = call[t] /\ g = c.gen /\ s = Seeded(reg[g], m)
    OBVIOUS
  <1>2. /\ c.pc = "seed" /\ reg' = [reg EXCEPT ![g] = s] /\ Others(t)
        /\ UNCHANGED <<gens, attaches, dropped>>
    BY <1>1, SetOthers DEF SeedReady, history
  <1>3. g \in 1..gens /\ Untouched(reg[g]) /\ g \in Generations /\ DOMAIN reg = Generations
    BY <1>1, <1>2, CallFacts, Begun DEF CallOK, GenOK, Starting, None
  <1>4. s.lastOp = 0
    <2>1. PICK r : r = reg[g] /\ RegOK(r) /\ Untouched(r)
      BY <1>3 DEF ServiceInv, SessionsOK
    <2>2. s = Seeded(r, m)
      BY <1>1, <2>1
    <2>3. RegOK(s) /\ Evolves(r, s) /\ Untouched(s)
      BY <2>1, <2>2, SeededOK
    <2>. QED BY <2>3 DEF Untouched
  <1>5. reg'[g].lastOp = 0 /\ \A h \in 1..gens : h # g => reg'[h] = reg[h]
    BY <1>2, <1>3, <1>4, Begun
  <1>6. \A h, o : Waited(h, o)' => Waited(h, o)
    BY <1>2, <1>5 DEF Waited
  <1>7. \A h, o : ~Tends(c, h, o)
    BY <1>2 DEF Tends, Leased
  <1>. QED BY <1>1, <1>2, <1>6, <1>7, WaitStep

\* A new member is admitted to the published session: whoever waits is still served.
LEMMA AdmitAgentWaits ==
  ASSUME ServiceInv, NobodyWaitsForever, NEW t \in Callers, AdmitAgent(t)
  PROVE  NobodyWaitsForever'
  <1>1. PICK c, g, r, n, m : /\ c = call[t] /\ g = published /\ r = reg[g] /\ n = r.lastOp + 1
                             /\ m = c.slot
    OBVIOUS
  <1>2. c.pc = "admit" /\ UNCHANGED <<gens, attaches, dropped>>
    BY <1>1 DEF AdmitAgent
  <1>3. CASE g = None
    BY <1>1, <1>2, <1>3, EndOthers, IdleWaits DEF AdmitAgent, Tending, Leased
  <1>4. CASE g # None
    <2>1. /\ CallOK(c) /\ m \in Slots /\ g \in 1..gens /\ ~r.stopped
      BY <1>1, <1>2, <1>4, CallFacts DEF CallOK, CallTyped, OpsOK, Removing, None
    <2>2. CASE r.entry[m].kind = "Absent"
      <3>1. PICK d : d = [c EXCEPT !.pc = "welcome", !.gen = g, !.lease = n]
        OBVIOUS
      <3>2. Set(t, d) /\ reg' = [reg EXCEPT ![g] = Started(r, m, "Attaching")]
        BY <1>1, <1>4, <2>1, <2>2, <3>1 DEF AdmitAgent
      <3>3. d.pc = "welcome" /\ d.gen = g /\ d.lease = n
        BY <1>1, <3>1, CallFacts DEF CallTyped, Fields
      <3>4. RegBecomes(g, Started(reg[g], m, "Attaching"))
        BY <1>1, <2>1, <3>2, Begun DEF RegBecomes
      <3>5. \A h, o : Waited(h, o)' => Waited(h, o) \/ (h = g /\ o = n)
        BY <1>1, <1>2, <2>1, <2>2, <3>4, StartedWaits
      <3>6. \A h, o : Waited(h, o)' => Waited(h, o) \/ Tends(d, h, o)
        BY <3>3, <3>5 DEF Tends, Leased
      <3>7. Others(t) /\ call'[t] = d
        BY <3>2, SetOthers
      <3>8. \A h, o : ~Tends(c, h, o)
        BY <1>2 DEF Tends, Leased
      <3>. QED BY <1>1, <1>2, <3>6, <3>7, <3>8, WaitStep
    <2>3. CASE r.entry[m].kind # "Absent"
      <3>1. Others(t) /\ reg' = reg
        BY <1>1, <1>4, <2>1, <2>3, SetOthers DEF AdmitAgent
      <3>. QED BY <1>1, <1>2, <3>1, IdleWaits DEF Tending, Leased
    <2>. QED BY <2>2, <2>3
  <1>. QED BY <1>3, <1>4

\* A removal begins or is joined: whoever waits is still served.
LEMMA RemoveAgentWaits ==
  ASSUME ServiceInv, NobodyWaitsForever, NEW t \in Callers, RemoveAgent(t)
  PROVE  NobodyWaitsForever'
  <1>1. PICK c, g, r, m, out : /\ c = call[t] /\ g = published /\ r = reg[g] /\ m = c.slot
                               /\ out = [c EXCEPT !.pc = "kill", !.gen = g, !.lease = 0]
    OBVIOUS
  <1>2. c.pc = "remove" /\ UNCHANGED <<gens, attaches>> /\ m \in Slots
    BY <1>1, CallFacts DEF RemoveAgent, CallTyped
  \* The lease is that of the attach that spawn_agent has started.
  <1>3. ASSUME NEW h, NEW o, Waited(h, o), Tends(c, h, o)
        PROVE  h = g /\ g # None /\ g \in 1..gens /\ r.leases[o] = m /\ Removable(r, m)
    <2>1. o # 0 /\ c.gen = h /\ c.lease = o
      BY <1>2, <1>3, WaitedOwns DEF Tends, Leased
    <2>2. /\ h = g /\ h # None /\ r.leases[o] = m /\ AttachOp(r, o) /\ h \in 1..gens
      BY <1>1, <1>2, <2>1, <1>3, WaitedOwns, CallFacts DEF CallOK, GenOK, OpsOK, Removing
    <2>3. ~r.stopped /\ r.entry[m] = Entry("Attaching", o)
      BY <1>1, <1>3, <2>2, WaitedOwns DEF AttachOp
    <2>. QED BY <2>2, <2>3 DEF Removable, Entry
  <1>4. CASE End(t) /\ DropLease(c) /\ UNCHANGED reg
    BY <1>1, <1>2, <1>4, EndOthers, DroppedWaits DEF Leased
  <1>5. CASE /\ g # None /\ Removable(r, m) /\ reg' = [reg EXCEPT ![g] = Removal(r, m)]
             /\ Set(t, [out EXCEPT !.lease = r.lastOp + 1]) /\ UNCHANGED dropped
    <2>1. PICK d : d = [out EXCEPT !.lease = r.lastOp + 1]
      OBVIOUS
    <2>2. d.pc = "kill" /\ d.gen = g /\ d.lease = r.lastOp + 1
      BY <1>1, <2>1, CallFacts DEF CallTyped, Fields
    <2>3. g \in 1..gens
      BY <1>1, <1>5, CallFacts DEF None
    <2>4. RegBecomes(g, Started(reg[g], m, "Removing"))
      BY <1>1, <1>5, <2>3, Begun DEF RegBecomes, Removal
    <2>5. \A h, o : Waited(h, o)' => \/ Waited(h, o) /\ ~(h = g /\ r.leases[o] = m)
                                     \/ h = g /\ o = r.lastOp + 1
      BY <1>1, <1>2, <1>5, <2>3, <2>4, StartedWaits DEF Removable
    <2>6. Others(t) /\ call'[t] = d
      BY <1>5, <2>1, SetOthers
    <2>7. \A h, o : Waited(h, o)' => Waited(h, o) \/ Tends(d, h, o)
      BY <2>2, <2>5 DEF Tends, Leased
    <2>8. ASSUME NEW h, NEW o, Waited(h, o)', Waited(h, o), Tends(c, h, o) PROVE Attended(h, o)'
      <3>1. Tends(d, h, o)
        BY <1>3, <2>2, <2>5, <2>8 DEF Tends, Leased
      <3>. QED BY <2>6, <3>1 DEF Attended
    <2>. QED BY <1>1, <1>2, <1>5, <2>6, <2>7, <2>8, WaitStep
  <1>6. CASE UNCHANGED <<reg, dropped>> /\ (g # None => ~Removable(r, m)) /\ Others(t)
    <2>1. \A h, o : Waited(h, o)' => Waited(h, o)
      BY <1>2, <1>6, SameWaits
    <2>2. \A h, o : Waited(h, o) => ~Tends(c, h, o)
      BY <1>3, <1>6
    <2>. QED BY <1>1, <1>2, <1>6, <2>1, <2>2, WaitStep
  <1>. QED BY <1>1, <1>4, <1>5, <1>6, SetOthers DEF RemoveAgent

\* Request t ends the removal that it owns.
LEMMA RemovalEndsWaits ==
  ASSUME ServiceInv, NobodyWaitsForever, NEW t \in Callers, NEW c, c = call[t], c.pc \in {"unlist", "finish"},
         NEW e \in {Entry("Absent", 0), Entry("Failed", c.lease)}, NEW x \in {"Removed", "Failed"},
         reg' = IF c.gen # None /\ Owns(reg[c.gen], c.lease, "Removing")
                THEN [reg EXCEPT ![c.gen] = Ended(reg[c.gen], c.lease, e, x)] ELSE reg,
         Others(t), UNCHANGED <<gens, attaches, dropped>>
  PROVE  NobodyWaitsForever'
  <1>1. \A h, o : Tends(c, h, o) => h = c.gen /\ o = c.lease
    BY DEF Tends
  <1>2. c.pc \in Removing
    BY DEF Removing
  <1>3. CASE c.gen # None /\ Owns(reg[c.gen], c.lease, "Removing")
    <2>1. c.gen \in 1..gens /\ c.lease # 0 /\ c.lease \in 1..reg[c.gen].lastOp
      <3>1. c.lease # 0
        BY <1>3 DEF Owns
      <3>2. CallOK(c) /\ gens \in Nat
        BY CallFacts
      <3>3. c.gen \in 0..gens /\ c.lease \in 1..reg[c.gen].lastOp
        BY <3>1, <3>2 DEF CallOK, GenOK, OpsOK
      <3>. QED BY <1>3, <3>1, <3>2, <3>3 DEF None
    <2>2. PICK g, k : g = c.gen /\ k = c.lease
      OBVIOUS
    <2>3. reg' = [reg EXCEPT ![g] = Ended(reg[g], k, e, x)]
      BY <1>3, <2>2
    <2>4. RegBecomes(g, Ended(reg[g], k, e, x))
      BY <2>1, <2>2, <2>3, Begun DEF RegBecomes
    <2>5. \A h, o : Waited(h, o)' => Waited(h, o) /\ ~(h = g /\ o = k)
      <3>1. /\ e \in {Entry("Ready", 0), Entry("Absent", 0), Entry("Failed", k)}
            /\ x \in {"Ready", "Removed", "Failed"} /\ Owns(reg[g], k, "Removing")
            /\ g \in 1..gens /\ k \in 1..reg[g].lastOp
        BY <1>3, <2>1, <2>2
      <3>2. PICK s : s = Ended(reg[g], k, e, x)
        OBVIOUS
      <3> HIDE <2>3
      <3>. QED BY <2>4, <3>1, EndedWaits
    <2>. QED BY <1>1, <2>2, <2>5, WaitStep
  <1>4. CASE ~(c.gen # None /\ Owns(reg[c.gen], c.lease, "Removing"))
    <2>1. reg' = reg
      BY <1>4
    <2>2. \A h, o : Waited(h, o)' => Waited(h, o)
      BY <2>1, SameWaits
    <2>3. \A h, o : Waited(h, o) => ~Tends(c, h, o)
      BY <1>1, <1>2, <1>4, RemovalOwned
    <2>. QED BY <2>2, <2>3, WaitStep
  <1>. QED BY <1>3, <1>4

\* A removal writes the roster, or fails to: whoever waits is still served.
LEMMA UnlistMemberWaits ==
  ASSUME ServiceInv, NobodyWaitsForever, NEW t \in Callers, UnlistMember(t)
  PROVE  NobodyWaitsForever'
  <1>1. PICK c, d : /\ c = call[t]
                    /\ d = [Call(c.op, "retire", c.slot) EXCEPT !.gen = c.gen, !.lease = c.lease]
    OBVIOUS
  <1>2. c.pc = "unlist" /\ UNCHANGED <<gens, attaches, dropped>>
    BY <1>1 DEF UnlistMember, history
  <1>3. CASE Set(t, d) /\ UNCHANGED reg
    <2>1. d.pc = "retire" /\ d.gen = c.gen /\ d.lease = c.lease
      BY <1>1 DEF Call
    <2>. QED BY <1>1, <1>2, <1>3, <2>1, LeasedWaits DEF Leased
  <1>4. CASE /\ End(t)
             /\ reg' = IF c.gen # None /\ Owns(reg[c.gen], c.lease, "Removing")
                       THEN [reg EXCEPT ![c.gen] = Ended(reg[c.gen], c.lease, Entry("Failed", c.lease), "Failed")]
                       ELSE reg
    BY <1>1, <1>2, <1>4, EndOthers, RemovalEndsWaits
  <1>. QED BY <1>1, <1>3, <1>4 DEF UnlistMember

\* A removal ends its operation: whoever waits is still served.
LEMMA FinishRemoveWaits ==
  ASSUME ServiceInv, NobodyWaitsForever, NEW t \in Callers, FinishRemove(t)
  PROVE  NobodyWaitsForever'
  <1>1. PICK c : c = call[t]
    OBVIOUS
  <1>2. c.pc = "finish" /\ UNCHANGED <<gens, attaches, dropped>> /\ Others(t) /\ c.gen # None
    BY <1>1, SetOthers, CallFacts DEF FinishRemove, history, CallOK, GenOK
  <1>3. reg' = IF c.gen # None /\ Owns(reg[c.gen], c.lease, "Removing")
               THEN [reg EXCEPT ![c.gen] = Ended(reg[c.gen], c.lease, Entry("Absent", 0), "Removed")]
               ELSE reg
    BY <1>1, <1>2 DEF FinishRemove
  <1>. QED BY <1>1, <1>2, <1>3, RemovalEndsWaits

\* A removal goes on in the session that is published by now: whoever waits is still served.
LEMMA RetireMemberWaits ==
  ASSUME ServiceInv, NobodyWaitsForever, NEW t \in Callers, RetireMember(t)
  PROVE  NobodyWaitsForever'
  <1>1. PICK c, g, r, m, out : /\ c = call[t] /\ g = published /\ r = reg[g] /\ m = c.slot
                               /\ out = [c EXCEPT !.pc = "detach", !.gen = g, !.lease = 0]
    OBVIOUS
  <1>2. c.pc = "retire" /\ UNCHANGED <<gens, attaches, dropped>> /\ m \in Slots
    BY <1>1, CallFacts DEF RetireMember, CallTyped
  \* A session that is not published any more is about to be stopped by somebody.
  <1>3. ASSUME NEW h, NEW o, Waited(h, o), Tends(c, h, o), c.gen # g, Others(t) PROVE Attended(h, o)'
    <2>1. c.gen = h
      BY <1>3 DEF Tends
    <2>2. PICK u \in Callers : call[u].gen = h /\ call[u].pc = "stop"
      BY <1>1, <1>3, <2>1, Unpublished
    <2>3. u # t /\ call'[u] = call[u]
      BY <1>1, <1>2, <1>3, <2>2 DEF Others
    <2>. QED BY <2>2, <2>3 DEF Attended, Tends
  <1>4. CASE g = c.gen /\ g # None
    <2>1. PICK d : d = [c EXCEPT !.pc = "detach"]
      OBVIOUS
    <2>2. Set(t, d) /\ UNCHANGED reg
      BY <1>1, <1>4, <2>1 DEF RetireMember
    <2>3. d.pc = "detach" /\ d.gen = c.gen /\ d.lease = c.lease
      BY <1>1, <2>1, CallFacts DEF CallTyped, Fields
    <2>. QED BY <1>1, <1>2, <2>2, <2>3, LeasedWaits DEF Leased
  <1>5. CASE c.gen # g /\ UNCHANGED reg /\ Others(t)
    <2>1. \A h, o : Waited(h, o)' => Waited(h, o)
      BY <1>2, <1>5, SameWaits
    <2>. QED BY <1>1, <1>2, <1>3, <1>5, <2>1, WaitStep
  <1>6. CASE /\ g # None /\ c.gen # g /\ Removable(r, m) /\ reg' = [reg EXCEPT ![g] = Removal(r, m)]
             /\ Set(t, [out EXCEPT !.lease = r.lastOp + 1])
    <2>1. PICK d : d = [out EXCEPT !.lease = r.lastOp + 1]
      OBVIOUS
    <2>2. d.pc = "detach" /\ d.gen = g /\ d.lease = r.lastOp + 1
      BY <1>1, <2>1, CallFacts DEF CallTyped, Fields
    <2>3. g \in 1..gens
      BY <1>1, <1>6, CallFacts DEF None
    <2>4. RegBecomes(g, Started(reg[g], m, "Removing"))
      BY <1>1, <1>6, <2>3, Begun DEF RegBecomes, Removal
    <2>5. \A h, o : Waited(h, o)' => Waited(h, o) \/ (h = g /\ o = r.lastOp + 1)
      BY <1>1, <1>2, <1>6, <2>3, <2>4, StartedWaits DEF Removable
    <2>6. Others(t) /\ call'[t] = d
      BY <1>6, <2>1, SetOthers
    <2>7. \A h, o : Waited(h, o)' => Waited(h, o) \/ Tends(d, h, o)
      BY <2>2, <2>5 DEF Tends, Leased
    <2>. QED BY <1>1, <1>2, <1>3, <1>6, <2>6, <2>7, WaitStep
  <1>7. CASE g = None /\ c.gen = None
    <2>1. Others(t) /\ UNCHANGED reg
      BY <1>1, <1>7, SetOthers DEF RetireMember
    <2>2. \A h, o : Waited(h, o)' => Waited(h, o)
      BY <1>2, <2>1, SameWaits
    <2>3. \A h, o : Waited(h, o) => h # None
      BY WaitedOwns DEF None
    <2>4. \A h, o : Waited(h, o) => ~Tends(c, h, o)
      BY <1>7, <2>3 DEF Tends
    <2>. QED BY <1>1, <1>2, <2>1, <2>2, <2>4, WaitStep
  <1>. QED BY <1>1, <1>4, <1>5, <1>6, <1>7, SetOthers DEF RetireMember

\* An attach task moves on, or ends when its operation has been answered.
LEMMA AttachWaits ==
  ASSUME ServiceInv, NobodyWaitsForever, NEW a \in attaches, UNCHANGED <<call, dropped>>,
         \A g, o : Waited(g, o)' => Waited(g, o),
         \A b \in attaches : b # a => b \in attaches',
         \/ \E b \in attaches' : b.gen = a.gen /\ b.op = a.op
         \/ ~Waited(a.gen, a.op)'
  PROVE  NobodyWaitsForever'
  <1> SUFFICES ASSUME NEW g, NEW o, Waited(g, o)' PROVE Attended(g, o)'
    BY WaitersAttendedNext
  <1>1. Attended(g, o)
    BY WaitersAttended
  <1>2. CASE \E b \in attaches : b.gen = g /\ b.op = o
    <2>1. PICK b \in attaches : b.gen = g /\ b.op = o
      BY <1>2
    <2>2. \E e \in attaches' : e.gen = g /\ e.op = o
      BY <2>1
    <2>. QED BY <2>2 DEF Attended
  <1>3. CASE <<g, o>> \in dropped \/ \E t \in Callers : Tends(call[t], g, o)
    BY <1>3 DEF Attended
  <1>. QED BY <1>1, <1>2, <1>3 DEF Attended

\* Nobody waits for the operation of a stale attach.
LEMMA AnsweredWaits ==
  ASSUME ServiceInv, NEW a \in attaches, ~Owns(reg[a.gen], a.op, "Attaching"), UNCHANGED <<reg, gens>>
  PROVE  ~Waited(a.gen, a.op)'
  BY StaleAttach DEF Waited

\* The task of attach a becomes b.
LEMMA StepWaits ==
  ASSUME ServiceInv, NEW a \in attaches, NEW pc, Step(a, At(a, pc))
  PROVE  /\ \A b \in attaches : b # a => b \in attaches'
         /\ \E b \in attaches' : b.gen = a.gen /\ b.op = a.op
  <1>1. At(a, pc).gen = a.gen /\ At(a, pc).op = a.op
    BY StaleAttach DEF At, AttachOK
  <1>. QED BY <1>1 DEF Step

\* An attach task ends its operation.
LEMMA AttachEndsWaits ==
  ASSUME ServiceInv, gens' = gens, NEW a \in attaches, Owns(reg[a.gen], a.op, "Attaching"),
         NEW e \in {Entry("Ready", 0), Entry("Failed", a.op)}, NEW x \in {"Ready", "Failed"},
         RegBecomes(a.gen, Ended(reg[a.gen], a.op, e, x))
  PROVE  \A g, o : Waited(g, o)' => Waited(g, o) /\ ~(g = a.gen /\ o = a.op)
  <1>1. PICK g, k : g = a.gen /\ k = a.op
    OBVIOUS
  <1>2. /\ e \in {Entry("Ready", 0), Entry("Absent", 0), Entry("Failed", k)}
        /\ x \in {"Ready", "Removed", "Failed"} /\ Owns(reg[g], k, "Attaching")
        /\ g \in 1..gens /\ k \in 1..reg[g].lastOp
        /\ RegBecomes(g, Ended(reg[g], k, e, x))
    BY <1>1, StaleAttach
  <1>3. \A h, o : Waited(h, o)' => Waited(h, o) /\ ~(h = g /\ o = k)
    BY <1>2, EndedWaits
  <1>. QED BY <1>1, <1>3

\* commit_ready of an attach: whoever waits is still served.
LEMMA AttachCommitWaits ==
  ASSUME ServiceInv, NobodyWaitsForever, NEW a \in attaches, AttachCommit(a)
  PROVE  NobodyWaitsForever'
  <1>1. UNCHANGED <<gens, call, dropped>>
    BY DEF AttachCommit, history
  <1>2. /\ \A b \in attaches : b # a => b \in attaches'
        /\ \E b \in attaches' : b.gen = a.gen /\ b.op = a.op
    BY StepWaits DEF AttachCommit
  <1>3. CASE Owns(reg[a.gen], a.op, "Attaching")
    <2>1. reg' = [reg EXCEPT ![a.gen] = Ended(reg[a.gen], a.op, Entry("Ready", 0), "Ready")]
      BY <1>3 DEF AttachCommit
    <2>2. RegBecomes(a.gen, Ended(reg[a.gen], a.op, Entry("Ready", 0), "Ready"))
      BY <2>1, StaleAttach, Begun DEF RegBecomes
    <2>3. \A g, o : Waited(g, o)' => Waited(g, o)
      BY <1>1, <1>3, <2>2, AttachEndsWaits
    <2>. QED BY <1>1, <1>2, <2>3, AttachWaits
  <1>4. CASE ~Owns(reg[a.gen], a.op, "Attaching")
    <2>1. reg' = reg
      BY <1>4 DEF AttachCommit
    <2>2. \A g, o : Waited(g, o)' => Waited(g, o)
      BY <1>1, <2>1, SameWaits
    <2>. QED BY <1>1, <1>2, <2>2, AttachWaits
  <1>. QED BY <1>3, <1>4

\* commit_failed of an attach: whoever waits is still served.
LEMMA AttachReportWaits ==
  ASSUME ServiceInv, NobodyWaitsForever, NEW a \in attaches, AttachReport(a)
  PROVE  NobodyWaitsForever'
  <1>1. UNCHANGED <<gens, call, dropped>> /\ attaches' = attaches \ {a}
    BY DEF AttachReport, history
  <1>2. CASE Owns(reg[a.gen], a.op, "Attaching")
    <2>1. reg' = [reg EXCEPT ![a.gen] = Ended(reg[a.gen], a.op, Entry("Failed", a.op), "Failed")]
      BY <1>2 DEF AttachReport
    <2>2. RegBecomes(a.gen, Ended(reg[a.gen], a.op, Entry("Failed", a.op), "Failed"))
      BY <2>1, StaleAttach, Begun DEF RegBecomes
    <2>3. \A g, o : Waited(g, o)' => Waited(g, o) /\ ~(g = a.gen /\ o = a.op)
      BY <1>1, <1>2, <2>2, AttachEndsWaits
    <2>. QED BY <1>1, <2>3, AttachWaits
  <1>3. CASE ~Owns(reg[a.gen], a.op, "Attaching")
    <2>1. reg' = reg
      BY <1>3 DEF AttachReport
    <2>2. \A g, o : Waited(g, o)' => Waited(g, o)
      BY <1>1, <2>1, SameWaits
    <2>. QED BY <1>1, <1>3, <2>1, <2>2, AnsweredWaits, AttachWaits
  <1>. QED BY <1>2, <1>3

\* The steps of an attach task that do not touch its registry.
LEMMA AttachQuietWaits ==
  ASSUME ServiceInv, NobodyWaitsForever, NEW a \in attaches,
         \/ AttachStart(a) \/ AttachWarm(a) \/ AttachCheck(a) \/ AttachRegister(a)
         \/ AttachAnnounce(a) \/ AttachClean(a) \/ AttachFailed(a)
  PROVE  NobodyWaitsForever'
  <1>1. UNCHANGED <<reg, gens, call, dropped>>
    BY DEF AttachStart, AttachWarm, AttachCheck, AttachRegister, AttachAnnounce, AttachClean, AttachFailed,
           sessionVars, history
  <1>2. \A g, o : Waited(g, o)' => Waited(g, o)
    BY <1>1, SameWaits
  <1>3. CASE \E pc : Step(a, At(a, pc))
    BY <1>1, <1>2, <1>3, StepWaits, AttachWaits
  <1>4. CASE attaches' = attaches \ {a} /\ a.pc \in {"announce", "clean"}
    <2>1. reg[a.gen].outcome[a.op] # "Pending"
      BY <1>4, StaleAttach DEF AttachOK
    <2>2. ~Waited(a.gen, a.op)'
      BY <1>1, <2>1 DEF Waited
    <2>. QED BY <1>1, <1>2, <1>4, <2>2, AttachWaits
  <1>5. CASE Step(a, [a EXCEPT !.pc = "commit", !.fresh = TRUE])
    <2>1. PICK b : b = [a EXCEPT !.pc = "commit", !.fresh = TRUE]
      OBVIOUS
    <2>2. b.gen = a.gen /\ b.op = a.op
      BY <2>1, StaleAttach DEF AttachOK
    <2>3. attaches' = (attaches \ {a}) \cup {b}
      BY <1>5, <2>1 DEF Step
    <2>. QED BY <1>1, <1>2, <2>2, <2>3, AttachWaits
  <1>. QED BY <1>3, <1>4, <1>5
           DEF AttachStart, AttachWarm, AttachCheck, AttachRegister, AttachAnnounce, AttachClean, AttachFailed

\* Any step of an ensure: whoever waits is still served.
LEMMA EnsureStepWaits ==
  ASSUME ServiceInv, NobodyWaitsForever, NEW t \in Callers, EnsureStep(t)
  PROVE  NobodyWaitsForever'
  BY LookUpMutexWaits, LoadTeamWaits, FindSessionWaits, StartSessionWaits, SettleWaits, ReserveStoppedWaits,
     SpawnAttachesWaits, AbortStartWaits, SpawnEventLoopsWaits, PublishSessionWaits, RecoverWaits, JobWaits,
     SeedReadyWaits, ReserveMemberWaits DEF EnsureStep

\* Any step of a change of members: whoever waits is still served.
LEMMA MemberStepWaits ==
  ASSUME ServiceInv, NobodyWaitsForever, NEW t \in Callers, MemberStep(t)
  PROVE  NobodyWaitsForever'
  BY EditRosterWaits, ProvisionAgentWaits, PersistAgentsWaits, AdmitAgentWaits, WelcomeAgentWaits,
     WriteLastMessageWaits, RemoveAgentWaits, JoinRemovalWaits, KillMemberWaits, ReloadRosterWaits,
     UnlistMemberWaits, RetireMemberWaits, DetachMemberWaits, FinishRemoveWaits, DeleteConversationWaits
     DEF MemberStep

\* Any step of a stop: whoever waits is still served.
LEMMA StopStepWaits ==
  ASSUME ServiceInv, NobodyWaitsForever, NEW t \in Callers, StopStep(t)
  PROVE  NobodyWaitsForever'
  BY UnpublishWaits, StopSessionWaits, KillAllWaits, CloseTeamWaits DEF StopStep

\* Every step of the service serves those who wait.
LEMMA WaitsKept == ServiceInv /\ NobodyWaitsForever /\ [ServiceNext]_serviceVars => NobodyWaitsForever'
  <1> SUFFICES ASSUME ServiceInv, NobodyWaitsForever, ServiceNext \/ UNCHANGED serviceVars
               PROVE  NobodyWaitsForever'
    OBVIOUS
  <1>1. CASE \E t \in Callers : Begin(t) \/ CheckOwned(t) \/ EnsureStep(t) \/ MemberStep(t) \/ StopStep(t)
    BY <1>1, BeginWaits, CheckOwnedWaits, EnsureStepWaits, MemberStepWaits, StopStepWaits
  <1>2. CASE \E a \in attaches : AttachStep(a)
    BY <1>2, AttachQuietWaits, AttachCommitWaits, AttachReportWaits DEF AttachStep
  <1>3. CASE (\E m \in Slots : ProvisionInitial(m)) \/ CreateTeam \/ CreateFails \/ UNCHANGED serviceVars
    <2>1. UNCHANGED <<reg, gens, call, attaches, dropped>>
      BY <1>3 DEF ProvisionInitial, CreateTeam, CreateFails, serviceVars, sessionVars, history
    <2>. QED BY <2>1 DEF NobodyWaitsForever
  <1>. QED BY <1>1, <1>2, <1>3 DEF ServiceNext

\* Whoever waits for an attach or a removal waits for somebody that works on it,
\* whose session is about to be stopped, or who has dropped its lease by an
\* early return.
THEOREM WaitersAreAnswered == ServiceSpec => []NobodyWaitsForever
  <1>1. ServiceInit => NobodyWaitsForever
    BY DEF ServiceInit, NobodyWaitsForever
  <1>. QED BY <1>1, WaitsKept, ServiceInvariant, PTL DEF ServiceSpec

-----------------------------------------------------------------------------
(* The registry of every session is one of MemberRuntime                    *)

\* What seed_ready does, in MemberRuntime.
LEMMA SeedImplements ==
  ASSUME ServiceInv, NEW g \in Generations, NEW m \in Slots, Untouched(reg[g]),
         reg[g].entry[m].kind = "Absent", reg'[g] = Seeded(reg[g], m)
  PROVE  Reg(g)!Next
  <1>1. RegOK(reg[g]) /\ ~reg[g].stopped
    BY DEF ServiceInv, SessionsOK, Untouched
  <1>2. reg[g] \in RegType(reg[g].lastOp)
    BY <1>1 DEF RegOK
  <1>3. /\ reg'[g].entry = [reg[g].entry EXCEPT ![m] = Entry("Ready", 0)]
        /\ reg'[g].lastOp = reg[g].lastOp /\ reg'[g].leases = reg[g].leases
        /\ reg'[g].outcome = reg[g].outcome /\ reg'[g].stopped = reg[g].stopped
    BY <1>2 DEF Seeded, RegType
  <1>4. Reg(g)!SeedReady(m)
    BY <1>1, <1>3 DEF Reg!SeedReady, Reg!Entry, Entry
  <1>. QED BY <1>4 DEF Reg!Next

\* A new operation; S are the ones that it answers.
LEMMA StartImplements ==
  ASSUME ServiceInv, NEW g \in Generations, NEW m \in Slots, NEW kind,
         reg[g].lastOp < MaxOps, reg'[g] = Started(reg[g], m, kind),
         NEW S, NEW x, S # {} => x = "Removed", \A o : o \in S <=> reg[g].entry[m] = Entry("Attaching", o)
  PROVE  Reg(g)!Start(m, kind) /\ Reg(g)!Answer(S, x) /\ reg'[g].stopped = reg[g].stopped
  <1>1. PICK n \in Nat : n = reg[g].lastOp
    BY RegParts DEF ServiceInv, SessionsOK
  <1>2. /\ reg'[g].lastOp = n + 1 /\ reg'[g].stopped = reg[g].stopped
        /\ reg'[g].entry = [reg[g].entry EXCEPT ![m] = Entry(kind, n + 1)]
        /\ reg'[g].leases = [o \in 1..(n + 1) |-> IF o = n + 1 THEN m ELSE reg[g].leases[o]]
        /\ reg'[g].outcome = [o \in 1..(n + 1) |-> IF o = n + 1 THEN "Pending"
                                ELSE IF reg[g].entry[m] = Entry("Attaching", o) THEN "Removed"
                                     ELSE reg[g].outcome[o]]
    BY <1>1 DEF Started
  <1>3. Reg(g)!Start(m, kind)
    BY <1>1, <1>2 DEF Reg!Start, Reg!Entry, Entry
  <1>4. n + 1 \notin S
    <2>1. \A o \in Nat : reg[g].entry[m] = Entry("Attaching", o) => o \in 1..n
      <3>1. RegOK(reg[g])
        BY DEF ServiceInv, SessionsOK
      <3> SUFFICES ASSUME NEW o \in Nat, reg[g].entry[m] = Entry("Attaching", o) PROVE o \in 1..n
        OBVIOUS
      <3>2. reg[g].entry[m].op = o /\ reg[g].entry[m].kind = "Attaching"
        BY DEF Entry
      <3>. QED BY <1>1, <3>1, <3>2 DEF RegOK
    <2>. QED BY <1>1, <2>1
  <1>5. \A o \in 1..(n + 1) :
           (IF o = n + 1 THEN "Pending" ELSE IF reg[g].entry[m] = Entry("Attaching", o) THEN "Removed"
                                             ELSE reg[g].outcome[o])
         = (IF o \in S THEN x ELSE IF o <= n THEN reg[g].outcome[o] ELSE "Pending")
    BY <1>1, <1>4
  <1>6. reg'[g].outcome = [o \in 1..(n + 1) |->
                             IF o \in S THEN x ELSE IF o <= n THEN reg[g].outcome[o] ELSE "Pending"]
    BY <1>2, <1>5
  <1>7. Reg(g)!Answer(S, x)
    BY <1>1, <1>2, <1>6 DEF Reg!Answer
  <1>. QED BY <1>2, <1>3, <1>7

\* A new attach is begin_attach of the registry.
LEMMA AttachImplements ==
  ASSUME ServiceInv, NEW g \in Generations, NEW m \in Slots, ~reg[g].stopped,
         reg[g].entry[m].kind \in {"Absent", "Failed", "Ready"}, reg[g].lastOp < MaxOps,
         reg'[g] = Started(reg[g], m, "Attaching")
  PROVE  Reg(g)!Next
  <1>1. \A o : o \in {} <=> reg[g].entry[m] = Entry("Attaching", o)
    BY DEF Entry
  <1>2. Reg(g)!Start(m, "Attaching") /\ Reg(g)!Answer({}, "Ready") /\ reg'[g].stopped = reg[g].stopped
    BY <1>1, StartImplements
  <1>3. Reg(g)!ReserveAttach(m, TRUE) \/ Reg(g)!ReserveRepair(m)
    BY <1>2 DEF Reg!ReserveAttach, Reg!ReserveRepair
  <1>4. TRUE \in BOOLEAN
    OBVIOUS
  <1>. QED BY <1>3, <1>4, Zenon DEF Reg!Next

\* A new removal is begin_remove of the registry.
LEMMA RemoveImplements ==
  ASSUME ServiceInv, NEW g \in Generations, NEW m \in Slots, Removable(reg[g], m), reg[g].lastOp < MaxOps,
         reg'[g] = Removal(reg[g], m)
  PROVE  Reg(g)!Next
  <1>1. PICK S : S = IF reg[g].entry[m].kind = "Attaching" THEN {reg[g].entry[m].op} ELSE {}
    OBVIOUS
  <1>2. reg[g].entry[m] \in [kind : Kinds, op : Nat]
    BY RegParts DEF ServiceInv, SessionsOK
  <1>3. \A o : o \in S <=> reg[g].entry[m] = Entry("Attaching", o)
    BY <1>1, <1>2 DEF Entry
  <1>4. Reg(g)!Start(m, "Removing") /\ Reg(g)!Answer(S, "Removed") /\ reg'[g].stopped = reg[g].stopped
    BY <1>3, StartImplements DEF Removal
  <1>5. Reg(g)!BeginRemove(m)
    BY <1>1, <1>4 DEF Reg!BeginRemove, Reg!CancelledBy, Removable
  <1>. QED BY <1>5 DEF Reg!Next

\* The end of an operation is a commit of the registry.
LEMMA EndImplements ==
  ASSUME ServiceInv, NEW g \in Generations, NEW o \in 1..reg[g].lastOp,
         NEW kind, Owns(reg[g], o, kind), NEW e, NEW x,
         reg'[g] = Ended(reg[g], o, e, x),
         \/ kind = "Attaching" /\ ((e = Entry("Ready", 0) /\ x = "Ready") \/ (e = Entry("Failed", o) /\ x = "Failed"))
         \/ kind = "Removing" /\ ((e = Entry("Absent", 0) /\ x = "Removed") \/ (e = Entry("Failed", o) /\ x = "Failed"))
  PROVE  Reg(g)!Next
  <1>1. PICK n \in Nat : n = reg[g].lastOp
    BY RegParts DEF ServiceInv, SessionsOK
  <1>2. reg[g] \in RegType(n) /\ reg[g].leases \in [1..n -> Slots] /\ reg[g].outcome \in [1..n -> Outcomes]
    BY <1>1, RegParts DEF ServiceInv, SessionsOK, RegOK
  <1>3. /\ reg'[g].lastOp = n /\ reg'[g].leases = reg[g].leases /\ reg'[g].stopped = reg[g].stopped
        /\ reg'[g].entry = [reg[g].entry EXCEPT ![reg[g].leases[o]] = e]
        /\ reg'[g].outcome = [reg[g].outcome EXCEPT ![o] = x]
    BY <1>1, <1>2 DEF Ended, RegType
  <1>4. reg'[g].outcome = [k \in 1..n |->
                             IF k \in {o} THEN x ELSE IF k <= n THEN reg[g].outcome[k] ELSE "Pending"]
    BY <1>1, <1>2, <1>3, SMTT(30)
  <1>5. Reg(g)!Answer({o}, x)
    BY <1>1, <1>3, <1>4 DEF Reg!Answer
  <1>6. Reg(g)!Holds(o, kind) /\ ~reg[g].stopped
    BY DEF Owns, Reg!Holds, Entry
  <1>7. Reg(g)!CommitReady(o) \/ Reg(g)!CommitFailed(o) \/ Reg(g)!FinishRemove(o) \/ Reg(g)!RestoreAfterRemove(o)
    BY <1>1, <1>3, <1>5, <1>6
       DEF Reg!CommitReady, Reg!CommitFailed, Reg!FinishRemove, Reg!RestoreAfterRemove, Reg!Entry, Entry
  <1>8. o \in DOMAIN reg[g].leases
    BY <1>1, <1>2
  <1>. QED BY <1>7, <1>8 DEF Reg!Next

\* A session that is stopped stops its registry.
LEMMA StopImplements ==
  ASSUME ServiceInv, NEW g \in Generations, ~reg[g].stopped, reg'[g] = StoppedReg(reg[g])
  PROVE  Reg(g)!Next
  <1>1. PICK n \in Nat : n = reg[g].lastOp
    BY RegParts DEF ServiceInv, SessionsOK
  <1>2. reg[g] \in RegType(n)
    BY <1>1 DEF ServiceInv, SessionsOK, RegOK
  <1>3. PICK S : S = {reg[g].entry[m].op : m \in {a \in Slots : reg[g].entry[a].kind \in {"Attaching", "Removing"}}}
    OBVIOUS
  <1>4. /\ reg'[g].lastOp = n /\ reg'[g].leases = reg[g].leases /\ reg'[g].stopped = TRUE
        /\ reg'[g].entry = [m \in Slots |-> Entry("Absent", 0)]
        /\ reg'[g].outcome = [o \in 1..n |->
              IF \E m \in Slots : reg[g].entry[m].op = o /\ reg[g].entry[m].kind \in {"Attaching", "Removing"}
              THEN "SessionStopped" ELSE reg[g].outcome[o]]
    BY <1>1, <1>2 DEF StoppedReg, RegType, Registry
  <1>5. \A o \in 1..n :
           (IF \E m \in Slots : reg[g].entry[m].op = o /\ reg[g].entry[m].kind \in {"Attaching", "Removing"}
            THEN "SessionStopped" ELSE reg[g].outcome[o])
         = (IF o \in S THEN "SessionStopped" ELSE IF o <= n THEN reg[g].outcome[o] ELSE "Pending")
    BY <1>1, <1>3
  <1>6. reg'[g].outcome = [o \in 1..n |->
              IF o \in S THEN "SessionStopped" ELSE IF o <= n THEN reg[g].outcome[o] ELSE "Pending"]
    BY <1>4, <1>5
  <1>7. Reg(g)!Answer(S, "SessionStopped")
    BY <1>1, <1>4, <1>6 DEF Reg!Answer
  <1>8. Reg(g)!Stop
    BY <1>1, <1>3, <1>4, <1>7 DEF Reg!Stop, Reg!Entry, Entry
  <1>. QED BY <1>8 DEF Reg!Next

\* What RegistriesImplement says of a step.
RegistryStep == \A g \in Generations : Reg(g)!Next \/ UNCHANGED reg[g]

\* Only the registry of session g has changed.
LEMMA OneRegistry ==
  ASSUME NEW g, NEW s, RegBecomes(g, s), g \in Generations => Reg(g)!Next
  PROVE  RegistryStep
  BY DEF RegBecomes, RegistryStep

\* A member of a new session is marked ready: the registries take steps of theirs.
LEMMA SeedReadyImplements ==
  ASSUME ServiceInv, NEW t \in Callers, NEW m \in Slots, SeedReady(t, m)
  PROVE  RegistryStep
  <1>1. PICK c, g : c = call[t] /\ g = c.gen
    OBVIOUS
  <1>2. c.pc = "seed" /\ m \in c.todo /\ reg' = [reg EXCEPT ![g] = Seeded(reg[g], m)]
    BY <1>1 DEF SeedReady
  <1>3. CallOK(c) /\ gens \in Nat
    BY <1>1, CallFacts
  <1>4. g \in 1..gens /\ Untouched(reg[g]) /\ reg[g].entry[m].kind = "Absent"
    BY <1>1, <1>2, <1>3 DEF CallOK, GenOK, Starting, None
  <1>5. RegBecomes(g, Seeded(reg[g], m)) /\ g \in Generations
    BY <1>2, <1>4, Begun DEF RegBecomes
  <1>6. Reg(g)!Next
    BY <1>4, <1>5, SeedImplements DEF RegBecomes
  <1>. QED BY <1>5, <1>6, OneRegistry

\* The attach of a member is reserved or joined: the registries take steps of theirs.
LEMMA ReserveMemberImplements ==
  ASSUME ServiceInv, NEW t \in Callers, NEW m \in Slots, ReserveMember(t, m)
  PROVE  RegistryStep
  <1>1. PICK c, g : c = call[t] /\ g = c.gen
    OBVIOUS
  <1>2. CASE NeedsAttach(reg[g], m)
    <2>1. /\ c.pc = "reserve" /\ ~reg[g].stopped /\ reg[g].lastOp < MaxOps
          /\ reg' = [reg EXCEPT ![g] = Started(reg[g], m, "Attaching")]
      BY <1>1, <1>2 DEF ReserveMember
    <2>2. g \in 1..gens
      BY <1>1, <2>1, CallFacts DEF CallOK, GenOK, None
    <2>3. RegBecomes(g, Started(reg[g], m, "Attaching")) /\ g \in Generations
      BY <2>1, <2>2, Begun DEF RegBecomes
    <2>4. reg[g].entry[m].kind \in {"Absent", "Failed", "Ready"}
      BY <1>2 DEF NeedsAttach
    <2>5. Reg(g)!Next
      BY <2>1, <2>3, <2>4, AttachImplements DEF RegBecomes
    <2>. QED BY <2>3, <2>5, OneRegistry
  <1>3. CASE ~NeedsAttach(reg[g], m)
    BY <1>1, <1>3 DEF ReserveMember, RegistryStep
  <1>. QED BY <1>2, <1>3

\* A new member is admitted to the published session: the registries take steps of theirs.
LEMMA AdmitAgentImplements ==
  ASSUME ServiceInv, NEW t \in Callers, AdmitAgent(t)
  PROVE  RegistryStep
  <1>1. PICK g, m : g = published /\ m = call[t].slot
    OBVIOUS
  <1>2. m \in Slots /\ g \in 0..gens /\ gens \in Nat
    BY <1>1, CallFacts DEF CallTyped
  <1>3. CASE g # None /\ ~reg[g].stopped /\ reg[g].entry[m].kind = "Absent"
    <2>1. reg[g].lastOp < MaxOps /\ reg' = [reg EXCEPT ![g] = Started(reg[g], m, "Attaching")]
      BY <1>1, <1>3 DEF AdmitAgent
    <2>2. g \in 1..gens
      BY <1>2, <1>3 DEF None
    <2>3. RegBecomes(g, Started(reg[g], m, "Attaching")) /\ g \in Generations
      BY <2>1, <2>2, Begun DEF RegBecomes
    <2>4. Reg(g)!Next
      BY <1>2, <1>3, <2>1, <2>3, AttachImplements DEF RegBecomes
    <2>. QED BY <2>3, <2>4, OneRegistry
  <1>4. CASE ~(g # None /\ ~reg[g].stopped /\ reg[g].entry[m].kind = "Absent")
    BY <1>1, <1>4 DEF AdmitAgent, RegistryStep
  <1>. QED BY <1>3, <1>4

\* RemoveAgent and RetireMember begin a removal in the published session.
LEMMA RemovalImplements ==
  ASSUME ServiceInv, NEW m \in Slots, NEW g, g = published, g # None, Removable(reg[g], m), reg[g].lastOp < MaxOps,
         reg' = [reg EXCEPT ![g] = Removal(reg[g], m)]
  PROVE  RegistryStep
  <1>1. g \in 1..gens
    BY DEF ServiceInv, SessionsOK, None
  <1>2. RegBecomes(g, Removal(reg[g], m)) /\ g \in Generations
    BY <1>1, Begun DEF RegBecomes
  <1>3. Reg(g)!Next
    BY <1>2, RemoveImplements DEF RegBecomes
  <1>. QED BY <1>2, <1>3, OneRegistry

\* A removal begins or is joined: the registries take steps of theirs.
LEMMA RemoveAgentImplements ==
  ASSUME ServiceInv, NEW t \in Callers, RemoveAgent(t)
  PROVE  RegistryStep
  <1>1. PICK g, m : g = published /\ m = call[t].slot
    OBVIOUS
  <1>2. m \in Slots
    BY <1>1, CallFacts DEF CallTyped
  <1>3. \/ reg' = reg
        \/ /\ g # None /\ Removable(reg[g], m) /\ reg[g].lastOp < MaxOps
           /\ reg' = [reg EXCEPT ![g] = Removal(reg[g], m)]
    BY <1>1 DEF RemoveAgent
  <1>. QED BY <1>1, <1>2, <1>3, RemovalImplements DEF RegistryStep

\* A removal goes on in the session that is published by now: the registries take steps of theirs.
LEMMA RetireMemberImplements ==
  ASSUME ServiceInv, NEW t \in Callers, RetireMember(t)
  PROVE  RegistryStep
  <1>1. PICK g, m : g = published /\ m = call[t].slot
    OBVIOUS
  <1>2. m \in Slots
    BY <1>1, CallFacts DEF CallTyped
  <1>3. \/ reg' = reg
        \/ /\ g # None /\ Removable(reg[g], m) /\ reg[g].lastOp < MaxOps
           /\ reg' = [reg EXCEPT ![g] = Removal(reg[g], m)]
    BY <1>1 DEF RetireMember
  <1>. QED BY <1>1, <1>2, <1>3, RemovalImplements DEF RegistryStep

\* Request t ends the removal that it owns.
LEMMA RemovalEndImplements ==
  ASSUME ServiceInv, NEW t \in Callers, NEW c, c = call[t], NEW e, NEW x,
         c.gen # None, Owns(reg[c.gen], c.lease, "Removing"),
         reg' = [reg EXCEPT ![c.gen] = Ended(reg[c.gen], c.lease, e, x)],
         (e = Entry("Absent", 0) /\ x = "Removed") \/ (e = Entry("Failed", c.lease) /\ x = "Failed")
  PROVE  RegistryStep
  <1>1. PICK g, o : g = c.gen /\ o = c.lease
    OBVIOUS
  <1>2. CallOK(c) /\ gens \in Nat /\ c.lease # 0
    BY CallFacts DEF Owns
  <1>3. g \in 1..gens /\ o \in 1..reg[g].lastOp
    BY <1>1, <1>2 DEF CallOK, GenOK, OpsOK, None
  <1>4. RegBecomes(g, Ended(reg[g], o, e, x)) /\ g \in Generations
    BY <1>1, <1>3, Begun DEF RegBecomes
  <1>5. reg'[g] = Ended(reg[g], o, e, x)
    BY <1>4 DEF RegBecomes
  <1>6. /\ Owns(reg[g], o, "Removing")
        /\ (e = Entry("Absent", 0) /\ x = "Removed") \/ (e = Entry("Failed", o) /\ x = "Failed")
    BY <1>1
  <1>7. Reg(g)!Next
    <2> HIDE <1>1, <1>4
    <2>. QED BY <1>3, <1>4, <1>5, <1>6, EndImplements
  <1>. QED BY <1>4, <1>7, OneRegistry

\* A removal writes the roster, or fails to: the registries take steps of theirs.
LEMMA UnlistMemberImplements ==
  ASSUME ServiceInv, NEW t \in Callers, UnlistMember(t)
  PROVE  RegistryStep
  <1>1. PICK c : c = call[t]
    OBVIOUS
  <1>2. \/ reg' = reg
        \/ /\ c.gen # None /\ Owns(reg[c.gen], c.lease, "Removing")
           /\ reg' = [reg EXCEPT ![c.gen] = Ended(reg[c.gen], c.lease, Entry("Failed", c.lease), "Failed")]
    BY <1>1 DEF UnlistMember
  <1>3. CASE reg' = reg
    BY <1>3 DEF RegistryStep
  <1>4. CASE reg' # reg
    <2>1. PICK e, x : e = Entry("Failed", c.lease) /\ x = "Failed"
      OBVIOUS
    <2>2. /\ c.gen # None /\ Owns(reg[c.gen], c.lease, "Removing")
          /\ reg' = [reg EXCEPT ![c.gen] = Ended(reg[c.gen], c.lease, e, x)]
      BY <1>2, <1>4, <2>1
    <2>. QED BY <1>1, <2>1, <2>2, RemovalEndImplements
  <1>. QED BY <1>3, <1>4

\* A removal ends its operation: the registries take steps of theirs.
LEMMA FinishRemoveImplements ==
  ASSUME ServiceInv, NEW t \in Callers, FinishRemove(t)
  PROVE  RegistryStep
  <1>1. PICK c : c = call[t]
    OBVIOUS
  <1>2. /\ c.gen # None
        /\ \/ reg' = reg
           \/ /\ Owns(reg[c.gen], c.lease, "Removing")
              /\ reg' = [reg EXCEPT ![c.gen] = Ended(reg[c.gen], c.lease, Entry("Absent", 0), "Removed")]
    BY <1>1, CallFacts DEF FinishRemove, CallOK, GenOK
  <1>3. CASE reg' = reg
    BY <1>3 DEF RegistryStep
  <1>4. CASE reg' # reg
    <2>1. PICK e, x : e = Entry("Absent", 0) /\ x = "Removed"
      OBVIOUS
    <2>2. /\ c.gen # None /\ Owns(reg[c.gen], c.lease, "Removing")
          /\ reg' = [reg EXCEPT ![c.gen] = Ended(reg[c.gen], c.lease, e, x)]
      BY <1>2, <1>4, <2>1
    <2>. QED BY <1>1, <2>1, <2>2, RemovalEndImplements
  <1>. QED BY <1>3, <1>4

\* An attach task ends its operation.
LEMMA AttachEndImplements ==
  ASSUME ServiceInv, NEW a \in attaches, Owns(reg[a.gen], a.op, "Attaching"), NEW e, NEW x,
         reg' = [reg EXCEPT ![a.gen] = Ended(reg[a.gen], a.op, e, x)],
         (e = Entry("Ready", 0) /\ x = "Ready") \/ (e = Entry("Failed", a.op) /\ x = "Failed")
  PROVE  RegistryStep
  <1>1. PICK g, o : g = a.gen /\ o = a.op
    OBVIOUS
  <1>2. g \in 1..gens /\ o \in 1..reg[g].lastOp
    BY <1>1, StaleAttach
  <1>3. RegBecomes(g, Ended(reg[g], o, e, x)) /\ g \in Generations
    BY <1>1, <1>2, Begun DEF RegBecomes
  <1>4. reg'[g] = Ended(reg[g], o, e, x)
    BY <1>3 DEF RegBecomes
  <1>5. /\ Owns(reg[g], o, "Attaching")
        /\ (e = Entry("Ready", 0) /\ x = "Ready") \/ (e = Entry("Failed", o) /\ x = "Failed")
    BY <1>1
  <1>6. Reg(g)!Next
    BY <1>2, <1>3, <1>4, <1>5, EndImplements
  <1>. QED BY <1>3, <1>6, OneRegistry

\* Any step of an attach task: the registries take steps of theirs.
LEMMA AttachStepImplements ==
  ASSUME ServiceInv, NEW a \in attaches, AttachStep(a)
  PROVE  RegistryStep
  <1>1. \/ reg' = reg
        \/ /\ Owns(reg[a.gen], a.op, "Attaching")
           /\ \/ reg' = [reg EXCEPT ![a.gen] = Ended(reg[a.gen], a.op, Entry("Ready", 0), "Ready")]
              \/ reg' = [reg EXCEPT ![a.gen] = Ended(reg[a.gen], a.op, Entry("Failed", a.op), "Failed")]
    BY DEF AttachStep, AttachStart, AttachWarm, AttachCheck, AttachRegister, AttachAnnounce, AttachClean,
           AttachFailed, AttachCommit, AttachReport, sessionVars
  <1>2. CASE reg' = reg
    BY <1>2 DEF RegistryStep
  <1>3. CASE reg' # reg
    <2>1. PICK e, x : /\ (e = Entry("Ready", 0) /\ x = "Ready") \/ (e = Entry("Failed", a.op) /\ x = "Failed")
                      /\ reg' = [reg EXCEPT ![a.gen] = Ended(reg[a.gen], a.op, e, x)]
      BY <1>1, <1>3
    <2>2. Owns(reg[a.gen], a.op, "Attaching")
      BY <1>1, <1>3
    <2>. QED BY <2>1, <2>2, AttachEndImplements
  <1>. QED BY <1>2, <1>3

\* StopSession and AbortStart stop a session that runs.
LEMMA StopStepImplements ==
  ASSUME ServiceInv, NEW t \in Callers, StopSession(t) \/ AbortStart(t)
  PROVE  RegistryStep
  <1>1. PICK c, g : c = call[t] /\ g = c.gen
    OBVIOUS
  <1>2. c.pc \in {"stop", "failing"} /\ reg' = [reg EXCEPT ![g] = StoppedReg(reg[g])]
    BY <1>1 DEF StopSession, AbortStart
  <1>3. CallOK(c) /\ gens \in Nat
    BY <1>1, CallFacts
  <1>4. g \in 1..gens /\ ~reg[g].stopped
    BY <1>1, <1>2, <1>3 DEF CallOK, GenOK, Starting, None, Untouched
  <1>5. RegBecomes(g, StoppedReg(reg[g])) /\ g \in Generations
    BY <1>2, <1>4, Begun DEF RegBecomes
  <1>6. Reg(g)!Next
    BY <1>4, <1>5, StopImplements DEF RegBecomes
  <1>. QED BY <1>5, <1>6, OneRegistry

\* Any step of an ensure: the registries take steps of theirs.
LEMMA EnsureStepImplements ==
  ASSUME ServiceInv, NEW t \in Callers, EnsureStep(t)
  PROVE  RegistryStep
  <1>1. CASE AbortStart(t) \/ \E m \in Slots : SeedReady(t, m) \/ ReserveMember(t, m)
    BY <1>1, StopStepImplements, SeedReadyImplements, ReserveMemberImplements
  <1>2. CASE \/ LookUpMutex(t) \/ LoadTeam(t) \/ FindSession(t) \/ StartSession(t) \/ Settle(t)
             \/ ReserveStopped(t) \/ SpawnAttaches(t) \/ SpawnEventLoops(t) \/ PublishSession(t) \/ Recover(t)
             \/ \E m \in Slots : LaunchJob(t, m) \/ EndJob(t, m)
    <2>1. reg' = reg
      BY <1>2 DEF LookUpMutex, LoadTeam, FindSession, StartSession, NewSession, Settle, ReserveStopped,
                  SpawnAttaches, SpawnEventLoops, PublishSession, Recover, LaunchJob, EndJob, sessionVars
    <2>. QED BY <2>1 DEF RegistryStep
  <1>. QED BY <1>1, <1>2 DEF EnsureStep

\* Any step of a change of members: the registries take steps of theirs.
LEMMA MemberStepImplements ==
  ASSUME ServiceInv, NEW t \in Callers, MemberStep(t)
  PROVE  RegistryStep
  <1>1. CASE AdmitAgent(t) \/ RemoveAgent(t) \/ UnlistMember(t) \/ RetireMember(t) \/ FinishRemove(t)
    BY <1>1, AdmitAgentImplements, RemoveAgentImplements, UnlistMemberImplements, RetireMemberImplements,
       FinishRemoveImplements
  <1>2. CASE \/ EditRoster(t) \/ ProvisionAgent(t) \/ PersistAgents(t) \/ WelcomeAgent(t)
             \/ WriteLastMessage(t) \/ JoinRemoval(t) \/ KillMember(t) \/ ReloadRoster(t)
             \/ DetachMember(t) \/ DeleteConversation(t)
    <2>1. reg' = reg
      BY <1>2 DEF EditRoster, ProvisionAgent, PersistAgents, WelcomeAgent, WriteLastMessage, JoinRemoval,
                  KillMember, ReloadRoster, DetachMember, DeleteConversation, sessionVars
    <2>. QED BY <2>1 DEF RegistryStep
  <1>. QED BY <1>1, <1>2 DEF MemberStep

\* Every step of the service is a step of each registry, or leaves it alone.
LEMMA ServiceStepImplements == ServiceInv /\ [ServiceNext]_serviceVars => RegistryStep
  <1> SUFFICES ASSUME ServiceInv, ServiceNext \/ UNCHANGED serviceVars PROVE RegistryStep
    OBVIOUS
  <1>1. CASE \E t \in Callers : EnsureStep(t) \/ MemberStep(t) \/ StopSession(t)
    BY <1>1, EnsureStepImplements, MemberStepImplements, StopStepImplements
  <1>2. CASE \E a \in attaches : AttachStep(a)
    BY <1>2, AttachStepImplements
  <1>3. CASE \/ UNCHANGED serviceVars \/ CreateTeam \/ CreateFails \/ \E m \in Slots : ProvisionInitial(m)
             \/ \E t \in Callers : Begin(t) \/ CheckOwned(t) \/ Unpublish(t) \/ KillAll(t) \/ CloseTeam(t)
    <2>1. reg' = reg
      BY <1>3 DEF ProvisionInitial, CreateTeam, CreateFails, Begin, CheckOwned, Unpublish, KillAll, CloseTeam,
                  serviceVars, sessionVars
    <2>. QED BY <2>1 DEF RegistryStep
  <1>. QED BY <1>1, <1>2, <1>3 DEF ServiceNext, StopStep

\* The registry of every session of the service behaves as MemberRuntime says:
\* every step that changes it is one of the registry's own operations.
THEOREM ServiceUsesRegistries == ServiceSpec => RegistriesImplement
  <1>1. ServiceInit => \A g \in Generations : Reg(g)!Init
    BY DEF ServiceInit, Reg!Init, Reg!Entry, Registry, Entry
  <1>2. ServiceInv /\ [ServiceNext]_serviceVars => [RegistryStep]_reg
    BY ServiceStepImplements
  <1>. QED BY <1>1, <1>2, ServiceInvariant, PTL DEF ServiceSpec, RegistriesImplement, RegistryStep

-----------------------------------------------------------------------------
(* The roster and the members that were removed                             *)

\* The requests that are between their reading and their writing of the roster.
Editing == {"provision", "persist", "unlist"}

\* The steps of a removal after the roster was written.
Leaving == {"retire", "detach", "finish", "delete"}

\* The steps of a request that has members to attach.
Fitting == Starting \cup {"find", "start", "reserve"}

\* A request for a new member that is not on the roster yet.
Reserved(c) == c.op \in {"add", "spawn"} /\ c.pc \in {"edit", "provision", "persist"}

\* Request c may write a roster with member m.
Carries(c, m) == m \in c.snap /\ (c.holds \/ c.pc = "write")

\* Members that are known to the team have had a conversation, and a new member
\* is known to the request that adds it alone.
Known ==
    /\ roster \subseteq convs \cup removed
    /\ \A t \in Callers : \A m \in Slots : Carries(call[t], m) => m \in convs \cup removed
    /\ \A t \in Callers : Reserved(call[t]) =>
          /\ call[t].slot \notin roster \cup removed
          /\ call[t].pc = "persist" => call[t].slot \in convs
          /\ \A u \in Callers : ~Carries(call[u], call[t].slot)
          /\ \A u \in Callers : u # t /\ call[u].slot = call[t].slot =>
                ~Reserved(call[u]) /\ call[u].pc \notin Removing \cup {"delete"}

\* Member m has been taken off the roster by a removal.
Unlisted(m) ==
    m \in removed \/ \E t \in Callers : call[t].slot = m /\ call[t].pc \in Leaving

\* ... and nobody is going to put it on the roster, or into a session, again.
Listed(m) ==
    Unlisted(m) =>
        /\ m \notin roster
        /\ \A t \in Callers : call[t].holds => m \notin call[t].snap
        /\ \A t \in Callers : call[t].pc \in Fitting => m \notin call[t].todo

RowInv ==
    /\ team \in {"none", "active"} => mutex = 1
    /\ team = "none" => removed = {} /\ \A t \in Callers : call[t].pc = "begin"
    /\ RosterSerialized
    /\ team = "active" => Known /\ \A m \in Slots \ loose : Listed(m)

\* Member m has no runtime in session g, and none is being started.
Off(g, m) == reg[g].entry[m].kind \notin {"Attaching", "Ready"}

\* Nothing of m is left in session g, but a loop that is about to be taken back.
Clean(g, m) ==
    /\ m \notin sched[g]
    /\ m \in loops[g] => \E a \in attaches : a.gen = g /\ Member(a) = m /\ a.pc = "commit" /\ a.fresh
    /\ Off(g, m)

\* Request c has cleaned up the published session after its member.
Cleared(c) == c.pc \in {"finish", "delete"} \/ (c.pc = "detach" /\ c.gen # published)

Cleaned(m) ==
    /\ m \in removed \/ (\E t \in Callers : call[t].slot = m /\ Cleared(call[t])) => Clean(published, m)
    /\ (\E t \in Callers : call[t].slot = m /\ call[t].pc = "detach") => Off(published, m)

CleanInv == team = "active" /\ published # None => \A m \in Slots \ loose : Cleaned(m)

-----------------------------------------------------------------------------
(* How a request moves                                                      *)

\* The request c becomes d: rosters are read from the row, new members and
\* removals come from where they should.
Moves(c, d) ==
    /\ d.pc \notin {"write", "begin"}
    /\ d.pc \in Editing => d.snap = roster \/ (c.pc \in Editing /\ d.snap = c.snap)
    /\ d.holds => \A m \in d.snap : m \in roster \/ (c.holds /\ m \in c.snap)
    /\ d.pc \in Fitting => \A m \in d.todo : m \in roster \/ (c.pc \in Fitting /\ m \in c.snap \cup c.todo)
    /\ Reserved(d) => Reserved(c) /\ d.slot = c.slot /\ (d.pc = "persist" => c.pc = "provision")
    /\ d.pc \in Removing \cup {"delete"} =>
          d.slot = c.slot /\ (c.pc \in Removing \cup {"delete"} \/ d.slot \in roster)
    /\ d.pc \in Leaving => c.pc \in Leaving \cup {"unlist"}

\* A request that returns, or goes on with its next target.
LEMMA EndMoves ==
  ASSUME ServiceInv, NEW t \in Callers, End(t)
  PROVE  Others(t) /\ Moves(call[t], call'[t])
  <1>1. PICK d : Set(t, d) /\ Blank(d)
    BY EndOthers
  <1>2. Moves(call[t], d)
    BY <1>1 DEF Blank, Moves, Reserved, Editing, Leaving, Fitting, Starting, Removing
  <1>. QED BY <1>1, <1>2, SetOthers

\* The same of every step but the first and the one that writes the last message.

\* send_message_to_agent loads the team: how the request moves on.
LEMMA CheckOwnedMoves ==
  ASSUME ServiceInv, NEW t \in Callers, CheckOwned(t)
  PROVE  Others(t) /\ Moves(call[t], call'[t])
  <1>1. PICK c, d : /\ c = call[t]
                  /\ d = [c EXCEPT !.pc = "look"]
    OBVIOUS
  <1>2. c.pc = "check" /\ (Set(t, d) \/ End(t))
    BY <1>1 DEF CheckOwned
  <1>3. Moves(c, d)
    BY <1>1, <1>2, CallFacts DEF Moves, Reserved, Editing, Leaving, Fitting, Removing, CallOK, CallTyped, Fields, LocksOK, Holding, Starting
  <1>. QED BY <1>1, <1>2, <1>3, SetOthers, EndMoves

\* The mutex that is now in the map is looked up: how the request moves on.
LEMMA LookUpMutexMoves ==
  ASSUME ServiceInv, NEW t \in Callers, LookUpMutex(t)
  PROVE  Others(t) /\ Moves(call[t], call'[t])
  <1>1. PICK c, d : /\ c = call[t]
                  /\ d = [c EXCEPT !.pc = "load", !.mx = mutex]
    OBVIOUS
  <1>2. c.pc = "look" /\ (Set(t, d))
    BY <1>1 DEF LookUpMutex
  <1>3. Moves(c, d)
    BY <1>1, <1>2, CallFacts DEF Moves, Reserved, Editing, Leaving, Fitting, Removing, CallOK, CallTyped, Fields, LocksOK, Holding, Starting
  <1>. QED BY <1>1, <1>2, <1>3, SetOthers

\* An ensure takes the membership mutex and reads the roster: how the request moves on.
LEMMA LoadTeamMoves ==
  ASSUME ServiceInv, NEW t \in Callers, LoadTeam(t)
  PROVE  Others(t) /\ Moves(call[t], call'[t])
  <1>1. PICK c, d : /\ c = call[t]
                  /\ d = [c EXCEPT !.pc = "find", !.holds = TRUE, !.snap = roster, !.todo = Wanted(c)]
    OBVIOUS
  <1>2. c.pc = "load" /\ (Set(t, d) \/ End(t))
    BY <1>1 DEF LoadTeam
  <1>3. Moves(c, d)
    BY <1>1, <1>2, CallFacts DEF Moves, Reserved, Editing, Leaving, Fitting, Removing, CallOK, CallTyped, Fields, LocksOK, Holding, Starting, Wanted
  <1>. QED BY <1>1, <1>2, <1>3, SetOthers, EndMoves

\* An ensure looks for the published session: how the request moves on.
LEMMA FindSessionMoves ==
  ASSUME ServiceInv, NEW t \in Callers, FindSession(t)
  PROVE  Others(t) /\ Moves(call[t], call'[t])
  <1>1. PICK c, d, e : /\ c = call[t]
                     /\ d = [c EXCEPT !.pc = "start"]
                     /\ e = [c EXCEPT !.pc = "reserve", !.gen = published, !.snap = {}]
    OBVIOUS
  <1>2. c.pc = "find" /\ (Set(t, d) \/ Set(t, e) \/ End(t))
    BY <1>1 DEF FindSession, NoSession
  <1>3. Moves(c, d)
    BY <1>1, <1>2, CallFacts DEF Moves, Reserved, Editing, Leaving, Fitting, Removing, CallOK, CallTyped, Fields, LocksOK, Holding, Starting
  <1>4. Moves(c, e)
    BY <1>1, <1>2, CallFacts DEF Moves, Reserved, Editing, Leaving, Fitting, Removing, CallOK, CallTyped, Fields, LocksOK, Holding, Starting
  <1>. QED BY <1>1, <1>2, <1>3, <1>4, SetOthers, EndMoves

\* A session is joined or started under the ensure mutex: how the request moves on.
LEMMA StartSessionMoves ==
  ASSUME ServiceInv, NEW t \in Callers, StartSession(t)
  PROVE  Others(t) /\ Moves(call[t], call'[t])
  <1>1. PICK c, d, e, f : /\ c = call[t]
                        /\ d = [c EXCEPT !.pc = "reserve", !.gen = published, !.snap = {}]
                        /\ e = [[c EXCEPT !.gen = gens + 1] EXCEPT !.pc = "rebuild", !.ensures = TRUE]
                        /\ f = [[c EXCEPT !.gen = gens + 1] EXCEPT !.pc = "reserve", !.snap = {}]
    OBVIOUS
  <1>2. c.pc = "start" /\ (Set(t, d) \/ Set(t, e) \/ Set(t, f) \/ End(t))
    BY <1>1 DEF StartSession, StartForAll, StartForOne
  <1>3. Moves(c, d)
    BY <1>1, <1>2, CallFacts DEF Moves, Reserved, Editing, Leaving, Fitting, Removing, CallOK, CallTyped, Fields, LocksOK, Holding, Starting
  <1>4. Moves(c, e)
    BY <1>1, <1>2, CallFacts DEF Moves, Reserved, Editing, Leaving, Fitting, Removing, CallOK, CallTyped, Fields, LocksOK, Holding, Starting
  <1>5. Moves(c, f)
    BY <1>1, <1>2, CallFacts DEF Moves, Reserved, Editing, Leaving, Fitting, Removing, CallOK, CallTyped, Fields, LocksOK, Holding, Starting
  <1>. QED BY <1>1, <1>2, <1>3, <1>4, <1>5, SetOthers, EndMoves

\* A rebuild job is launched: how the request moves on.
LEMMA LaunchJobMoves ==
  ASSUME ServiceInv, NEW t \in Callers, NEW m \in Slots, LaunchJob(t, m)
  PROVE  Others(t) /\ Moves(call[t], call'[t])
  <1>1. PICK c, d : /\ c = call[t]
                  /\ d = [c EXCEPT !.todo = @ \ {m}, !.owned = @ \cup {m}]
    OBVIOUS
  <1>2. c.pc = "rebuild" /\ (Set(t, d))
    BY <1>1 DEF LaunchJob
  <1>3. Moves(c, d)
    BY <1>1, <1>2, CallFacts DEF Moves, Reserved, Editing, Leaving, Fitting, Removing, CallOK, CallTyped, Fields, LocksOK, Holding, Starting
  <1>. QED BY <1>1, <1>2, <1>3, SetOthers

\* A rebuild job ends: how the request moves on.
LEMMA EndJobMoves ==
  ASSUME ServiceInv, NEW t \in Callers, NEW m \in Slots, EndJob(t, m)
  PROVE  Others(t) /\ Moves(call[t], call'[t])
  <1>1. PICK c, d, e : /\ c = call[t]
                     /\ d = JoinNext(c, m)
                     /\ e = [JoinNext(c, m) EXCEPT !.pc = "failing"]
    OBVIOUS
  <1>2. c.pc \in {"rebuild", "failing"} /\ (Set(t, d) \/ Set(t, e))
    BY <1>1 DEF EndJob
  <1>3. Moves(c, d)
    BY <1>1, <1>2, CallFacts DEF Moves, Reserved, Editing, Leaving, Fitting, Removing, CallOK, CallTyped, Fields, LocksOK, Holding, Starting, JoinNext
  <1>4. Moves(c, e)
    BY <1>1, <1>2, CallFacts DEF Moves, Reserved, Editing, Leaving, Fitting, Removing, CallOK, CallTyped, Fields, LocksOK, Holding, Starting, JoinNext
  <1>. QED BY <1>1, <1>2, <1>3, <1>4, SetOthers

\* The loops of a new session are spawned: how the request moves on.
LEMMA SpawnEventLoopsMoves ==
  ASSUME ServiceInv, NEW t \in Callers, SpawnEventLoops(t)
  PROVE  Others(t) /\ Moves(call[t], call'[t])
  <1>1. PICK c, d : /\ c = call[t]
                  /\ d = [c EXCEPT !.pc = "seed", !.todo = c.snap]
    OBVIOUS
  <1>2. c.pc = "rebuild" /\ (Set(t, d))
    BY <1>1 DEF SpawnEventLoops
  <1>3. Moves(c, d)
    BY <1>1, <1>2, CallFacts DEF Moves, Reserved, Editing, Leaving, Fitting, Removing, CallOK, CallTyped, Fields, LocksOK, Holding, Starting
  <1>. QED BY <1>1, <1>2, <1>3, SetOthers

\* A member of a new session is marked ready: how the request moves on.
LEMMA SeedReadyMoves ==
  ASSUME ServiceInv, NEW t \in Callers, NEW m \in Slots, SeedReady(t, m)
  PROVE  Others(t) /\ Moves(call[t], call'[t])
  <1>1. PICK c, d : /\ c = call[t]
                  /\ d = [c EXCEPT !.todo = @ \ {m}]
    OBVIOUS
  <1>2. c.pc = "seed" /\ (Set(t, d))
    BY <1>1 DEF SeedReady
  <1>3. Moves(c, d)
    BY <1>1, <1>2, CallFacts DEF Moves, Reserved, Editing, Leaving, Fitting, Removing, CallOK, CallTyped, Fields, LocksOK, Holding, Starting
  <1>. QED BY <1>1, <1>2, <1>3, SetOthers

\* A new session is published: how the request moves on.
LEMMA PublishSessionMoves ==
  ASSUME ServiceInv, NEW t \in Callers, PublishSession(t)
  PROVE  Others(t) /\ Moves(call[t], call'[t])
  <1>1. PICK c, d : /\ c = call[t]
                  /\ d = [Call(c.op, "recover", Lead) EXCEPT !.ensures = TRUE]
    OBVIOUS
  <1>2. c.pc = "seed" /\ (Set(t, d))
    BY <1>1 DEF PublishSession
  <1>3. Moves(c, d)
    BY <1>1, <1>2, CallFacts DEF Moves, Reserved, Editing, Leaving, Fitting, Removing, CallOK, CallTyped, Fields, LocksOK, Holding, Starting, Call
  <1>. QED BY <1>1, <1>2, <1>3, SetOthers

\* The attach of a member is reserved or joined: how the request moves on.
LEMMA ReserveMemberMoves ==
  ASSUME ServiceInv, NEW t \in Callers, NEW m \in Slots, ReserveMember(t, m)
  PROVE  Others(t) /\ Moves(call[t], call'[t])
  <1>1. PICK c, d, e, f : /\ c = call[t]
                        /\ d = [c EXCEPT !.todo = @ \ {m}]
                        /\ e = [[c EXCEPT !.todo = @ \ {m}] EXCEPT !.waits = @ \cup {reg[c.gen].entry[m].op}]
                        /\ f = [[c EXCEPT !.todo = @ \ {m}] EXCEPT !.waits = @ \cup {reg[c.gen].lastOp + 1}, !.owned = @ \cup {reg[c.gen].lastOp + 1}]
    OBVIOUS
  <1>2. c.pc = "reserve" /\ (Set(t, d) \/ Set(t, e) \/ Set(t, f))
    BY <1>1 DEF ReserveMember
  <1>3. Moves(c, d)
    BY <1>1, <1>2, CallFacts DEF Moves, Reserved, Editing, Leaving, Fitting, Removing, CallOK, CallTyped, Fields, LocksOK, Holding, Starting
  <1>4. Moves(c, e)
    BY <1>1, <1>2, CallFacts DEF Moves, Reserved, Editing, Leaving, Fitting, Removing, CallOK, CallTyped, Fields, LocksOK, Holding, Starting
  <1>5. Moves(c, f)
    BY <1>1, <1>2, CallFacts DEF Moves, Reserved, Editing, Leaving, Fitting, Removing, CallOK, CallTyped, Fields, LocksOK, Holding, Starting
  <1>. QED BY <1>1, <1>2, <1>3, <1>4, <1>5, SetOthers

\* The attaches of a request are spawned: how the request moves on.
LEMMA SpawnAttachesMoves ==
  ASSUME ServiceInv, NEW t \in Callers, SpawnAttaches(t)
  PROVE  Others(t) /\ Moves(call[t], call'[t])
  <1>1. PICK c, d : /\ c = call[t]
                  /\ d = [Call("send", "wait", Lead) EXCEPT !.gen = c.gen, !.waits = c.waits, !.targets = c.targets]
    OBVIOUS
  <1>2. c.pc = "reserve" /\ (Set(t, d))
    BY <1>1 DEF SpawnAttaches
  <1>3. Moves(c, d)
    BY <1>1, <1>2, CallFacts DEF Moves, Reserved, Editing, Leaving, Fitting, Removing, CallOK, CallTyped, Fields, LocksOK, Holding, Starting, Call
  <1>. QED BY <1>1, <1>2, <1>3, SetOthers

\* The roster is read for a change: how the request moves on.
LEMMA EditRosterMoves ==
  ASSUME ServiceInv, NEW t \in Callers, EditRoster(t)
  PROVE  Others(t) /\ Moves(call[t], call'[t])
  <1>1. PICK c, d, e : /\ c = call[t]
                       /\ d = [c EXCEPT !.pc = "persist", !.holds = TRUE, !.snap = roster]
                       /\ e = [c EXCEPT !.pc = "provision", !.holds = TRUE, !.snap = roster]
    OBVIOUS
  <1>2. c.pc = "edit" /\ ((c.op = "rename" /\ Set(t, d)) \/ Set(t, e) \/ End(t))
    BY <1>1 DEF EditRoster
  <1>3. /\ d.pc = "persist" /\ d.op = c.op /\ d.slot = c.slot /\ d.snap = roster
        /\ e.pc = "provision" /\ e.op = c.op /\ e.slot = c.slot /\ e.snap = roster
    BY <1>1, CallFacts DEF CallTyped, Fields
  <1>4. c.op = "rename" => Moves(c, d)
    BY <1>2, <1>3 DEF Moves, Reserved, Editing, Leaving, Fitting, Starting, Removing
  <1>5. Moves(c, e)
    BY <1>2, <1>3 DEF Moves, Reserved, Editing, Leaving, Fitting, Starting, Removing
  <1>. QED BY <1>1, <1>2, <1>4, <1>5, SetOthers, EndMoves

\* The conversation of a new member is created: how the request moves on.
LEMMA ProvisionAgentMoves ==
  ASSUME ServiceInv, NEW t \in Callers, ProvisionAgent(t)
  PROVE  Others(t) /\ Moves(call[t], call'[t])
  <1>1. PICK c, d : /\ c = call[t]
                  /\ d = [c EXCEPT !.pc = "persist"]
    OBVIOUS
  <1>2. c.pc = "provision" /\ (Set(t, d) \/ End(t))
    BY <1>1 DEF ProvisionAgent
  <1>3. Moves(c, d)
    BY <1>1, <1>2, CallFacts DEF Moves, Reserved, Editing, Leaving, Fitting, Removing, CallOK, CallTyped, Fields, LocksOK, Holding, Starting
  <1>. QED BY <1>1, <1>2, <1>3, SetOthers, EndMoves

\* The changed roster is written: how the request moves on.
LEMMA PersistAgentsMoves ==
  ASSUME ServiceInv, NEW t \in Callers, PersistAgents(t)
  PROVE  Others(t) /\ Moves(call[t], call'[t])
  <1>1. PICK c, d : /\ c = call[t]
                  /\ d = [c EXCEPT !.pc = "admit", !.holds = c.op = "add"]
    OBVIOUS
  <1>2. c.pc = "persist" /\ (Set(t, d) \/ End(t))
    BY <1>1 DEF PersistAgents
  <1>3. Moves(c, d)
    BY <1>1, <1>2, CallFacts DEF Moves, Reserved, Editing, Leaving, Fitting, Removing, CallOK, CallTyped, Fields, LocksOK, Holding, Starting
  <1>. QED BY <1>1, <1>2, <1>3, SetOthers, EndMoves

\* A new member is admitted to the published session: how the request moves on.
LEMMA AdmitAgentMoves ==
  ASSUME ServiceInv, NEW t \in Callers, AdmitAgent(t)
  PROVE  Others(t) /\ Moves(call[t], call'[t])
  <1>1. PICK c, d, e : /\ c = call[t]
                     /\ d = [c EXCEPT !.pc = "welcome", !.gen = published, !.lease = reg[published].lastOp + 1]
                     /\ e = [c EXCEPT !.pc = "welcome", !.gen = published, !.lease = 0]
    OBVIOUS
  <1>2. c.pc = "admit" /\ (Set(t, d) \/ Set(t, e) \/ End(t))
    BY <1>1 DEF AdmitAgent
  <1>3. Moves(c, d)
    BY <1>1, <1>2, CallFacts DEF Moves, Reserved, Editing, Leaving, Fitting, Removing, CallOK, CallTyped, Fields, LocksOK, Holding, Starting
  <1>4. Moves(c, e)
    BY <1>1, <1>2, CallFacts DEF Moves, Reserved, Editing, Leaving, Fitting, Removing, CallOK, CallTyped, Fields, LocksOK, Holding, Starting
  <1>. QED BY <1>1, <1>2, <1>3, <1>4, SetOthers, EndMoves

\* The welcome message and the attach task of a new member: how the request moves on.
LEMMA WelcomeAgentMoves ==
  ASSUME ServiceInv, NEW t \in Callers, WelcomeAgent(t)
  PROVE  Others(t) /\ Moves(call[t], call'[t])
  <1>1. PICK c, d : /\ c = call[t]
                  /\ d = [c EXCEPT !.pc = "remove", !.mx = mutex]
    OBVIOUS
  <1>2. c.pc = "welcome" /\ (Set(t, d) \/ End(t))
    BY <1>1 DEF WelcomeAgent
  <1>3. Moves(c, d)
    BY <1>1, <1>2, CallFacts DEF Moves, Reserved, Editing, Leaving, Fitting, Removing, CallOK, CallTyped, Fields, LocksOK, Holding, Starting
  <1>. QED BY <1>1, <1>2, <1>3, SetOthers, EndMoves

\* A removal begins or is joined: how the request moves on.
LEMMA RemoveAgentMoves ==
  ASSUME ServiceInv, NEW t \in Callers, RemoveAgent(t)
  PROVE  Others(t) /\ Moves(call[t], call'[t])
  <1>1. PICK c, out, d, e : /\ c = call[t]
                            /\ out = [c EXCEPT !.pc = "kill", !.gen = published, !.lease = 0]
                            /\ d = [out EXCEPT !.lease = reg[published].lastOp + 1]
                            /\ e = [out EXCEPT !.pc = "join", !.waits = {reg[published].entry[c.slot].op}]
    OBVIOUS
  <1>2. /\ c.pc = "remove"
        /\ End(t) \/ (c.slot \in roster /\ (Set(t, out) \/ Set(t, d) \/ Set(t, e)))
    BY <1>1 DEF RemoveAgent
  <1>3. CASE c.slot \in roster /\ (Set(t, out) \/ Set(t, d) \/ Set(t, e))
    <2>1. ~c.holds
      BY <1>1, <1>2, CallFacts DEF CallOK, LocksOK
    <2>2. /\ out.pc = "kill" /\ out.slot = c.slot /\ ~out.holds
          /\ d.pc = "kill" /\ d.slot = c.slot /\ ~d.holds
          /\ e.pc = "join" /\ ~e.holds
      BY <1>1, <2>1, CallFacts DEF CallTyped, Fields
    <2>3. Moves(c, out) /\ Moves(c, d) /\ Moves(c, e)
      BY <1>3, <2>2 DEF Moves, Reserved, Editing, Leaving, Fitting, Starting, Removing
    <2>. QED BY <1>1, <1>3, <2>3, SetOthers
  <1>. QED BY <1>2, <1>3, EndMoves

\* A removal aborts the loop and kills the task: how the request moves on.
LEMMA KillMemberMoves ==
  ASSUME ServiceInv, NEW t \in Callers, KillMember(t)
  PROVE  Others(t) /\ Moves(call[t], call'[t])
  <1>1. PICK c, d : /\ c = call[t]
                  /\ d = [c EXCEPT !.pc = "reload"]
    OBVIOUS
  <1>2. c.pc = "kill" /\ (Set(t, d))
    BY <1>1 DEF KillMember
  <1>3. Moves(c, d)
    BY <1>1, <1>2, CallFacts DEF Moves, Reserved, Editing, Leaving, Fitting, Removing, CallOK, CallTyped, Fields, LocksOK, Holding, Starting
  <1>. QED BY <1>1, <1>2, <1>3, SetOthers

\* A removal reads the roster under the mutex: how the request moves on.
LEMMA ReloadRosterMoves ==
  ASSUME ServiceInv, NEW t \in Callers, ReloadRoster(t)
  PROVE  Others(t) /\ Moves(call[t], call'[t])
  <1>1. PICK c, d : /\ c = call[t]
                  /\ d = [c EXCEPT !.pc = "unlist", !.holds = TRUE, !.snap = roster]
    OBVIOUS
  <1>2. c.pc = "reload" /\ (Set(t, d) \/ End(t))
    BY <1>1 DEF ReloadRoster
  <1>3. Moves(c, d)
    BY <1>1, <1>2, CallFacts DEF Moves, Reserved, Editing, Leaving, Fitting, Removing, CallOK, CallTyped, Fields, LocksOK, Holding, Starting
  <1>. QED BY <1>1, <1>2, <1>3, SetOthers, EndMoves

\* A removal writes the roster, or fails to: how the request moves on.
LEMMA UnlistMemberMoves ==
  ASSUME ServiceInv, NEW t \in Callers, UnlistMember(t)
  PROVE  Others(t) /\ Moves(call[t], call'[t])
  <1>1. PICK c, d : /\ c = call[t]
                  /\ d = [Call(c.op, "retire", c.slot) EXCEPT !.gen = c.gen, !.lease = c.lease]
    OBVIOUS
  <1>2. c.pc = "unlist" /\ (Set(t, d) \/ End(t))
    BY <1>1 DEF UnlistMember
  <1>3. Moves(c, d)
    BY <1>1, <1>2, CallFacts DEF Moves, Reserved, Editing, Leaving, Fitting, Removing, CallOK, CallTyped, Fields, LocksOK, Holding, Starting, Call
  <1>. QED BY <1>1, <1>2, <1>3, SetOthers, EndMoves

\* A removal goes on in the session that is published by now: how the request moves on.
LEMMA RetireMemberMoves ==
  ASSUME ServiceInv, NEW t \in Callers, RetireMember(t)
  PROVE  Others(t) /\ Moves(call[t], call'[t])
  <1>1. PICK c, out, b, d, e, f : /\ c = call[t]
                                  /\ out = [c EXCEPT !.pc = "detach", !.gen = published, !.lease = 0]
                                  /\ b = Call(c.op, "delete", c.slot)
                                  /\ d = [c EXCEPT !.pc = "detach"]
                                  /\ e = [out EXCEPT !.lease = reg[published].lastOp + 1]
                                  /\ f = [out EXCEPT !.waits = {reg[published].entry[c.slot].op}]
    OBVIOUS
  <1>2. c.pc = "retire" /\ (Set(t, out) \/ Set(t, b) \/ Set(t, d) \/ Set(t, e) \/ Set(t, f))
    BY <1>1 DEF RetireMember
  <1>3. /\ out.pc = "detach" /\ out.slot = c.slot /\ out.holds = c.holds /\ out.snap = c.snap
        /\ b.pc = "delete" /\ b.slot = c.slot /\ ~b.holds
        /\ d.pc = "detach" /\ d.slot = c.slot /\ d.holds = c.holds /\ d.snap = c.snap
        /\ e.pc = "detach" /\ e.slot = c.slot /\ e.holds = c.holds /\ e.snap = c.snap
        /\ f.pc = "detach" /\ f.slot = c.slot /\ f.holds = c.holds /\ f.snap = c.snap
    BY <1>1, CallFacts DEF Call, CallTyped, Fields
  <1>4. Moves(c, out) /\ Moves(c, b) /\ Moves(c, d) /\ Moves(c, e) /\ Moves(c, f)
    BY <1>2, <1>3 DEF Moves, Reserved, Editing, Leaving, Fitting, Starting, Removing
  <1>. QED BY <1>1, <1>2, <1>4, SetOthers

\* A removal takes the slot out of the scheduler: how the request moves on.
LEMMA DetachMemberMoves ==
  ASSUME ServiceInv, NEW t \in Callers, DetachMember(t)
  PROVE  Others(t) /\ Moves(call[t], call'[t])
  <1>1. PICK c, d : /\ c = call[t]
                  /\ d = [c EXCEPT !.pc = "finish"]
    OBVIOUS
  <1>2. c.pc = "detach" /\ (Set(t, d))
    BY <1>1 DEF DetachMember
  <1>3. Moves(c, d)
    BY <1>1, <1>2, CallFacts DEF Moves, Reserved, Editing, Leaving, Fitting, Removing, CallOK, CallTyped, Fields, LocksOK, Holding, Starting
  <1>. QED BY <1>1, <1>2, <1>3, SetOthers

\* A removal ends its operation: how the request moves on.
LEMMA FinishRemoveMoves ==
  ASSUME ServiceInv, NEW t \in Callers, FinishRemove(t)
  PROVE  Others(t) /\ Moves(call[t], call'[t])
  <1>1. PICK c, d : /\ c = call[t]
                  /\ d = Call(c.op, "delete", c.slot)
    OBVIOUS
  <1>2. c.pc = "finish" /\ (Set(t, d))
    BY <1>1 DEF FinishRemove
  <1>3. Moves(c, d)
    BY <1>1, <1>2, CallFacts DEF Moves, Reserved, Editing, Leaving, Fitting, Removing, CallOK, CallTyped, Fields, LocksOK, Holding, Starting, Call
  <1>. QED BY <1>1, <1>2, <1>3, SetOthers

\* The session is taken out of the map: how the request moves on.
LEMMA UnpublishMoves ==
  ASSUME ServiceInv, NEW t \in Callers, Unpublish(t)
  PROVE  Others(t) /\ Moves(call[t], call'[t])
  <1>1. PICK c, d, e : /\ c = call[t]
                     /\ d = [c EXCEPT !.pc = "killAll"]
                     /\ e = [c EXCEPT !.pc = "stop", !.gen = published]
    OBVIOUS
  <1>2. c.pc = "unpublish" /\ (Set(t, d) \/ Set(t, e) \/ End(t))
    BY <1>1 DEF Unpublish, AfterStop
  <1>3. Moves(c, d)
    BY <1>1, <1>2, CallFacts DEF Moves, Reserved, Editing, Leaving, Fitting, Removing, CallOK, CallTyped, Fields, LocksOK, Holding, Starting
  <1>4. Moves(c, e)
    BY <1>1, <1>2, CallFacts DEF Moves, Reserved, Editing, Leaving, Fitting, Removing, CallOK, CallTyped, Fields, LocksOK, Holding, Starting
  <1>. QED BY <1>1, <1>2, <1>3, <1>4, SetOthers, EndMoves

\* The session that was taken out of the map is stopped: how the request moves on.
LEMMA StopSessionMoves ==
  ASSUME ServiceInv, NEW t \in Callers, StopSession(t)
  PROVE  Others(t) /\ Moves(call[t], call'[t])
  <1>1. PICK c, d : /\ c = call[t]
                  /\ d = [c EXCEPT !.pc = "killAll"]
    OBVIOUS
  <1>2. c.pc = "stop" /\ (Set(t, d) \/ End(t))
    BY <1>1 DEF StopSession, AfterStop
  <1>3. Moves(c, d)
    BY <1>1, <1>2, CallFacts DEF Moves, Reserved, Editing, Leaving, Fitting, Removing, CallOK, CallTyped, Fields, LocksOK, Holding, Starting
  <1>. QED BY <1>1, <1>2, <1>3, SetOthers, EndMoves

\* The tasks of a closed team are killed: how the request moves on.
LEMMA KillAllMoves ==
  ASSUME ServiceInv, NEW t \in Callers, KillAll(t)
  PROVE  Others(t) /\ Moves(call[t], call'[t])
  <1>1. PICK c, d : /\ c = call[t]
                  /\ d = [c EXCEPT !.pc = "close"]
    OBVIOUS
  <1>2. c.pc = "killAll" /\ (Set(t, d) \/ End(t))
    BY <1>1 DEF KillAll
  <1>3. Moves(c, d)
    BY <1>1, <1>2, CallFacts DEF Moves, Reserved, Editing, Leaving, Fitting, Removing, CallOK, CallTyped, Fields, LocksOK, Holding, Starting
  <1>. QED BY <1>1, <1>2, <1>3, SetOthers, EndMoves

\* Steps by which a request does nothing but return.
LEMMA OnlyEndsMoves ==
  ASSUME ServiceInv, NEW t \in Callers,
         \/ AbortStart(t) \/ Recover(t) \/ ReserveStopped(t) \/ Settle(t) \/ JoinRemoval(t)
         \/ DeleteConversation(t) \/ CloseTeam(t)
  PROVE  Others(t) /\ Moves(call[t], call'[t])
  BY EndMoves DEF AbortStart, Recover, ReserveStopped, Settle, JoinRemoval, DeleteConversation, CloseTeam

-----------------------------------------------------------------------------
(* The rows                                                                 *)

\* Only one request can hold the mutex of an active team.
LEMMA OneEditor ==
  ASSUME ServiceInv, RowInv, team = "active", NEW t \in Callers, NEW u \in Callers,
         call[t].holds, call[u].holds
  PROVE  t = u
  <1>1. mutex = 1
    BY DEF RowInv
  <1>2. \A v \in {t, u} : call[v].mx = 1
    BY <1>1, CallFacts DEF CallOK, LocksOK
  <1>. QED BY <1>2, CallFacts DEF Apart

\* Whoever edits the roster, or has members to attach, holds the mutex.
LEMMA EditorHolds ==
  ASSUME ServiceInv, NEW t \in Callers, call[t].pc \in Editing \cup Fitting
  PROVE  call[t].holds
  BY CallFacts DEF CallOK, LocksOK, Editing, Fitting, Holding

\* A step of a request has been preceded by the creation of the team.
LEMMA TeamExists ==
  ASSUME RowInv, NEW t \in Callers, call[t].pc # "begin"
  PROVE  team # "none"
  BY DEF RowInv

\* What request c may do to the rows when it becomes d.
RowMoves(c, d) ==
    /\ \A m : m \in convs \cup removed => m \in convs' \cup removed'
    /\ \A m : m \in removed => m \in removed'
    /\ \A m : m \in convs /\ m \notin convs' => c.pc = "delete" /\ m = c.slot
    /\ \A m : m \in removed' /\ m \notin removed => c.pc = "delete" /\ m = c.slot
    /\ \A m : m \in roster' => \/ m \in roster \/ Carries(c, m)
                               \/ Reserved(c) /\ c.pc = "persist" /\ m = c.slot /\ ~Reserved(d)
    /\ Reserved(d) /\ d.pc = "persist" => d.slot \in convs'
    /\ \A m : m \in loose => m \in loose'

\* What is known of members survives a step of a request that keeps to what it has read.
LEMMA KnownStep ==
  ASSUME ServiceInv, Known, NEW t \in Callers, Others(t), NEW c, NEW d, c = call[t], d = call'[t],
         Moves(c, d), RowMoves(c, d)
  PROVE  Known'
  <1>1. \A m \in Slots : Carries(d, m) => m \in roster \/ Carries(c, m)
    BY DEF Moves, Carries
  <1>2. c.slot \in Slots /\ \A u \in Callers : call[u].slot \in Slots
    BY CallFacts DEF CallTyped
  <1>3. roster' \subseteq convs' \cup removed'
    <2> SUFFICES ASSUME NEW m \in roster' PROVE m \in convs' \cup removed'
      OBVIOUS
    <2>1. m \in roster \/ Carries(c, m) \/ (Reserved(c) /\ c.pc = "persist" /\ m = c.slot)
      BY DEF RowMoves
    <2>2. m \in Slots
      BY <1>2, <2>1, CallFacts DEF Carries, CallTyped
    <2>3. m \in convs \cup removed
      BY <2>1, <2>2 DEF Known
    <2>. QED BY <2>3 DEF RowMoves
  <1>4. ASSUME NEW u \in Callers, NEW m \in Slots, Carries(call'[u], m)
        PROVE  m \in convs' \cup removed'
    <2>1. m \in convs \cup removed
      BY <1>1, <1>4 DEF Known, Others
    <2>. QED BY <2>1 DEF RowMoves
  <1>5. ASSUME NEW v \in Callers, Reserved(call'[v]), NEW m, m = call'[v].slot
        PROVE  /\ m \notin roster' \cup removed'
               /\ call'[v].pc = "persist" => m \in convs'
               /\ \A u \in Callers : ~Carries(call'[u], m)
               /\ \A u \in Callers : u # v /\ call'[u].slot = m =>
                     ~Reserved(call'[u]) /\ call'[u].pc \notin Removing \cup {"delete"}
    <2>1. Reserved(call[v]) /\ m = call[v].slot /\ m \in Slots
      BY <1>2, <1>5 DEF Moves, Others
    <2>2. /\ m \notin roster \cup removed
          /\ call[v].pc = "persist" => m \in convs
          /\ \A u \in Callers : ~Carries(call[u], m)
          /\ \A u \in Callers : u # v /\ call[u].slot = m =>
                ~Reserved(call[u]) /\ call[u].pc \notin Removing \cup {"delete"}
      BY <2>1 DEF Known
    <2>3. ~(c.pc = "delete" /\ m = c.slot)
      BY <2>1, <2>2 DEF Reserved
    <2>4. m \notin removed'
      BY <2>2, <2>3 DEF RowMoves
    <2>5. m \notin roster'
      BY <1>5, <2>1, <2>2 DEF RowMoves
    <2>6. call'[v].pc = "persist" => m \in convs'
      BY <1>5, <2>2, <2>3 DEF RowMoves, Others
    <2>7. \A u \in Callers : ~Carries(call'[u], m)
      BY <1>1, <2>1, <2>2 DEF Others
    <2>8. ASSUME NEW u \in Callers, u # v, call'[u].slot = m
          PROVE  ~Reserved(call'[u]) /\ call'[u].pc \notin Removing \cup {"delete"}
      BY <2>2, <2>8 DEF Moves, Others
    <2>. QED BY <2>4, <2>5, <2>6, <2>7, <2>8
  <1>. QED BY <1>3, <1>4, <1>5 DEF Known, Carries, Reserved

\* What has been taken off the roster stays off it.
LEMMA ListedStep ==
  ASSUME ServiceInv, Known, NEW t \in Callers, Others(t), NEW c, NEW d, c = call[t], d = call'[t],
         Moves(c, d), RowMoves(c, d), NEW m \in Slots, Listed(m), Unlisted(m),
         \A b : b \in roster' => b \in loose' \/ b \in roster \/ c.holds \/ Reserved(c),
         m \notin loose'
  PROVE  Listed(m)'
  <1>1. /\ m \notin roster
        /\ \A u \in Callers : call[u].holds => m \notin call[u].snap
        /\ \A u \in Callers : call[u].pc \in Fitting => m \notin call[u].todo
    BY DEF Listed
  <1>2. c.pc \in Fitting \cup Editing => c.holds
    BY EditorHolds
  <1>3. ~(Reserved(c) /\ m = c.slot)
    BY DEF Known, Unlisted, Leaving, Removing, Reserved
  <1>4. Reserved(c) /\ c.pc # "edit" => c.holds
    BY <1>2 DEF Reserved, Editing
  <1>5. m \notin roster'
    BY <1>1, <1>3, <1>4 DEF RowMoves, Carries, Reserved
  <1>6. d.holds => m \notin d.snap
    BY <1>1 DEF Moves
  <1>7. d.pc \in Fitting => m \notin d.todo
    BY <1>1, <1>2 DEF Moves
  <1>. QED BY <1>1, <1>5, <1>6, <1>7 DEF Listed, Others

\* Nobody is taken off the roster.
LEMMA UnlistedStep ==
  ASSUME NEW t \in Callers, Others(t), NEW c, NEW d, c = call[t], d = call'[t],
         Moves(c, d), RowMoves(c, d), NEW m, Unlisted(m)'
  PROVE  Unlisted(m) \/ (c.pc = "unlist" /\ d.pc \in Leaving /\ m = c.slot)
  <1>1. CASE m \in removed'
    BY <1>1 DEF RowMoves, Unlisted, Leaving
  <1>2. CASE \E u \in Callers : call'[u].slot = m /\ call'[u].pc \in Leaving
    <2>1. PICK u \in Callers : call'[u].slot = m /\ call'[u].pc \in Leaving
      BY <1>2
    <2>2. CASE u # t
      BY <2>1, <2>2 DEF Others, Unlisted
    <2>3. CASE u = t
      <3>1. d.slot = m /\ d.pc \in Leaving
        BY <2>1, <2>3
      <3>2. d.slot = c.slot /\ c.pc \in Leaving \cup {"unlist"}
        BY <3>1 DEF Moves, Leaving, Removing
      <3>. QED BY <3>1, <3>2 DEF Unlisted
    <2>. QED BY <2>2, <2>3
  <1>. QED BY <1>1, <1>2 DEF Unlisted

\* The rows and the members after a step of request t.
LEMMA MembersKept ==
  ASSUME ServiceInv, RowInv, team = "active", NEW t \in Callers, Others(t),
         NEW c, NEW d, c = call[t], d = call'[t], Moves(c, d), RowMoves(c, d),
         \A b : b \in roster' => b \in loose' \/ b \in roster \/ c.holds \/ Reserved(c),
         c.pc = "unlist" /\ d.pc \in Leaving => Listed(c.slot)'
  PROVE  Known' /\ \A m \in Slots \ loose' : Listed(m)'
  <1>1. Known /\ \A m \in Slots \ loose : Listed(m)
    BY DEF RowInv
  <1>2. Known'
    BY <1>1, KnownStep
  <1>3. ASSUME NEW m \in Slots, m \notin loose' PROVE Listed(m)'
    <2>1. m \notin loose
      BY <1>3 DEF RowMoves
    <2>2. CASE Unlisted(m)
      BY <1>1, <1>3, <2>1, <2>2, ListedStep
    <2>3. CASE c.pc = "unlist" /\ d.pc \in Leaving /\ m = c.slot
      BY <2>3
    <2>4. CASE ~Unlisted(m)'
      BY <2>4 DEF Listed
    <2>5. Unlisted(m)' => Unlisted(m) \/ (c.pc = "unlist" /\ d.pc \in Leaving /\ m = c.slot)
      BY UnlistedStep
    <2>. QED BY <2>2, <2>3, <2>4, <2>5
  <1>. QED BY <1>2, <1>3

\* A step that leaves the rows alone.
LEMMA QuietRow ==
  ASSUME ServiceInv, RowInv, NEW t \in Callers, Others(t), Moves(call[t], call'[t]),
         call[t].pc \notin {"begin", "provision", "unlist"},
         UNCHANGED <<team, roster, convs, removed, mutex, unlocked>>, loose \subseteq loose'
  PROVE  RowInv'
  <1>1. PICK c, d : c = call[t] /\ d = call'[t]
    OBVIOUS
  <1>2. Moves(c, d) /\ RowMoves(c, d) /\ team # "none"
    BY <1>1, TeamExists DEF Moves, RowMoves
  <1>3. RosterSerialized'
    BY <1>1, <1>2 DEF RowInv, RosterSerialized, Moves, Others, Editing
  <1>4. team = "active" => Known' /\ \A m \in Slots \ loose' : Listed(m)'
    BY <1>1, <1>2, MembersKept
  <1>. QED BY <1>2, <1>3, <1>4 DEF RowInv

\* Any step of an ensure: the invariant of the roster is kept.
LEMMA EnsureStepRow ==
  ASSUME ServiceInv, RowInv, NEW t \in Callers, EnsureStep(t)
  PROVE  RowInv'
  <1>1. Others(t) /\ Moves(call[t], call'[t])
    BY LookUpMutexMoves, LoadTeamMoves, FindSessionMoves, StartSessionMoves, SpawnAttachesMoves,
       SpawnEventLoopsMoves, PublishSessionMoves, LaunchJobMoves, EndJobMoves, SeedReadyMoves,
       ReserveMemberMoves, OnlyEndsMoves DEF EnsureStep
  <1>2. /\ call[t].pc \notin {"begin", "provision", "unlist"}
        /\ UNCHANGED <<team, roster, convs, removed, mutex, unlocked, loose>>
    BY DEF EnsureStep, LookUpMutex, LoadTeam, FindSession, StartSession, Settle, ReserveStopped, SpawnAttaches,
           AbortStart, SpawnEventLoops, PublishSession, Recover, LaunchJob, EndJob, SeedReady, ReserveMember,
           rowVars, history
  <1>. QED BY <1>1, <1>2, QuietRow

\* Steps of other requests that leave the session alone: the invariant of the roster is kept.
LEMMA QuietMemberRow ==
  ASSUME ServiceInv, RowInv, NEW t \in Callers,
         \/ CheckOwned(t) \/ EditRoster(t) \/ AdmitAgent(t) \/ WelcomeAgent(t) \/ RemoveAgent(t)
         \/ JoinRemoval(t) \/ KillMember(t) \/ ReloadRoster(t) \/ RetireMember(t) \/ DetachMember(t)
         \/ FinishRemove(t) \/ Unpublish(t) \/ StopSession(t) \/ KillAll(t)
  PROVE  RowInv'
  <1>1. Others(t) /\ Moves(call[t], call'[t])
    BY CheckOwnedMoves, EditRosterMoves, AdmitAgentMoves, WelcomeAgentMoves, RemoveAgentMoves, KillMemberMoves,
       ReloadRosterMoves, RetireMemberMoves, DetachMemberMoves, FinishRemoveMoves, UnpublishMoves,
       StopSessionMoves, KillAllMoves, OnlyEndsMoves
  <1>2. /\ call[t].pc \notin {"begin", "provision", "unlist"}
        /\ UNCHANGED <<team, roster, convs, removed, mutex, unlocked>> /\ loose \subseteq loose'
    BY DEF CheckOwned, EditRoster, AdmitAgent, WelcomeAgent, RemoveAgent, JoinRemoval, KillMember, ReloadRoster,
           RetireMember, DetachMember, FinishRemove, Unpublish, StopSession, KillAll, rowVars, history
  <1>. QED BY <1>1, <1>2, QuietRow

\* A conversation is made for a new member.
LEMMA ProvisionAgentRow ==
  ASSUME ServiceInv, RowInv, NEW t \in Callers, ProvisionAgent(t)
  PROVE  RowInv'
  <1>1. PICK c, d : c = call[t] /\ d = call'[t]
    OBVIOUS
  <1>2. Others(t) /\ Moves(c, d) /\ team # "none"
    BY <1>1, ProvisionAgentMoves, TeamExists DEF ProvisionAgent
  <1>3. UNCHANGED <<team, roster, removed, mutex, unlocked, loose>>
    BY DEF ProvisionAgent, history
  <1>4. \/ convs' = convs \cup {c.slot}
        \/ convs' = convs /\ d.pc # "persist"
    <2>1. CASE End(t) /\ UNCHANGED convs
      <3>1. PICK e : Set(t, e) /\ Blank(e)
        BY <2>1, EndOthers
      <3>. QED BY <1>1, <2>1, <3>1, SetOthers DEF Blank
    <2>. QED BY <1>1, <2>1 DEF ProvisionAgent
  <1>5. RowMoves(c, d)
    BY <1>2, <1>3, <1>4 DEF Moves, RowMoves
  <1>6. c.pc = "provision"
    BY <1>1 DEF ProvisionAgent
  <1>7. RosterSerialized'
    BY <1>1, <1>2, <1>3 DEF RowInv, RosterSerialized, Moves, Others, Editing
  <1>8. team = "active" => Known' /\ \A m \in Slots \ loose' : Listed(m)'
    BY <1>1, <1>2, <1>3, <1>5, <1>6, MembersKept
  <1>. QED BY <1>2, <1>3, <1>7, <1>8 DEF RowInv

\* The roster is written under the mutex: nobody else is editing it.
LEMMA NobodyEdits ==
  ASSUME ServiceInv, RowInv, NEW t \in Callers, Others(t), call[t].pc \in Editing, call'[t].pc \notin Editing,
         team' = team
  PROVE  RosterSerialized'
  <1>1. \A u \in Callers : team = "active" /\ u # t => call[u].pc \notin Editing
    BY OneEditor, EditorHolds
  <1>2. \A u \in Callers : team = "active" => call'[u].pc \notin Editing
    BY <1>1 DEF Others
  <1>. QED BY <1>2 DEF RosterSerialized, Editing

\* The changed roster is written: the invariant of the roster is kept.
LEMMA PersistAgentsRow ==
  ASSUME ServiceInv, RowInv, NEW t \in Callers, PersistAgents(t)
  PROVE  RowInv'
  <1>1. PICK c, d, e : c = call[t] /\ d = call'[t] /\ e = [c EXCEPT !.pc = "admit", !.holds = c.op = "add"]
    OBVIOUS
  <1>2. c.pc = "persist" /\ c.holds /\ team # "none"
    BY <1>1, EditorHolds, TeamExists DEF PersistAgents, Editing
  <1>3. Others(t) /\ Moves(c, d)
    BY <1>1, PersistAgentsMoves
  <1>4. UNCHANGED <<team, convs, removed, mutex, unlocked, loose>>
    BY DEF PersistAgents, history
  <1>5. d.pc \in {"admit", "done", "check"}
    <2>1. CASE End(t)
      <3>1. PICK b : Set(t, b) /\ Blank(b)
        BY <2>1, EndOthers
      <3>. QED BY <1>1, <3>1, SetOthers DEF Blank
    <2>2. CASE Set(t, e)
      <3>1. e.pc = "admit"
        BY <1>1, CallFacts DEF CallTyped, Fields
      <3>. QED BY <1>1, <2>2, <3>1, SetOthers
    <2>. QED BY <1>1, <2>1, <2>2 DEF PersistAgents
  <1>6. \A m : m \in roster' => m \in roster \/ m \in c.snap \/ (c.op # "rename" /\ m = c.slot)
    BY <1>1 DEF PersistAgents
  <1>7. c.op \in {"add", "spawn", "rename"}
    BY <1>1, <1>2, CallFacts DEF CallOK, LocksOK
  <1>8. RowMoves(c, d)
    BY <1>2, <1>4, <1>5, <1>6, <1>7 DEF RowMoves, Carries, Reserved
  <1>9. RosterSerialized'
    BY <1>1, <1>2, <1>3, <1>4, <1>5, NobodyEdits DEF Editing
  <1>10. team = "active" => Known' /\ \A m \in Slots \ loose' : Listed(m)'
    BY <1>1, <1>2, <1>3, <1>8, MembersKept
  <1>. QED BY <1>2, <1>4, <1>9, <1>10 DEF RowInv

\* A removal writes the roster, or fails to: the invariant of the roster is kept.
LEMMA UnlistMemberRow ==
  ASSUME ServiceInv, RowInv, NEW t \in Callers, UnlistMember(t)
  PROVE  RowInv'
  <1>1. PICK c, d, e : /\ c = call[t] /\ d = call'[t]
                       /\ e = [Call(c.op, "retire", c.slot) EXCEPT !.gen = c.gen, !.lease = c.lease]
    OBVIOUS
  <1>2. c.pc = "unlist" /\ c.holds /\ team # "none"
    BY <1>1, EditorHolds, TeamExists DEF UnlistMember, Editing
  <1>3. Others(t) /\ Moves(c, d)
    BY <1>1, UnlistMemberMoves
  <1>4. UNCHANGED <<team, convs, removed, mutex, unlocked, loose>>
    BY DEF UnlistMember, history
  <1>5. \/ d.pc \in {"done", "check"} /\ roster' = roster
        \/ d.pc = "retire" /\ ~d.holds /\ roster' = c.snap \ {c.slot}
    <2>1. CASE End(t) /\ UNCHANGED roster
      <3>1. PICK b : Set(t, b) /\ Blank(b)
        BY <2>1, EndOthers
      <3>. QED BY <1>1, <2>1, <3>1, SetOthers DEF Blank
    <2>2. CASE Set(t, e) /\ roster' = c.snap \ {c.slot}
      <3>1. e.pc = "retire" /\ ~e.holds
        BY <1>1 DEF Call
      <3>. QED BY <1>1, <2>2, <3>1, SetOthers
    <2>. QED BY <1>1, <2>1, <2>2 DEF UnlistMember
  <1>6. RowMoves(c, d)
    BY <1>2, <1>4, <1>5 DEF RowMoves, Carries, Reserved
  <1>7. RosterSerialized'
    BY <1>1, <1>2, <1>3, <1>4, <1>5, NobodyEdits DEF Editing
  <1>8. team = "active" /\ d.pc \in Leaving => Listed(c.slot)'
    <2> SUFFICES ASSUME team = "active", d.pc \in Leaving PROVE Listed(c.slot)'
      OBVIOUS
    <2>1. d.pc = "retire" /\ ~d.holds /\ c.slot \notin roster'
      BY <1>5 DEF Leaving
    <2>2. \A u \in Callers : u # t => ~call[u].holds /\ call[u].pc \notin Fitting
      BY <1>1, <1>2, OneEditor, EditorHolds
    <2>3. \A u \in Callers : ~call'[u].holds /\ call'[u].pc \notin Fitting
      BY <1>1, <1>3, <2>1, <2>2 DEF Others, Fitting, Starting
    <2>. QED BY <2>1, <2>3 DEF Listed
  <1>9. team = "active" => Known' /\ \A m \in Slots \ loose' : Listed(m)'
    BY <1>1, <1>2, <1>3, <1>6, <1>8, MembersKept
  <1>. QED BY <1>2, <1>4, <1>7, <1>9 DEF RowInv

\* The conversation of a removed member is deleted: the invariant of the roster is kept.
LEMMA DeleteConversationRow ==
  ASSUME ServiceInv, RowInv, NEW t \in Callers, DeleteConversation(t)
  PROVE  RowInv'
  <1>1. PICK c, d : c = call[t] /\ d = call'[t]
    OBVIOUS
  <1>2. c.pc = "delete" /\ team # "none"
    BY <1>1, TeamExists DEF DeleteConversation
  <1>3. Others(t) /\ Moves(c, d)
    BY <1>1, OnlyEndsMoves
  <1>4. /\ UNCHANGED <<team, roster, mutex, unlocked, loose>>
        /\ convs' = convs \ {c.slot} /\ removed' = removed \cup {c.slot}
    BY <1>1 DEF DeleteConversation
  <1>5. RowMoves(c, d)
    BY <1>2, <1>3, <1>4 DEF Moves, RowMoves, Reserved
  <1>6. RosterSerialized'
    BY <1>1, <1>2, <1>3, <1>4 DEF RowInv, RosterSerialized, Moves, Others, Editing
  <1>7. team = "active" => Known' /\ \A m \in Slots \ loose' : Listed(m)'
    BY <1>1, <1>2, <1>3, <1>4, <1>5, MembersKept
  <1>. QED BY <1>2, <1>4, <1>6, <1>7 DEF RowInv

\* The write without the mutex is remembered by unlocked and by loose.
LEMMA WriteLastMessageRow ==
  ASSUME ServiceInv, RowInv, NEW t \in Callers, WriteLastMessage(t)
  PROVE  RowInv'
  <1>1. PICK c, d : c = call[t] /\ d = call'[t]
    OBVIOUS
  <1>2. c.pc = "write" /\ team # "none"
    BY <1>1, TeamExists DEF WriteLastMessage
  <1>3. Others(t) /\ Moves(c, d)
    BY <1>1, EndMoves DEF WriteLastMessage
  <1>4. /\ UNCHANGED <<team, convs, mutex, removed>>
        /\ unlocked' = (unlocked \/ roster' # roster) /\ loose' = loose \cup (roster' \ roster)
        /\ roster' = roster \/ roster' = c.snap
    BY <1>1 DEF WriteLastMessage
  <1>5. RowMoves(c, d)
    BY <1>2, <1>3, <1>4 DEF Moves, RowMoves, Reserved, Carries
  <1>6. RosterSerialized'
    <2>1. CASE roster' # roster
      <3>1. unlocked'
        BY <1>4, <2>1
      <3>. QED BY <3>1 DEF RosterSerialized
    <2>2. CASE roster' = roster
      <3>1. unlocked' => unlocked
        BY <1>4, <2>2
      <3>2. unlocked => unlocked'
        BY <1>4
      <3>. QED BY <1>1, <1>2, <1>3, <1>4, <2>2, <3>2 DEF RowInv, RosterSerialized, Moves, Others, Editing
    <2>. QED BY <2>1, <2>2
  <1>7. team = "active" => Known' /\ \A m \in Slots \ loose' : Listed(m)'
    BY <1>1, <1>2, <1>3, <1>4, <1>5, MembersKept
  <1>. QED BY <1>2, <1>4, <1>6, <1>7 DEF RowInv

\* The mutex is replaced when the team is active no more.
LEMMA CloseTeamRow ==
  ASSUME ServiceInv, RowInv, NEW t \in Callers, CloseTeam(t)
  PROVE  RowInv'
  <1>1. team' \in {"archived", "deleted"}
    BY DEF CloseTeam, rowVars
  <1>. QED BY <1>1 DEF RowInv, RosterSerialized

\* The team is created: the invariant of the roster is kept.
LEMMA CreationRow ==
  ASSUME ServiceInv, RowInv, CreateTeam \/ CreateFails \/ \E m \in Slots : ProvisionInitial(m)
  PROVE  RowInv'
  <1>1. /\ team = "none" /\ UNCHANGED <<mutex, call, removed>> /\ team' \in {"none", "active", "deleted"}
        /\ team' = "active" => roster' = convs /\ convs' = convs
    BY DEF CreateTeam, CreateFails, ProvisionInitial, history
  <1>2. removed = {} /\ mutex = 1 /\ \A t \in Callers : call[t].pc = "begin" /\ ~call[t].holds
    BY <1>1, CallFacts DEF RowInv, CallOK, LocksOK
  <1>3. \A t \in Callers : ~Reserved(call[t]) /\ \A m : ~Carries(call[t], m)
    BY <1>2 DEF Reserved, Carries
  <1>4. team' = "active" => Known'
    BY <1>1, <1>2, <1>3 DEF Known, Reserved, Carries
  <1>5. \A m : Listed(m)'
    BY <1>1, <1>2 DEF Listed, Unlisted, Leaving
  <1>6. RosterSerialized'
    BY <1>1, <1>2 DEF RosterSerialized
  <1>. QED BY <1>1, <1>2, <1>4, <1>5, <1>6 DEF RowInv

\* A request begins; a slot id that nobody has used is taken for a new member.
LEMMA BeginRow ==
  ASSUME ServiceInv, RowInv, NEW t \in Callers, Begin(t)
  PROVE  RowInv'
  <1>1. PICK d : Set(t, d) /\ Opening(d)
    BY TeamOpens, MemberOpens DEF Begin
  <1>2. Others(t) /\ call'[t] = d
    BY <1>1, SetOthers
  <1>3. /\ UNCHANGED <<team, roster, convs, removed, mutex, unlocked, loose>> /\ team # "none"
        /\ call[t].pc = "begin"
    BY DEF Begin, rowVars, history
  <1>4. RosterSerialized'
    BY <1>1, <1>2, <1>3 DEF RowInv, RosterSerialized, Others, Opening
  <1>5. /\ ~d.holds /\ d.slot \in Slots /\ d.pc \notin Removing \cup {"delete"} /\ d.pc # "persist"
        /\ \A m : Carries(d, m) => m \in roster
        /\ Reserved(d) => /\ d.slot \notin convs \cup roster \cup removed
                          /\ \A u \in Callers : call[u].slot # d.slot
    BY <1>1 DEF Opening, CallTyped, Carries, Removing, Reserved, Unused
  <1>6. ASSUME team = "active" PROVE Known'
    <2>1. Known
      BY <1>6 DEF RowInv
    <2>2. roster \subseteq Slots
      BY CallFacts
    <2>3. ASSUME NEW u \in Callers, NEW m \in Slots, Carries(call'[u], m) PROVE m \in convs \cup removed
      BY <1>2, <1>5, <2>1, <2>3 DEF Known, Others
    <2>4. ASSUME NEW v \in Callers, Reserved(call'[v]), NEW m, m = call'[v].slot
          PROVE  /\ m \notin roster \cup removed
                 /\ call'[v].pc = "persist" => m \in convs
                 /\ \A u \in Callers : ~Carries(call'[u], m)
                 /\ \A u \in Callers : u # v /\ call'[u].slot = m =>
                       ~Reserved(call'[u]) /\ call'[u].pc \notin Removing \cup {"delete"}
      <3>1. CASE v = t
        <4>1. m = d.slot /\ m \in Slots /\ m \notin convs \cup roster \cup removed
              /\ \A u \in Callers : call[u].slot # m
          BY <1>2, <1>5, <2>4, <3>1
        <4>2. \A u \in Callers : ~Carries(call'[u], m)
          BY <2>3, <4>1
        <4>. QED BY <1>2, <1>5, <3>1, <4>1, <4>2 DEF Others
      <3>2. CASE v # t
        <4>1. Reserved(call[v]) /\ m = call[v].slot /\ call'[v] = call[v]
          BY <1>2, <2>4, <3>2 DEF Others
        <4>2. /\ m \notin roster \cup removed
              /\ call[v].pc = "persist" => m \in convs
              /\ \A u \in Callers : ~Carries(call[u], m)
              /\ \A u \in Callers : u # v /\ call[u].slot = m =>
                    ~Reserved(call[u]) /\ call[u].pc \notin Removing \cup {"delete"}
          BY <2>1, <4>1 DEF Known
        <4>3. d.slot = m => ~Reserved(d)
          BY <1>5, <4>1
        <4>4. ~Carries(d, m)
          BY <1>5, <4>2
        <4>. QED BY <1>2, <1>5, <4>1, <4>2, <4>3, <4>4 DEF Others
      <3>. QED BY <3>1, <3>2
    <2>. QED BY <1>3, <2>1, <2>3, <2>4 DEF Known, Carries, Reserved
  <1>7. ASSUME team = "active", NEW m \in Slots \ loose PROVE Listed(m)'
    <2>1. Listed(m)
      BY <1>7 DEF RowInv
    <2>2. d.pc \notin Leaving \cup Fitting
      BY <1>1, <1>5 DEF Opening, Leaving, Removing, Fitting, Starting
    <2>. QED BY <1>2, <1>3, <1>5, <2>1, <2>2 DEF Listed, Unlisted, Others
  <1>. QED BY <1>3, <1>4, <1>6, <1>7 DEF RowInv

\* Steps of an attach task: the invariant of the roster is kept.
LEMMA AttachRow ==
  ASSUME RowInv, NEW a \in attaches, AttachStep(a)
  PROVE  RowInv'
  <1>1. UNCHANGED <<team, roster, convs, mutex, call, removed, loose, unlocked>>
    BY DEF AttachStep, AttachStart, AttachWarm, AttachCheck, AttachRegister, AttachAnnounce, AttachClean,
           AttachFailed, AttachCommit, AttachReport, rowVars, history
  <1>. QED BY <1>1 DEF RowInv, RosterSerialized, Known, Listed, Unlisted

\* Every step of the service keeps the invariant of the roster.
LEMMA RowStep == ServiceInv /\ RowInv /\ [ServiceNext]_serviceVars => RowInv'
  <1> SUFFICES ASSUME ServiceInv, RowInv, ServiceNext \/ UNCHANGED serviceVars PROVE RowInv'
    OBVIOUS
  <1>1. CASE \E t \in Callers : Begin(t) \/ CheckOwned(t) \/ EnsureStep(t) \/ StopStep(t)
    BY <1>1, BeginRow, EnsureStepRow, QuietMemberRow, CloseTeamRow DEF StopStep
  <1>2. CASE \E t \in Callers : MemberStep(t)
    BY <1>2, QuietMemberRow, ProvisionAgentRow, PersistAgentsRow, UnlistMemberRow, DeleteConversationRow,
       WriteLastMessageRow DEF MemberStep
  <1>3. CASE \E a \in attaches : AttachStep(a)
    BY <1>3, AttachRow
  <1>4. CASE CreateTeam \/ CreateFails \/ \E m \in Slots : ProvisionInitial(m)
    BY <1>4, CreationRow
  <1>5. CASE UNCHANGED serviceVars
    BY <1>5 DEF RowInv, RosterSerialized, Known, Listed, Unlisted, serviceVars, rowVars, history
  <1>. QED BY <1>1, <1>2, <1>3, <1>4, <1>5 DEF ServiceNext

\* The invariant of the roster holds of the service.
LEMMA RowInvariant == ServiceSpec => []RowInv
  <1>1. ServiceInit => RowInv
    BY DEF ServiceInit, RowInv, RosterSerialized, Call
  <1>. QED BY <1>1, RowStep, ServiceInvariant, PTL DEF ServiceSpec

\* Between reading the roster of an active team and writing it back nobody has
\* written another one, unless persist_agent_last_message has.
THEOREM RosterEditsAreSerialized == ServiceSpec => []RosterSerialized
  <1>1. RowInv => RosterSerialized
    BY DEF RowInv
  <1>. QED BY <1>1, RowInvariant, PTL

-----------------------------------------------------------------------------
(* The published session after a removal                                    *)

\* In session p operations keep their members, and no runtime is started, but
\* for the members X.
RegTurn(p, X) ==
    /\ \A o \in 1..reg[p].lastOp : reg'[p].leases[o] = reg[p].leases[o]
    /\ \A b \in Slots : b \in X \/ reg'[p].entry[b] = reg[p].entry[b]
                                \/ reg'[p].entry[b].kind \notin {"Attaching", "Ready"}

\* A registry that is left alone starts nothing.
LEMMA SameTurn ==
  ASSUME NEW p, reg'[p] = reg[p]
  PROVE  RegTurn(p, {})
  BY DEF RegTurn

\* A new operation starts the runtime of its member, if it is an attach.
LEMMA StartedTurn ==
  ASSUME ServiceInv, NEW p \in 1..gens, NEW g \in 1..gens, NEW m \in Slots, NEW kind \in {"Attaching", "Removing"},
         ~reg[g].stopped, reg[g].entry[m].kind # "Removing", RegBecomes(g, Started(reg[g], m, kind))
  PROVE  RegTurn(p, {m}) /\ (kind = "Removing" => RegTurn(p, {}))
  <1>1. CASE g # p
    BY <1>1, Begun DEF RegTurn, RegBecomes
  <1>2. CASE g = p
    <2>1. /\ RegStep(g, reg'[g], 0)
          /\ reg'[g].entry[m] = Entry(kind, reg[g].lastOp + 1)
          /\ \A a \in Slots : a # m => reg'[g].entry[a] = reg[g].entry[a]
      BY StartedStep
    <2>2. \A o \in 1..reg[g].lastOp : reg'[g].leases[o] = reg[g].leases[o]
      BY <2>1 DEF RegStep, Evolves
    <2>3. reg'[g].entry[m].kind = kind
      BY <2>1 DEF Entry
    <2>. QED BY <1>2, <2>1, <2>2, <2>3 DEF RegTurn
  <1>. QED BY <1>1, <1>2

\* An operation that ends leaves a runtime only if it ends Ready.
LEMMA EndedTurn ==
  ASSUME ServiceInv, NEW p \in 1..gens, NEW g \in 1..gens, NEW o \in 1..reg[g].lastOp,
         NEW kind \in {"Attaching", "Removing"}, Owns(reg[g], o, kind),
         NEW e \in {Entry("Ready", 0), Entry("Absent", 0), Entry("Failed", o)},
         NEW x \in {"Ready", "Removed", "Failed"}, RegBecomes(g, Ended(reg[g], o, e, x))
  PROVE  /\ e # Entry("Ready", 0) => RegTurn(p, {})
         /\ g = p => RegTurn(p, {reg[g].leases[o]})
         /\ g # p => RegTurn(p, {})
  <1>1. CASE g # p
    BY <1>1, Begun DEF RegTurn, RegBecomes
  <1>2. CASE g = p
    <2>1. /\ reg'[g].leases = reg[g].leases /\ reg[g].leases[o] \in Slots
          /\ reg'[g].entry[reg[g].leases[o]] = e
          /\ \A a \in Slots : a # reg[g].leases[o] => reg'[g].entry[a] = reg[g].entry[a]
      BY EndedStep
    <2>2. e # Entry("Ready", 0) => e.kind \notin {"Attaching", "Ready"}
      BY DEF Entry
    <2>. QED BY <1>2, <2>1, <2>2 DEF RegTurn
  <1>. QED BY <1>1, <1>2

\* Where nothing is started, what is clean stays clean.
LEMMA CleanTurn ==
  ASSUME ServiceInv, NEW p, NEW X, RegTurn(p, X), NEW m \in Slots, m \notin X,
         m \in sched'[p] => m \in sched[p], m \in loops'[p] => m \in loops[p],
         \A a \in attaches : a.gen = p /\ a.pc = "commit" /\ a.fresh => a \in attaches' \/ m \notin loops'[p]
                                                                        \/ Member(a) # m
  PROVE  (Clean(p, m) => Clean(p, m)') /\ (Off(p, m) => Off(p, m)')
  <1>1. Off(p, m) => Off(p, m)'
    BY DEF Off, RegTurn
  <1>2. ASSUME Clean(p, m), m \in loops'[p]
        PROVE  \E a \in attaches' : a.gen = p /\ reg'[a.gen].leases[a.op] = m /\ a.pc = "commit" /\ a.fresh
    <2>1. PICK a \in attaches : a.gen = p /\ Member(a) = m /\ a.pc = "commit" /\ a.fresh
      BY <1>2 DEF Clean
    <2>2. a \in attaches'
      BY <1>2, <2>1
    <2>3. a.op \in 1..reg[a.gen].lastOp
      BY StaleAttach
    <2>4. reg'[a.gen].leases[a.op] = m
      BY <2>1, <2>3 DEF RegTurn, Member
    <2>. QED BY <2>1, <2>2, <2>4
  <1>3. ASSUME Clean(p, m) PROVE Clean(p, m)'
    <2>1. m \notin sched'[p] /\ Off(p, m)'
      BY <1>1, <1>3 DEF Clean
    <2>. QED BY <1>2, <1>3, <2>1 DEF Clean, Member
  <1>. QED BY <1>1, <1>3

\* A step of request t, by which the members X may be started.
LEMMA CleanStep ==
  ASSUME ServiceInv, RowInv, CleanInv, team' = team, NEW p, p = published, published' = p,
         NEW t \in Callers, Others(t), NEW c, NEW d, c = call[t], d = call'[t],
         \A m : m \in loose => m \in loose',
         \A m : m \in removed' => m \in removed \/ (c.pc = "delete" /\ m = c.slot),
         attaches \subseteq attaches', NEW X,
         team = "active" /\ p # None =>
            /\ RegTurn(p, X)
            /\ \A m \in Slots : m \in X /\ Unlisted(m) => m \in loose'
            /\ \A m : m \in sched'[p] => m \in sched[p] \/ m \in X
            /\ \A m : m \in loops'[p] => m \in loops[p]
            /\ d.pc \in {"finish", "delete"} => d.slot \in loose' \/ Clean(p, d.slot)'
            /\ d.pc = "detach" => d.gen = p /\ (d.slot \in loose' \/ Off(p, d.slot)')
  PROVE  CleanInv'
  <1> SUFFICES ASSUME team = "active", p # None, NEW m \in Slots, m \notin loose' PROVE Cleaned(m)'
    BY DEF CleanInv
  <1>1. Cleaned(m)
    BY DEF CleanInv
  <1>2. Unlisted(m) => (Clean(p, m) => Clean(p, m)') /\ (Off(p, m) => Off(p, m)')
    <2> SUFFICES ASSUME Unlisted(m) PROVE (Clean(p, m) => Clean(p, m)') /\ (Off(p, m) => Off(p, m)')
      OBVIOUS
    <2>1. m \notin X /\ RegTurn(p, X)
      OBVIOUS
    <2>2. (m \in sched'[p] => m \in sched[p]) /\ (m \in loops'[p] => m \in loops[p])
      BY <2>1
    <2>. QED BY <2>1, <2>2, CleanTurn
  <1>3. ASSUME m \in removed' PROVE Clean(p, m)'
    <2>1. Unlisted(m) /\ Clean(p, m)
      BY <1>1, <1>3 DEF Unlisted, Leaving, Cleaned, Cleared
    <2>. QED BY <1>2, <2>1
  <1>4. ASSUME NEW u \in Callers, call'[u].slot = m,
               call'[u].pc \in {"finish", "delete"} \/ (call'[u].pc = "detach" /\ call'[u].gen # p)
        PROVE  Clean(p, m)'
    <2>1. CASE u = t
      BY <1>4, <2>1
    <2>2. CASE u # t
      <3>1. call'[u] = call[u]
        BY <2>2 DEF Others
      <3>2. Unlisted(m) /\ Clean(p, m)
        BY <1>1, <1>4, <3>1 DEF Unlisted, Leaving, Cleaned, Cleared
      <3>. QED BY <1>2, <3>2
    <2>. QED BY <2>1, <2>2
  <1>5. ASSUME NEW u \in Callers, call'[u].slot = m, call'[u].pc = "detach" PROVE Off(p, m)'
    <2>1. CASE u = t
      BY <1>5, <2>1
    <2>2. CASE u # t
      <3>1. call'[u] = call[u]
        BY <2>2 DEF Others
      <3>2. Unlisted(m) /\ Off(p, m)
        BY <1>1, <1>5, <3>1 DEF Unlisted, Leaving, Cleaned
      <3>. QED BY <1>2, <3>2
    <2>. QED BY <2>1, <2>2
  <1>6. (m \in removed \/ \E u \in Callers : call[u].slot = m /\ Cleared(call[u]))' => Clean(p, m)'
    BY <1>3, <1>4 DEF Cleared
  <1>. QED BY <1>5, <1>6 DEF Cleaned

\* A step that leaves the sessions alone.
LEMMA QuietClean ==
  ASSUME ServiceInv, RowInv, CleanInv, NEW t \in Callers, Others(t),
         call'[t].pc \notin {"detach", "finish", "delete"},
         UNCHANGED <<team, published, reg, sched, loops>>, loose \subseteq loose', attaches \subseteq attaches',
         \A m : m \in removed' => m \in removed \/ (call[t].pc = "delete" /\ m = call[t].slot)
  PROVE  CleanInv'
  <1>1. PICK p, c, d : p = published /\ c = call[t] /\ d = call'[t]
    OBVIOUS
  <1>2. RegTurn(p, {})
    BY SameTurn
  <1>. QED BY <1>1, <1>2, CleanStep

\* Without a published session there is nothing to be said.
LEMMA NoneClean ==
  ASSUME published' = None \/ team' # "active"
  PROVE  CleanInv'
  BY DEF CleanInv

\* A session is published that knows nothing of the members that were removed.
LEMMA PublishClean ==
  ASSUME RowInv, NEW t \in Callers, Others(t), call'[t].pc \notin {"detach", "finish", "delete"},
         UNCHANGED <<team, removed, loose>>, NEW g, published' = g,
         \A m \in Slots : Unlisted(m) /\ m \notin loose /\ team = "active" => Clean(g, m)'
  PROVE  CleanInv'
  <1> SUFFICES ASSUME team = "active", NEW m \in Slots, m \notin loose PROVE Cleaned(m)'
    BY DEF CleanInv
  <1>1. CASE Unlisted(m)
    <2>1. Clean(g, m)'
      BY <1>1
    <2>2. Off(g, m)'
      BY <2>1 DEF Clean
    <2>. QED BY <2>1, <2>2 DEF Cleaned
  <1>2. CASE ~Unlisted(m)
    <2>1. m \notin removed' /\ \A u \in Callers : ~(call'[u].slot = m /\ call'[u].pc \in {"detach", "finish", "delete"})
      BY <1>2 DEF Unlisted, Leaving, Others
    <2>. QED BY <2>1 DEF Cleaned, Cleared
  <1>. QED BY <1>1, <1>2

\* A request that is not in a removal does not come into the end of one.
LEMMA StaysOut ==
  ASSUME NEW c, NEW d, Moves(c, d), c.pc \notin Leaving \cup {"unlist"}
  PROVE  d.pc \notin {"detach", "finish", "delete"}
  BY DEF Moves, Leaving

\* Steps of an ensure that leave the session alone: the published session stays clean.
LEMMA QuietEnsureClean ==
  ASSUME ServiceInv, RowInv, CleanInv, NEW t \in Callers,
         \/ LookUpMutex(t) \/ LoadTeam(t) \/ FindSession(t) \/ Settle(t) \/ ReserveStopped(t)
         \/ SpawnAttaches(t) \/ Recover(t)
  PROVE  CleanInv'
  <1>1. Others(t) /\ Moves(call[t], call'[t])
    BY LookUpMutexMoves, LoadTeamMoves, FindSessionMoves, SpawnAttachesMoves, OnlyEndsMoves
  <1>2. /\ call[t].pc \notin Leaving \cup {"unlist"} /\ UNCHANGED <<team, published, reg, sched, loops, removed, loose>>
        /\ attaches \subseteq attaches'
    BY DEF LookUpMutex, LoadTeam, FindSession, Settle, ReserveStopped, SpawnAttaches, Recover, Leaving,
           rowVars, sessionVars, history
  <1>. QED BY <1>1, <1>2, StaysOut, QuietClean

\* Steps of other requests that leave the session alone: the published session stays clean.
LEMMA QuietMemberClean ==
  ASSUME ServiceInv, RowInv, CleanInv, NEW t \in Callers,
         \/ CheckOwned(t) \/ EditRoster(t) \/ ProvisionAgent(t) \/ PersistAgents(t) \/ WelcomeAgent(t)
         \/ JoinRemoval(t) \/ ReloadRoster(t) \/ KillAll(t)
  PROVE  CleanInv'
  <1>1. Others(t) /\ Moves(call[t], call'[t])
    BY CheckOwnedMoves, EditRosterMoves, ProvisionAgentMoves, PersistAgentsMoves, WelcomeAgentMoves,
       ReloadRosterMoves, KillAllMoves, OnlyEndsMoves
  <1>2. /\ call[t].pc \notin Leaving \cup {"unlist"} /\ UNCHANGED <<team, published, reg, sched, loops, removed, loose>>
        /\ attaches \subseteq attaches'
    BY DEF CheckOwned, EditRoster, ProvisionAgent, PersistAgents, WelcomeAgent, JoinRemoval, ReloadRoster,
           KillAll, Leaving, rowVars, sessionVars, history
  <1>. QED BY <1>1, <1>2, StaysOut, QuietClean

\* Requests that return: persist_agent_last_message and the end of a removal.
LEMMA ReturnsClean ==
  ASSUME ServiceInv, RowInv, CleanInv, NEW t \in Callers, WriteLastMessage(t) \/ DeleteConversation(t)
  PROVE  CleanInv'
  <1>1. PICK d : Set(t, d) /\ Blank(d)
    BY EndOthers DEF WriteLastMessage, DeleteConversation
  <1>2. Others(t) /\ call'[t].pc \notin {"detach", "finish", "delete"}
    BY <1>1, SetOthers DEF Blank
  <1>3. /\ UNCHANGED <<team, published, reg, sched, loops, attaches>> /\ loose \subseteq loose'
        /\ \A m : m \in removed' => m \in removed \/ (call[t].pc = "delete" /\ m = call[t].slot)
    BY DEF WriteLastMessage, DeleteConversation, sessionVars
  <1>. QED BY <1>2, <1>3, QuietClean

\* A request begins: the published session stays clean.
LEMMA BeginClean ==
  ASSUME ServiceInv, RowInv, CleanInv, NEW t \in Callers, Begin(t)
  PROVE  CleanInv'
  <1>1. PICK d : Set(t, d) /\ Opening(d)
    BY TeamOpens, MemberOpens DEF Begin
  <1>2. Others(t) /\ call'[t].pc \notin {"detach", "finish", "delete"}
    BY <1>1, SetOthers DEF Opening
  <1>3. UNCHANGED <<team, published, reg, sched, loops, attaches, removed, loose>>
    BY DEF Begin, rowVars, sessionVars, history
  <1>. QED BY <1>2, <1>3, QuietClean

\* No session is published while another one is being started.
LEMMA StartingClean ==
  ASSUME ServiceInv, NEW t \in Callers,
         \/ AbortStart(t) \/ SpawnEventLoops(t)
         \/ \E m \in Slots : LaunchJob(t, m) \/ EndJob(t, m) \/ SeedReady(t, m)
  PROVE  CleanInv'
  <1>1. call[t].pc \in Starting /\ published' = published
    BY DEF AbortStart, SpawnEventLoops, LaunchJob, EndJob, SeedReady, Starting, sessionVars
  <1>2. published = None
    BY <1>1, CallFacts DEF CallOK, GenOK
  <1>. QED BY <1>1, <1>2, NoneClean

\* The roster that the new session was started with was read under the mutex.
LEMMA PublishSessionClean ==
  ASSUME ServiceInv, RowInv, NEW t \in Callers, PublishSession(t)
  PROVE  CleanInv'
  <1>1. PICK c, g : c = call[t] /\ g = c.gen
    OBVIOUS
  <1>2. /\ c.pc = "seed" /\ c.todo = {} /\ published' = g
        /\ UNCHANGED <<team, removed, loose, reg, sched, loops, attaches>>
    BY <1>1 DEF PublishSession, rowVars, history
  <1>3. Others(t) /\ call'[t].pc \notin {"detach", "finish", "delete"}
    BY <1>1, <1>2, PublishSessionMoves, StaysOut DEF Leaving
  <1>4. CallOK(c) /\ c.holds
    BY <1>1, <1>2, CallFacts, EditorHolds DEF Fitting, Starting
  <1>5. /\ sched[g] = c.snap /\ loops[g] = c.snap
        /\ \A m \in Slots : reg[g].entry[m].kind # "Absent" => m \in c.snap
    BY <1>1, <1>2, <1>4 DEF CallOK, GenOK, Starting
  <1>6. ASSUME NEW m \in Slots, Unlisted(m), m \notin loose, team = "active" PROVE Clean(g, m)'
    <2>1. m \notin c.snap
      BY <1>1, <1>4, <1>6 DEF RowInv, Listed
    <2>2. m \notin sched[g] /\ m \notin loops[g] /\ Off(g, m)
      BY <1>5, <2>1 DEF Off
    <2>. QED BY <1>2, <2>2 DEF Clean, Off
  <1>. QED BY <1>2, <1>3, <1>6, PublishClean

\* A session is joined or started under the ensure mutex: the published session stays clean.
LEMMA StartSessionClean ==
  ASSUME ServiceInv, RowInv, CleanInv, NEW t \in Callers, StartSession(t)
  PROVE  CleanInv'
  <1>1. PICK c, g : c = call[t] /\ g = gens + 1
    OBVIOUS
  <1>2. c.pc = "start" /\ UNCHANGED <<team, removed, loose, attaches>>
    BY <1>1 DEF StartSession, rowVars, history
  <1>3. Others(t) /\ call'[t].pc \notin {"detach", "finish", "delete"}
    BY <1>1, <1>2, StartSessionMoves, StaysOut DEF Leaving
  <1>4. \/ UNCHANGED <<published, reg, sched, loops>>
        \/ published' = published /\ published = None
        \/ /\ g \in Generations /\ published' = g /\ UNCHANGED <<reg, loops>>
           /\ sched' = [sched EXCEPT ![g] = c.snap]
    <2>1. DOMAIN c = Fields
      BY <1>1, CallFacts DEF CallTyped
    <2>2. [c EXCEPT !.gen = g].gen = g
      BY <2>1 DEF Fields
    <2>. QED BY <1>1, <2>2 DEF StartSession, NewSession, StartForAll, StartForOne, sessionVars
  <1>5. CASE UNCHANGED <<published, reg, sched, loops>>
    BY <1>2, <1>3, <1>5, QuietClean
  <1>6. CASE published' = published /\ published = None
    BY <1>6, NoneClean
  <1>7. CASE /\ g \in Generations /\ published' = g /\ UNCHANGED <<reg, loops>>
             /\ sched' = [sched EXCEPT ![g] = c.snap]
    <2>1. /\ c.holds /\ reg[g] = Registry /\ loops[g] = {} /\ sched'[g] = c.snap
      <3>1. c.holds
        BY <1>1, <1>2, EditorHolds DEF Fitting
      <3>2. g > gens /\ g \in DOMAIN sched
        BY <1>1, <1>7, CallFacts DEF ServiceInv, SessionsOK
      <3>. QED BY <1>7, <3>1, <3>2 DEF ServiceInv, SessionsOK
    <2>2. ASSUME NEW m \in Slots, Unlisted(m), m \notin loose, team = "active" PROVE Clean(g, m)'
      <3>1. m \notin c.snap
        BY <1>1, <2>1, <2>2 DEF RowInv, Listed
      <3>2. reg'[g].entry[m].kind = "Absent"
        BY <1>7, <2>1 DEF Registry, Entry
      <3>3. m \notin loops'[g] /\ m \notin sched'[g]
        BY <1>7, <2>1, <3>1
      <3>. QED BY <3>2, <3>3 DEF Clean, Off
    <2>. QED BY <1>2, <1>3, <1>7, <2>2, PublishClean
  <1>. QED BY <1>4, <1>5, <1>6, <1>7

\* A member that was removed is not among those to be attached.
LEMMA ReserveMemberClean ==
  ASSUME ServiceInv, RowInv, CleanInv, NEW t \in Callers, NEW m \in Slots, ReserveMember(t, m)
  PROVE  CleanInv'
  <1>1. PICK c, d, p, g : c = call[t] /\ d = call'[t] /\ p = published /\ g = c.gen
    OBVIOUS
  <1>2. /\ c.pc = "reserve" /\ m \in c.todo /\ ~reg[g].stopped /\ sched' = [sched EXCEPT ![g] = sched[g] \cup {m}]
        /\ UNCHANGED <<team, published, loops, removed, loose, attaches>>
    BY <1>1 DEF ReserveMember, rowVars, history
  <1>3. Others(t) /\ d.pc \notin {"detach", "finish", "delete"}
    BY <1>1, <1>2, ReserveMemberMoves, StaysOut DEF Leaving
  <1>4. \A b \in Slots : team = "active" /\ b \in {m} /\ Unlisted(b) => b \in loose
    BY <1>1, <1>2 DEF RowInv, Listed, Fitting
  <1>5. \A b : b \in sched'[p] => b \in sched[p] \/ b \in {m}
    BY <1>2
  <1>6. p # None => RegTurn(p, {m})
    <2>1. CASE p # None /\ NeedsAttach(reg[g], m)
      <3>1. reg' = [reg EXCEPT ![g] = Started(reg[g], m, "Attaching")]
        BY <1>1, <2>1 DEF ReserveMember
      <3>2. g \in 1..gens /\ p \in 1..gens
        BY <1>1, <1>2, <2>1, CallFacts DEF CallOK, GenOK, None
      <3>3. RegBecomes(g, Started(reg[g], m, "Attaching"))
        BY <3>1, <3>2, Begun DEF RegBecomes
      <3>4. reg[g].entry[m].kind # "Removing"
        BY <2>1 DEF NeedsAttach
      <3>. QED BY <1>2, <3>2, <3>3, <3>4, StartedTurn
    <2>2. CASE ~NeedsAttach(reg[g], m)
      <3>1. reg' = reg
        BY <1>1, <2>2 DEF ReserveMember
      <3>. QED BY <3>1 DEF RegTurn
    <2>. QED BY <2>1, <2>2
  <1>. QED BY <1>1, <1>2, <1>3, <1>4, <1>5, <1>6, CleanStep

\* A member that is not on the roster any more is admitted behind the registry's back.
LEMMA AdmitAgentClean ==
  ASSUME ServiceInv, RowInv, CleanInv, NEW t \in Callers, AdmitAgent(t)
  PROVE  CleanInv'
  <1>1. PICK c, d, p, m : c = call[t] /\ d = call'[t] /\ p = published /\ m = c.slot
    OBVIOUS
  <1>2. c.pc = "admit" /\ UNCHANGED <<team, published, loops, removed, attaches>>
    BY <1>1 DEF AdmitAgent, rowVars
  <1>3. CASE p = None
    BY <1>1, <1>2, <1>3, NoneClean
  <1>4. CASE p # None
    <2>1. Others(t) /\ d.pc \notin {"detach", "finish", "delete"}
      BY <1>1, <1>2, AdmitAgentMoves, StaysOut DEF Leaving
    <2>2. /\ p \in 1..gens /\ m \in Slots /\ ~reg[p].stopped
      BY <1>1, <1>4, CallFacts DEF CallTyped, None
    <2>3. /\ loose' = IF m \in roster THEN loose ELSE loose \cup {m}
          /\ sched' = [sched EXCEPT ![p] = sched[p] \cup {m}]
      BY <1>1, <1>4 DEF AdmitAgent
    <2>4. \A b \in Slots : team = "active" /\ b \in {m} /\ Unlisted(b) => b \in loose'
      BY <2>3 DEF RowInv, Listed
    <2>5. \A b : b \in sched'[p] => b \in sched[p] \/ b \in {m}
      BY <2>3
    <2>6. RegTurn(p, {m})
      <3>1. CASE reg[p].entry[m].kind = "Absent"
        <4>1. reg' = [reg EXCEPT ![p] = Started(reg[p], m, "Attaching")]
          BY <1>1, <1>4, <2>2, <3>1 DEF AdmitAgent
        <4>2. RegBecomes(p, Started(reg[p], m, "Attaching"))
          BY <2>2, <4>1, Begun DEF RegBecomes
        <4>. QED BY <2>2, <3>1, <4>2, StartedTurn
      <3>2. CASE reg[p].entry[m].kind # "Absent"
        <4>1. reg' = reg
          BY <1>1, <1>4, <3>2 DEF AdmitAgent
        <4>. QED BY <4>1 DEF RegTurn
      <3>. QED BY <3>1, <3>2
    <2>7. \A b : b \in loose => b \in loose'
      BY <2>3
    <2>. QED BY <1>1, <1>2, <2>1, <2>4, <2>5, <2>6, <2>7, CleanStep
  <1>. QED BY <1>3, <1>4

\* Removals that begin in the published session.
LEMMA RemovalTurn ==
  ASSUME ServiceInv, NEW p, p = published, p # None, NEW m \in Slots,
         reg' = reg \/ (Removable(reg[p], m) /\ reg' = [reg EXCEPT ![p] = Removal(reg[p], m)])
  PROVE  RegTurn(p, {})
  <1>1. CASE reg' = reg
    BY <1>1 DEF RegTurn
  <1>2. CASE Removable(reg[p], m) /\ reg' = [reg EXCEPT ![p] = Removal(reg[p], m)]
    <2>1. p \in 1..gens
      BY DEF ServiceInv, SessionsOK, None
    <2>2. RegBecomes(p, Started(reg[p], m, "Removing"))
      BY <1>2, <2>1, Begun DEF RegBecomes, Removal
    <2>3. ~reg[p].stopped /\ reg[p].entry[m].kind # "Removing"
      BY <1>2 DEF Removable
    <2>. QED BY <2>1, <2>2, <2>3, StartedTurn
  <1>. QED BY <1>1, <1>2

\* A removal begins or is joined: the published session stays clean.
LEMMA RemoveAgentClean ==
  ASSUME ServiceInv, RowInv, CleanInv, NEW t \in Callers, RemoveAgent(t)
  PROVE  CleanInv'
  <1>1. PICK c, d, p, m : c = call[t] /\ d = call'[t] /\ p = published /\ m = c.slot
    OBVIOUS
  <1>2. /\ c.pc = "remove" /\ UNCHANGED <<team, published, sched, loops, removed, loose, attaches>>
        /\ m \in Slots
    BY <1>1, CallFacts DEF RemoveAgent, rowVars, CallTyped
  <1>3. Others(t) /\ d.pc \notin {"detach", "finish", "delete"}
    BY <1>1, <1>2, RemoveAgentMoves, StaysOut DEF Leaving
  <1>4. reg' = reg \/ (p # None /\ Removable(reg[p], m) /\ reg' = [reg EXCEPT ![p] = Removal(reg[p], m)])
    BY <1>1 DEF RemoveAgent
  <1>5. p # None => RegTurn(p, {})
    BY <1>1, <1>2, <1>4, RemovalTurn
  <1>. QED BY <1>1, <1>2, <1>3, <1>5, CleanStep

\* A removal aborts the loop and kills the task: the published session stays clean.
LEMMA KillMemberClean ==
  ASSUME ServiceInv, RowInv, CleanInv, NEW t \in Callers, KillMember(t)
  PROVE  CleanInv'
  <1>1. PICK c, d, p : c = call[t] /\ d = call'[t] /\ p = published
    OBVIOUS
  <1>2. /\ c.pc = "kill" /\ UNCHANGED <<team, published, reg, sched, removed, loose, attaches>>
        /\ \A b : b \in loops'[p] => b \in loops[p]
    BY <1>1 DEF KillMember, rowVars, history
  <1>3. Others(t) /\ d.pc \notin {"detach", "finish", "delete"}
    BY <1>1, <1>2, KillMemberMoves, StaysOut DEF Leaving
  <1>4. RegTurn(p, {})
    BY <1>2, SameTurn
  <1>. QED BY <1>1, <1>2, <1>3, <1>4, CleanStep

\* A removal that a request ends.
LEMMA RemovalEndTurn ==
  ASSUME ServiceInv, NEW p, p = published, p # None, NEW t \in Callers, NEW c, c = call[t],
         NEW e \in {Entry("Absent", 0), Entry("Failed", c.lease)}, NEW x \in {"Removed", "Failed"},
         \/ reg' = reg
         \/ /\ c.gen # None /\ Owns(reg[c.gen], c.lease, "Removing")
            /\ reg' = [reg EXCEPT ![c.gen] = Ended(reg[c.gen], c.lease, e, x)]
  PROVE  RegTurn(p, {})
  <1>1. CASE reg' = reg
    BY <1>1 DEF RegTurn
  <1>2. CASE /\ c.gen # None /\ Owns(reg[c.gen], c.lease, "Removing")
             /\ reg' = [reg EXCEPT ![c.gen] = Ended(reg[c.gen], c.lease, e, x)]
    <2>1. PICK g, o : g = c.gen /\ o = c.lease
      OBVIOUS
    <2>2. CallOK(c) /\ gens \in Nat /\ c.lease # 0 /\ p \in 1..gens
      BY <1>2, CallFacts DEF Owns, None
    <2>3. g \in 1..gens /\ o \in 1..reg[g].lastOp
      BY <1>2, <2>1, <2>2 DEF CallOK, GenOK, OpsOK, None
    <2>4. RegBecomes(g, Ended(reg[g], o, e, x))
      BY <1>2, <2>1, <2>3, Begun DEF RegBecomes
    <2>5. /\ e \in {Entry("Ready", 0), Entry("Absent", 0), Entry("Failed", o)} /\ e # Entry("Ready", 0)
          /\ x \in {"Ready", "Removed", "Failed"} /\ Owns(reg[g], o, "Removing")
      BY <1>2, <2>1 DEF Entry
    <2> HIDE <1>2
    <2>. QED BY <2>2, <2>3, <2>4, <2>5, EndedTurn
  <1>. QED BY <1>1, <1>2

\* A removal writes the roster, or fails to: the published session stays clean.
LEMMA UnlistMemberClean ==
  ASSUME ServiceInv, RowInv, CleanInv, NEW t \in Callers, UnlistMember(t)
  PROVE  CleanInv'
  <1>1. PICK c, d, p : c = call[t] /\ d = call'[t] /\ p = published
    OBVIOUS
  <1>2. c.pc = "unlist" /\ UNCHANGED <<team, published, sched, loops, removed, loose, attaches>>
    BY <1>1 DEF UnlistMember, history
  <1>3. Others(t) /\ d.pc \notin {"detach", "finish", "delete"}
    <2>1. PICK e : e = [Call(c.op, "retire", c.slot) EXCEPT !.gen = c.gen, !.lease = c.lease]
      OBVIOUS
    <2>2. e.pc = "retire"
      BY <2>1 DEF Call
    <2>3. CASE Set(t, e)
      BY <1>1, <2>2, <2>3, SetOthers
    <2>4. CASE End(t)
      <3>1. PICK b : Set(t, b) /\ Blank(b)
        BY <2>4, EndOthers
      <3>. QED BY <1>1, <3>1, SetOthers DEF Blank
    <2>. QED BY <1>1, <2>1, <2>3, <2>4 DEF UnlistMember
  <1>4. p # None => RegTurn(p, {})
    <2>1. PICK e, x : e = Entry("Failed", c.lease) /\ x = "Failed"
      OBVIOUS
    <2>2. \/ reg' = reg
          \/ /\ c.gen # None /\ Owns(reg[c.gen], c.lease, "Removing")
             /\ reg' = [reg EXCEPT ![c.gen] = Ended(reg[c.gen], c.lease, e, x)]
      BY <1>1, <2>1 DEF UnlistMember
    <2>3. e \in {Entry("Absent", 0), Entry("Failed", c.lease)} /\ x \in {"Removed", "Failed"}
      BY <2>1
    <2>. QED BY <1>1, <2>2, <2>3, RemovalEndTurn
  <1>. QED BY <1>1, <1>2, <1>3, <1>4, CleanStep

\* The session in which the removal goes on has no runtime of the member.
LEMMA RetireMemberClean ==
  ASSUME ServiceInv, RowInv, CleanInv, NEW t \in Callers, RetireMember(t)
  PROVE  CleanInv'
  <1>1. PICK c, d, p, m : c = call[t] /\ d = call'[t] /\ p = published /\ m = c.slot
    OBVIOUS
  <1>2. /\ c.pc = "retire" /\ UNCHANGED <<team, published, sched, loops, removed, attaches>> /\ m \in Slots
        /\ \A b : b \in loose => b \in loose'
    BY <1>1, CallFacts DEF RetireMember, rowVars, CallTyped
  <1>3. CASE p = None
    BY <1>1, <1>2, <1>3, NoneClean
  <1>4. CASE p # None
    <2>1. Others(t)
      BY RetireMemberMoves
    <2>2. CallOK(c) /\ p \in 1..gens /\ ~reg[p].stopped
      BY <1>1, <1>4, CallFacts DEF None
    <2>3. reg[p].entry[m].kind \in Kinds
      BY <1>2, <2>2, CallFacts, RegParts
    <2>4. RegTurn(p, {})
      <3>1. reg' = reg \/ (Removable(reg[p], m) /\ reg' = [reg EXCEPT ![p] = Removal(reg[p], m)])
        BY <1>1 DEF RetireMember
      <3>. QED BY <1>1, <1>2, <1>4, <3>1, RemovalTurn
    <2>5. PICK out, e, f, k : /\ out = [c EXCEPT !.pc = "detach", !.gen = p, !.lease = 0]
                              /\ e = [out EXCEPT !.lease = reg[p].lastOp + 1]
                              /\ f = [out EXCEPT !.waits = {reg[p].entry[m].op}]
                              /\ k = [c EXCEPT !.pc = "detach"]
      OBVIOUS
    <2>6. /\ out.pc = "detach" /\ out.slot = m /\ out.gen = p
          /\ e.pc = "detach" /\ e.slot = m /\ e.gen = p
          /\ f.pc = "detach" /\ f.slot = m /\ f.gen = p
          /\ k.pc = "detach" /\ k.slot = m /\ k.gen = c.gen
      BY <1>1, <2>5, CallFacts DEF CallTyped, Fields
    <2>7. CASE p = c.gen
      <3>1. Set(t, k) /\ reg' = reg /\ loose' = IF c.lease = 0 THEN loose \cup {m} ELSE loose
        BY <1>1, <1>4, <2>5, <2>7 DEF RetireMember
      <3>2. c.lease # 0 => Off(p, m)'
        <4> SUFFICES ASSUME c.lease # 0 PROVE Off(p, m)'
          OBVIOUS
        <4>1. reg[p].entry[m] = Entry("Removing", c.lease)
          BY <1>1, <1>2, <2>2, <2>7 DEF CallOK, OpsOK, Removing
        <4>2. reg'[p].entry[m].kind = "Removing"
          BY <3>1, <4>1 DEF Entry
        <4>. QED BY <4>2 DEF Off
      <3>3. d.pc = "detach" /\ d.gen = p /\ d.slot = m /\ (m \in loose' \/ Off(p, m)')
        BY <1>1, <2>6, <2>7, <3>1, <3>2, SetOthers
      <3>. QED BY <1>1, <1>2, <2>1, <2>4, <3>3, CleanStep
    <2>8. CASE p # c.gen /\ Removable(reg[p], m)
      <3>1. Set(t, e) /\ reg' = [reg EXCEPT ![p] = Removal(reg[p], m)]
        BY <1>1, <1>4, <2>5, <2>8 DEF RetireMember
      <3>2. RegBecomes(p, Started(reg[p], m, "Removing"))
        BY <2>2, <3>1, Begun DEF RegBecomes, Removal
      <3>3. reg'[p].entry[m] = Entry("Removing", reg[p].lastOp + 1)
        BY <1>2, <2>2, <2>8, <3>2, StartedStep DEF Removable
      <3>4. reg'[p].entry[m].kind = "Removing"
        BY <3>3 DEF Entry
      <3>5. Off(p, m)'
        BY <3>4 DEF Off
      <3>6. d.pc = "detach" /\ d.gen = p /\ d.slot = m
        BY <1>1, <2>6, <3>1, SetOthers
      <3>. QED BY <1>1, <1>2, <2>1, <2>4, <3>5, <3>6, CleanStep
    <2>9. CASE p # c.gen /\ ~Removable(reg[p], m)
      <3>1. (Set(t, out) \/ Set(t, f)) /\ reg' = reg
        BY <1>1, <1>4, <2>5, <2>9 DEF RetireMember
      <3>2. reg[p].entry[m].kind \in {"Absent", "Removing"}
        BY <2>2, <2>3, <2>9 DEF Removable, Kinds
      <3>3. Off(p, m)'
        BY <3>1, <3>2 DEF Off
      <3>4. d.pc = "detach" /\ d.gen = p /\ d.slot = m
        BY <1>1, <2>6, <3>1, SetOthers
      <3>. QED BY <1>1, <1>2, <2>1, <2>4, <3>3, <3>4, CleanStep
    <2>. QED BY <2>7, <2>8, <2>9
  <1>. QED BY <1>3, <1>4

\* A removal takes the slot out of the scheduler: the published session stays clean.
LEMMA DetachMemberClean ==
  ASSUME ServiceInv, RowInv, CleanInv, NEW t \in Callers, DetachMember(t)
  PROVE  CleanInv'
  <1>1. PICK c, d, p, m, g : c = call[t] /\ d = call'[t] /\ p = published /\ m = c.slot /\ g = c.gen
    OBVIOUS
  <1>2. /\ c.pc = "detach" /\ UNCHANGED <<team, published, reg, removed, loose, attaches>> /\ m \in Slots
        /\ sched' = [sched EXCEPT ![g] = sched[g] \ {m}] /\ loops' = [loops EXCEPT ![g] = loops[g] \ {m}]
    BY <1>1, CallFacts DEF DetachMember, rowVars, history, CallTyped
  <1>3. Others(t) /\ d.pc = "finish" /\ d.slot = m
    <2>1. PICK e : e = [c EXCEPT !.pc = "finish"]
      OBVIOUS
    <2>2. e.pc = "finish" /\ e.slot = m
      BY <1>1, <2>1, CallFacts DEF CallTyped, Fields
    <2>. QED BY <1>1, <2>1, <2>2, SetOthers DEF DetachMember
  <1>4. RegTurn(p, {})
    BY <1>2, SameTurn
  <1>5. (\A b : b \in loops'[p] => b \in loops[p]) /\ (\A b : b \in sched'[p] => b \in sched[p])
    BY <1>2
  <1>6. ASSUME team = "active", p # None, m \notin loose PROVE Clean(p, m)'
    <2>1. Cleaned(m)
      BY <1>1, <1>2, <1>6 DEF CleanInv
    <2>2. CASE g # p
      <3>1. Clean(p, m)
        BY <1>1, <1>2, <2>1, <2>2 DEF Cleaned, Cleared
      <3>. QED BY <1>2, <1>4, <1>5, <3>1, CleanTurn
    <2>3. CASE g = p
      <3>1. Off(p, m)
        BY <1>1, <1>2, <2>1 DEF Cleaned
      <3>2. p \in Generations /\ DOMAIN sched = Generations /\ DOMAIN loops = Generations
        BY <1>1, <1>6, CallFacts DEF ServiceInv, SessionsOK, None
      <3>3. m \notin sched'[p] /\ m \notin loops'[p]
        BY <1>2, <2>3, <3>2
      <3>. QED BY <1>2, <3>1, <3>3 DEF Clean, Off
    <2>. QED BY <2>2, <2>3
  <1>. QED BY <1>1, <1>2, <1>3, <1>4, <1>5, <1>6, CleanStep

\* A removal ends its operation: the published session stays clean.
LEMMA FinishRemoveClean ==
  ASSUME ServiceInv, RowInv, CleanInv, NEW t \in Callers, FinishRemove(t)
  PROVE  CleanInv'
  <1>1. PICK c, d, p, m : c = call[t] /\ d = call'[t] /\ p = published /\ m = c.slot
    OBVIOUS
  <1>2. /\ c.pc = "finish" /\ UNCHANGED <<team, published, sched, loops, removed, loose, attaches>> /\ m \in Slots
        /\ c.gen # None
    BY <1>1, CallFacts DEF FinishRemove, rowVars, history, CallTyped, CallOK, GenOK
  <1>3. Others(t) /\ d.pc = "delete" /\ d.slot = m
    <2>1. PICK e : e = Call(c.op, "delete", m)
      OBVIOUS
    <2>2. e.pc = "delete" /\ e.slot = m
      BY <2>1 DEF Call
    <2>. QED BY <1>1, <2>1, <2>2, SetOthers DEF FinishRemove
  <1>4. p # None => RegTurn(p, {})
    <2>1. PICK e, x : e = Entry("Absent", 0) /\ x = "Removed"
      OBVIOUS
    <2>2. \/ reg' = reg
          \/ /\ c.gen # None /\ Owns(reg[c.gen], c.lease, "Removing")
             /\ reg' = [reg EXCEPT ![c.gen] = Ended(reg[c.gen], c.lease, e, x)]
      BY <1>1, <1>2, <2>1 DEF FinishRemove
    <2>3. e \in {Entry("Absent", 0), Entry("Failed", c.lease)} /\ x \in {"Removed", "Failed"}
      BY <2>1
    <2>. QED BY <1>1, <2>2, <2>3, RemovalEndTurn
  <1>5. ASSUME team = "active", p # None, m \notin loose PROVE Clean(p, m)'
    <2>1. Clean(p, m)
      BY <1>1, <1>2, <1>5 DEF CleanInv, Cleaned, Cleared
    <2>. QED BY <1>2, <1>4, <1>5, <2>1, CleanTurn
  <1>. QED BY <1>1, <1>2, <1>3, <1>4, <1>5, CleanStep

\* The session that is stopped is the published one no more.
LEMMA StopSessionClean ==
  ASSUME ServiceInv, RowInv, CleanInv, NEW t \in Callers, StopSession(t)
  PROVE  CleanInv'
  <1>1. PICK c, d, p, g : c = call[t] /\ d = call'[t] /\ p = published /\ g = c.gen
    OBVIOUS
  <1>2. /\ c.pc = "stop" /\ UNCHANGED <<team, published, sched, removed, loose, attaches>>
        /\ reg' = [reg EXCEPT ![g] = StoppedReg(reg[g])] /\ loops' = [loops EXCEPT ![g] = {}]
    BY <1>1 DEF StopSession, rowVars, history
  <1>3. Others(t) /\ d.pc \notin {"detach", "finish", "delete"}
    BY <1>1, <1>2, StopSessionMoves, StaysOut DEF Leaving
  <1>4. p # g
    BY <1>1, <1>2, CallFacts DEF CallOK, GenOK
  <1>5. RegTurn(p, {})
    <2>1. reg'[p] = reg[p]
      BY <1>2, <1>4
    <2>. QED BY <2>1, SameTurn
  <1>6. \A b : b \in loops'[p] => b \in loops[p]
    BY <1>2, <1>4
  <1>. QED BY <1>1, <1>2, <1>3, <1>5, <1>6, CleanStep

\* The requests do nothing, and what is clean in the published session stays clean.
LEMMA TaskClean ==
  ASSUME CleanInv, UNCHANGED <<team, published, call, removed, loose>>, NEW p, p = published,
         p # None => \A m \in Slots : (Clean(p, m) => Clean(p, m)') /\ (Off(p, m) => Off(p, m)')
  PROVE  CleanInv'
  <1> SUFFICES ASSUME team = "active", p # None, NEW m \in Slots, m \notin loose PROVE Cleaned(m)'
    BY DEF CleanInv
  <1>1. Cleaned(m) /\ (Clean(p, m) => Clean(p, m)') /\ (Off(p, m) => Off(p, m)')
    BY DEF CleanInv
  <1>2. (m \in removed \/ \E t \in Callers : call[t].slot = m /\ Cleared(call[t]))' => Clean(p, m)'
    BY <1>1 DEF Cleaned, Cleared
  <1>3. (\E t \in Callers : call[t].slot = m /\ call[t].pc = "detach")' => Off(p, m)'
    BY <1>1 DEF Cleaned
  <1>. QED BY <1>2, <1>3 DEF Cleaned

\* An attach task that has registered no loop of its own moves on.
LEMMA AttachQuietClean ==
  ASSUME ServiceInv, CleanInv, NEW a \in attaches,
         \/ AttachStart(a) \/ AttachWarm(a) \/ AttachCheck(a) \/ AttachAnnounce(a) \/ AttachClean(a)
         \/ AttachFailed(a)
  PROVE  CleanInv'
  <1>1. /\ UNCHANGED <<team, published, call, removed, loose, reg, sched>> /\ a.pc # "commit"
        /\ \A b \in attaches : b # a => b \in attaches'
        /\ loops' = loops \/ loops' = [loops EXCEPT ![a.gen] = loops[a.gen] \ {Member(a)}]
    BY DEF AttachStart, AttachWarm, AttachCheck, AttachAnnounce, AttachClean, AttachFailed, Step, LoopsWithout,
           rowVars, sessionVars, history
  <1>2. PICK p : p = published
    OBVIOUS
  <1>3. RegTurn(p, {}) /\ \A m : m \in loops'[p] => m \in loops[p]
    <2>1. RegTurn(p, {})
      BY <1>1 DEF RegTurn
    <2>2. CASE loops' = loops
      BY <2>1, <2>2
    <2>3. CASE loops' = [loops EXCEPT ![a.gen] = loops[a.gen] \ {Member(a)}]
      BY <2>1, <2>3
    <2>. QED BY <1>1, <2>2, <2>3
  <1>4. \A m \in Slots : (Clean(p, m) => Clean(p, m)') /\ (Off(p, m) => Off(p, m)')
    BY <1>1, <1>3, CleanTurn
  <1>. QED BY <1>1, <1>2, <1>4, TaskClean

\* commit_failed of an attach: the published session stays clean.
LEMMA AttachReportClean ==
  ASSUME ServiceInv, CleanInv, NEW a \in attaches, AttachReport(a)
  PROVE  CleanInv'
  <1>1. /\ UNCHANGED <<team, published, call, removed, loose, sched, loops>> /\ a.pc # "commit"
        /\ \A b \in attaches : b # a => b \in attaches'
    BY DEF AttachReport, rowVars, history
  <1>2. PICK p, g, o, e, x : /\ p = published /\ g = a.gen /\ o = a.op /\ e = Entry("Failed", o) /\ x = "Failed"
    OBVIOUS
  <1>3. p # None => RegTurn(p, {})
    <2>1. CASE p # None /\ Owns(reg[g], o, "Attaching")
      <3>1. reg' = [reg EXCEPT ![g] = Ended(reg[g], o, e, x)]
        BY <1>2, <2>1 DEF AttachReport
      <3>2. g \in 1..gens /\ o \in 1..reg[g].lastOp /\ p \in 1..gens
        BY <1>2, <2>1, StaleAttach DEF ServiceInv, SessionsOK, None
      <3>3. RegBecomes(g, Ended(reg[g], o, e, x))
        BY <3>1, <3>2, Begun DEF RegBecomes
      <3>4. /\ e \in {Entry("Ready", 0), Entry("Absent", 0), Entry("Failed", o)} /\ e # Entry("Ready", 0)
            /\ x \in {"Ready", "Removed", "Failed"}
        BY <1>2 DEF Entry
      <3> HIDE <3>1
      <3>. QED BY <2>1, <3>2, <3>3, <3>4, EndedTurn
    <2>2. CASE ~Owns(reg[g], o, "Attaching")
      <3>1. reg' = reg
        BY <1>2, <2>2 DEF AttachReport
      <3>. QED BY <3>1 DEF RegTurn
    <2>. QED BY <2>1, <2>2
  <1>4. p # None => \A m \in Slots : (Clean(p, m) => Clean(p, m)') /\ (Off(p, m) => Off(p, m)')
    BY <1>1, <1>3, CleanTurn
  <1>. QED BY <1>1, <1>2, <1>4, TaskClean

\* The task that registers a loop is about to commit, or to take the loop back.
LEMMA AttachRegisterClean ==
  ASSUME ServiceInv, CleanInv, NEW a \in attaches, AttachRegister(a)
  PROVE  CleanInv'
  <1>1. /\ UNCHANGED <<team, published, call, removed, loose, reg, sched>> /\ a.pc = "register"
        /\ \A b \in attaches : b # a => b \in attaches'
    BY DEF AttachRegister, Step, rowVars, history
  <1>2. PICK p : p = published
    OBVIOUS
  <1>3. RegTurn(p, {})
    BY <1>1, SameTurn
  <1>4. CASE loops' = loops
    <2>1. \A m \in Slots : (Clean(p, m) => Clean(p, m)') /\ (Off(p, m) => Off(p, m)')
      BY <1>1, <1>3, <1>4, CleanTurn
    <2>. QED BY <1>1, <1>2, <2>1, TaskClean
  <1>5. CASE /\ Step(a, [a EXCEPT !.pc = "commit", !.fresh = TRUE])
             /\ loops' = [loops EXCEPT ![a.gen] = loops[a.gen] \cup {Member(a)}]
    <2>1. PICK b : b = [a EXCEPT !.pc = "commit", !.fresh = TRUE]
      OBVIOUS
    <2>2. b \in attaches' /\ b.gen = a.gen /\ b.op = a.op /\ b.pc = "commit" /\ b.fresh
      BY <1>5, <2>1, StaleAttach DEF Step, AttachOK
    <2>3. ASSUME NEW m \in Slots PROVE (Clean(p, m) => Clean(p, m)') /\ (Off(p, m) => Off(p, m)')
      <3>1. CASE m \in loops'[p] => m \in loops[p]
        BY <1>1, <1>3, <3>1, CleanTurn
      <3>2. CASE m \in loops'[p] /\ m \notin loops[p]
        <4>1. a.gen = p /\ Member(a) = m
          BY <1>5, <3>2
        <4>2. b.gen = p /\ reg'[b.gen].leases[b.op] = m
          BY <1>1, <2>2, <4>1 DEF Member
        <4>3. \E d \in attaches' : d.gen = p /\ reg'[d.gen].leases[d.op] = m /\ d.pc = "commit" /\ d.fresh
          BY <2>2, <4>2
        <4>4. Off(p, m) => Off(p, m)'
          BY <1>1 DEF Off
        <4>. QED BY <1>1, <4>3, <4>4 DEF Clean, Member
      <3>. QED BY <3>1, <3>2
    <2>. QED BY <1>1, <1>2, <2>3, TaskClean
  <1>. QED BY <1>4, <1>5 DEF AttachRegister

\* An attach is committed for a member whose runtime is being started; the others
\* take back the loop they have registered.
LEMMA AttachCommitClean ==
  ASSUME ServiceInv, CleanInv, NEW a \in attaches, AttachCommit(a)
  PROVE  CleanInv'
  <1>1. /\ UNCHANGED <<team, published, call, removed, loose, sched>> /\ a.pc = "commit"
        /\ \A b \in attaches : b # a => b \in attaches'
    BY DEF AttachCommit, Step, rowVars, history
  <1>2. PICK p, g, o, e, x : /\ p = published /\ g = a.gen /\ o = a.op /\ e = Entry("Ready", 0) /\ x = "Ready"
    OBVIOUS
  <1>3. CASE p # None /\ Owns(reg[g], o, "Attaching")
    <2>1. reg' = [reg EXCEPT ![g] = Ended(reg[g], o, e, x)] /\ loops' = loops
      BY <1>2, <1>3 DEF AttachCommit
    <2>2. g \in 1..gens /\ o \in 1..reg[g].lastOp /\ p \in 1..gens
      BY <1>2, <1>3, StaleAttach DEF ServiceInv, SessionsOK, None
    <2>3. RegBecomes(g, Ended(reg[g], o, e, x))
      BY <2>1, <2>2, Begun DEF RegBecomes
    <2>4. /\ e \in {Entry("Ready", 0), Entry("Absent", 0), Entry("Failed", o)}
          /\ x \in {"Ready", "Removed", "Failed"}
      BY <1>2
    <2>5. (g = p => RegTurn(p, {reg[g].leases[o]})) /\ (g # p => RegTurn(p, {}))
      BY <1>3, <2>2, <2>3, <2>4, EndedTurn
    <2>6. loops' = loops
      BY <2>1
    <2> HIDE <2>1
    <2>7. ASSUME NEW m \in Slots PROVE (Clean(p, m) => Clean(p, m)') /\ (Off(p, m) => Off(p, m)')
      <3>1. CASE g # p
        <4>1. RegTurn(p, {}) /\ m \notin {}
          BY <2>5, <3>1
        <4>. QED BY <1>1, <1>2, <2>6, <3>1, <4>1, CleanTurn
      <3>2. CASE g = p /\ m # reg[g].leases[o]
        <4>1. RegTurn(p, {reg[g].leases[o]}) /\ m \notin {reg[g].leases[o]} /\ Member(a) # m
          BY <1>2, <2>5, <3>2 DEF Member
        <4>. QED BY <1>1, <2>6, <4>1, CleanTurn
      <3>3. CASE g = p /\ m = reg[g].leases[o]
        <4>1. reg[p].entry[m].kind = "Attaching"
          BY <1>3, <3>3 DEF Owns, Entry
        <4>. QED BY <4>1 DEF Clean, Off
      <3>. QED BY <3>1, <3>2, <3>3
    <2>. QED BY <1>1, <1>2, <2>7, TaskClean
  <1>4. CASE ~Owns(reg[g], o, "Attaching")
    <2>1. reg' = reg /\ loops' = LoopsWithout(a)
      BY <1>2, <1>4 DEF AttachCommit
    <2>2. RegTurn(p, {}) /\ \A m : m \in loops'[p] => m \in loops[p]
      BY <2>1, SameTurn DEF LoopsWithout
    <2>3. a.gen = p /\ a.fresh => Member(a) \notin loops'[p]
      <3>1. DOMAIN loops = Generations /\ a.gen \in Generations
        BY StaleAttach, Begun DEF ServiceInv, SessionsOK
      <3>. QED BY <2>1, <3>1 DEF LoopsWithout
    <2>4. \A m \in Slots : (Clean(p, m) => Clean(p, m)') /\ (Off(p, m) => Off(p, m)')
      BY <1>1, <2>1, <2>2, <2>3, CleanTurn
    <2>. QED BY <1>1, <1>2, <2>4, TaskClean
  <1>5. CASE p = None
    BY <1>1, <1>2, <1>5, NoneClean
  <1>. QED BY <1>3, <1>4, <1>5

\* Nobody has been removed from a team that does not exist yet.
LEMMA CreationClean ==
  ASSUME RowInv, CreateTeam \/ CreateFails \/ \E m \in Slots : ProvisionInitial(m)
  PROVE  CleanInv'
  <1>1. team = "none" /\ UNCHANGED <<call, removed>>
    BY DEF CreateTeam, CreateFails, ProvisionInitial, history
  <1>2. removed' = {} /\ \A t \in Callers : call'[t].pc = "begin"
    BY <1>1 DEF RowInv
  <1>3. \A m : Cleaned(m)'
    BY <1>2 DEF Cleaned, Cleared
  <1>. QED BY <1>3 DEF CleanInv

\* Every step of the service keeps the published session clean.
LEMMA CleanKept == ServiceInv /\ RowInv /\ CleanInv /\ [ServiceNext]_serviceVars => CleanInv'
  <1> SUFFICES ASSUME ServiceInv, RowInv, CleanInv, ServiceNext \/ UNCHANGED serviceVars PROVE CleanInv'
    OBVIOUS
  <1>1. CASE \E t \in Callers : Begin(t) \/ CheckOwned(t) \/ EnsureStep(t)
    BY <1>1, BeginClean, QuietMemberClean, QuietEnsureClean, StartSessionClean, StartingClean,
       PublishSessionClean, ReserveMemberClean DEF EnsureStep
  <1>2. CASE \E t \in Callers : MemberStep(t)
    BY <1>2, QuietMemberClean, ReturnsClean, AdmitAgentClean, RemoveAgentClean, KillMemberClean,
       UnlistMemberClean, RetireMemberClean, DetachMemberClean, FinishRemoveClean DEF MemberStep
  <1>3. CASE \E t \in Callers : StopStep(t)
    <2>1. PICK t \in Callers : StopStep(t)
      BY <1>3
    <2>2. CASE Unpublish(t) \/ CloseTeam(t)
      <3>1. published' = None \/ team' # "active"
        BY <2>2 DEF Unpublish, CloseTeam, rowVars
      <3>. QED BY <3>1, NoneClean
    <2>. QED BY <2>1, <2>2, StopSessionClean, QuietMemberClean DEF StopStep
  <1>4. CASE \E a \in attaches : AttachStep(a)
    BY <1>4, AttachQuietClean, AttachReportClean, AttachRegisterClean, AttachCommitClean DEF AttachStep
  <1>5. CASE CreateTeam \/ CreateFails \/ \E m \in Slots : ProvisionInitial(m)
    BY <1>5, CreationClean
  <1>6. CASE UNCHANGED serviceVars
    BY <1>6 DEF CleanInv, Cleaned, Cleared, Clean, Off, Member, serviceVars, rowVars, sessionVars, history
  <1>. QED BY <1>1, <1>2, <1>3, <1>4, <1>5, <1>6 DEF ServiceNext

\* The published session has nothing left of a member that was removed.
LEMMA CleanInvariant == ServiceSpec => []CleanInv
  <1>1. ServiceInit => CleanInv
    BY DEF ServiceInit, CleanInv
  <1>. QED BY <1>1, CleanKept, RowInvariant, ServiceInvariant, PTL DEF ServiceSpec

\* remove_agent takes effect for good: a member of an active team that was removed
\* is not on the roster, and the published session has no slot, no runtime and no
\* loop of it, but one that the attach task which registered it takes back.
THEOREM RemovedMembersStayGone == ServiceSpec => []RemovedStaysGone
  <1>1. ServiceInv /\ RowInv /\ CleanInv => RemovedStaysGone
    <2> SUFFICES ASSUME ServiceInv, RowInv, CleanInv, team = "active", NEW m \in removed \ loose
                 PROVE  /\ m \notin roster
                        /\ published # None => Clean(published, m)
      BY DEF RemovedStaysGone, Clean, Off
    <2>1. m \in Slots
      BY DEF ServiceInv, RowsOK
    <2>2. m \notin roster
      BY <2>1 DEF RowInv, Listed, Unlisted
    <2>. QED BY <2>1, <2>2 DEF CleanInv, Cleaned
  <1>. QED BY <1>1, CleanInvariant, RowInvariant, ServiceInvariant, PTL
=============================================================================
