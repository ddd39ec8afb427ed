------------------------ MODULE ProcessFlowPlaceProofs ------------------------
(***************************************************************************)
(* Nothing is lost and nothing is in two places.  The status of a process   *)
(* says where it is (InItsPlace): one that sleeps leaves its processor with *)
(* a context switch of its own, one that is dispatched comes to a processor *)
(* with the context switch of another, and until both are done it is        *)
(* counted where it was and where it goes.  A request goes from the list of *)
(* its process to the queue of its device, to its interrupts and to their   *)
(* lists, so it completes once, a completion finds it pending, and no       *)
(* ASSERT of the simulator fails (NoFault).                                 *)
(***************************************************************************)
EXTENDS ProcessFlowProofs

(***************************************************************************)
(* The invariant.                                                           *)
(***************************************************************************)
Bit(b) == IF b THEN 1 ELSE 0

\* The process that the first event of a list switches to
Target(s) == IF s # <<>> /\ s[1].type = "CSWITCH_EVENT" THEN s[1].arg ELSE Nobody

Leaving(P, p) == P[p].events # <<>> /\ P[p].events[1].type = "CSWITCH_EVENT"

\* The processors that run p, those that are to switch to it from their idle
\* loop, and the processes that are to switch to it from their lists
OnCpu(C, p)    == {c \in Cpus : C[c].procp = p}
ToCpu(C, p)    == {c \in Cpus : Target(C[c].idleevents) = p}
FromList(P, p) == {o \in Procs : Target(P[o].events) = p}

\* A process that is dispatched is on one processor or on its way to one, and
\* one that has yet to switch away is there once more.
BalancedFor(C, P, p) ==
    Cardinality(OnCpu(C, p)) + Cardinality(ToCpu(C, p)) + Cardinality(FromList(P, p))
       = Bit(P[p].stat = "PROC_ONPROC") + Bit(Leaving(P, p))
Balanced(C, P) == \A p \in Procs : BalancedFor(C, P, p)

\* A context switch is the first event of its list, and due at once.
FirstOnly(P) ==
    \A p \in Procs : \A i \in DOMAIN P[p].events :
        P[p].events[i].type = "CSWITCH_EVENT" => i = 1 /\ P[p].events[i].time = 0

\* An idle loop has at most one context switch, and nothing beside a process.
IdleOne(C) ==
    \A c \in Cpus :
        /\ Len(C[c].idleevents) <= 1
        /\ \A i \in DOMAIN C[c].idleevents : C[c].idleevents[i].time = 0
        /\ C[c].procp # Nobody => C[c].idleevents = <<>>

Once(s) == \A i, j \in DOMAIN s : s[i] = s[j] => i = j
Among(p, s) == \E i \in DOMAIN s : s[i] = p

Queued(P, ready, asleep) ==
    /\ Once(ready) /\ Once(asleep)
    /\ \A p \in Procs : /\ P[p].stat = "PROC_RUN" <=> Among(p, ready)
                        /\ P[p].stat = "PROC_SLEEP" <=> Among(p, asleep)

SwitchDue(k, P) == k.idleevents # <<>> \/ (k.procp # Nobody /\ Leaving(P, k.procp))

\* The order of what is due now: a processor with a switch to make comes at
\* once, processor 1 only after the interrupts, and with a switch in its idle
\* loop after all of them.
AllCpu(q) == \A j \in DOMAIN q.soon : q.soon[j].type = "CPU_EVENT"
NoneBehind(q) ==
    \A i, j \in DOMAIN q.soon : q.soon[i] = CpuEvent(1) /\ i < j => q.soon[j].type = "CPU_EVENT"
Prompt(C, P, q, c) == C[c].intrs = <<>> /\ SwitchDue(C[c], P) => CpuEvent(c) \notin q.later
LastOfAll(C, P, q) ==
    /\ C[1].intrs # <<>> \/ SwitchDue(C[1], P) => NoneBehind(q)
    /\ C[1].idleevents # <<>> => C[1].intrs = <<>> /\ AllCpu(q)
Ordered(C, P, q) == (\A c \in Cpus : Prompt(C, P, q, c)) /\ LastOfAll(C, P, q)

\* What is left when the event of processor c is taken
OthersOrdered(c, q) ==
    /\ \A d \in Cpus : d # c => Prompt(cpus, procs, q, d)
    /\ c # 1 => LastOfAll(cpus, procs, q)
OrderedRest(c, q) ==
    /\ OthersOrdered(c, q)
    /\ c = 1 => /\ cpus[1].idleevents # <<>> => cpus[1].intrs = <<>>
                /\ cpus[1].intrs # <<>> \/ SwitchDue(cpus[1], procs) => AllCpu(q)

Settings(C, P, ready, asleep) == Balanced(C, P) /\ FirstOnly(P) /\ IdleOne(C) /\ Queued(P, ready, asleep)
InPlace == Settings(cpus, procs, pf_dispq, sleepqueue)
InPlaceNext == Settings(cpus', procs', pf_dispq', sleepqueue') /\ Ordered(cpus', procs', agenda')

(***************************************************************************)
(* Counting.                                                                *)
(***************************************************************************)
LEMMA BitIs == ASSUME NEW b \in BOOLEAN PROVE (b => Bit(b) = 1) /\ (~b => Bit(b) = 0) /\ Bit(b) \in {0, 1}
BY DEF Bit

LEMMA OneMember ==
  ASSUME NEW A, NEW B, IsFiniteSet(A), IsFiniteSet(B), NEW a, \A x : x # a => (x \in A <=> x \in B)
  PROVE  Cardinality(B) + Bit(a \in A) = Cardinality(A) + Bit(a \in B)
<1> DEFINE R == A \ {a}
<1>1. IsFiniteSet(R)
  BY FS_Subset
<1>2. R = B \ {a}
  OBVIOUS
<1>3. Cardinality(R) \in Nat /\ Cardinality(A) \in Nat /\ Cardinality(B) \in Nat
  BY <1>1, FS_CardinalityType
<1>4. Cardinality(A) = Cardinality(R) + Bit(a \in A)
  <2>1. CASE a \in A
    <3>1. Cardinality(R) = Cardinality(A) - 1
      BY <2>1, FS_RemoveElement
    <3> QED BY <1>3, <2>1, <3>1 DEF Bit
  <2>2. CASE a \notin A
    <3>1. R = A
      BY <2>2
    <3> QED BY <1>3, <2>2, <3>1 DEF Bit
  <2> QED BY <2>1, <2>2
<1>5. Cardinality(B) = Cardinality(R) + Bit(a \in B)
  <2>1. CASE a \in B
    <3>1. Cardinality(B \ {a}) = Cardinality(B) - 1
      BY <2>1, FS_RemoveElement
    <3> QED BY <1>2, <1>3, <2>1, <3>1 DEF Bit
  <2>2. CASE a \notin B
    <3>1. R = B
      BY <1>2, <2>2
    <3> QED BY <1>3, <2>2, <3>1 DEF Bit
  <2> QED BY <2>1, <2>2
<1> HIDE DEF R
<1> DEFINE x == Bit(a \in A)
           y == Bit(a \in B)
<1>6. x \in Nat /\ y \in Nat
  BY DEF Bit
<1> HIDE DEF x, y
<1> QED BY <1>3, <1>4, <1>5, <1>6 DEF x, y

LEMMA CountsAreNumbers ==
  ASSUME config \in Configs, NEW C, NEW P, NEW p
  PROVE  /\ IsFiniteSet(OnCpu(C, p)) /\ IsFiniteSet(ToCpu(C, p)) /\ IsFiniteSet(FromList(P, p))
         /\ Cardinality(OnCpu(C, p)) \in Nat /\ Cardinality(ToCpu(C, p)) \in Nat
         /\ Cardinality(FromList(P, p)) \in Nat
<1>1. IsFiniteSet(Cpus)
  <2>1. config.numcpus \in Nat
    BY ProcessFlowAssumption DEF ConfigurableCpus
  <2> QED BY <2>1, FS_Interval DEF Cpus
<1>2. IsFiniteSet(Procs)
  BY ProcessFlowAssumption
<1>3. OnCpu(C, p) \subseteq Cpus /\ ToCpu(C, p) \subseteq Cpus /\ FromList(P, p) \subseteq Procs
  BY DEF OnCpu, ToCpu, FromList
<1>4. IsFiniteSet(OnCpu(C, p)) /\ IsFiniteSet(ToCpu(C, p)) /\ IsFiniteSet(FromList(P, p))
  BY <1>1, <1>2, <1>3, FS_Subset
<1> QED BY <1>4, FS_CardinalityType

\* The contribution of processor c, and of the list of process r, to the places of p
AtCpu(C, c, p) == Bit(C[c].procp = p) + Bit(Target(C[c].idleevents) = p)
AtList(P, r, p) == Bit(Target(P[r].events) = p)
Owed(P, p) == Bit(P[p].stat = "PROC_ONPROC") + Bit(Leaving(P, p))

LEMMA BalanceKept ==
  ASSUME config \in Configs, NEW C, NEW P, NEW C2, NEW P2, Balanced(C, P), NEW c \in Cpus, NEW r \in Procs,
         \A d \in Cpus : d # c => /\ C2[d].procp = C[d].procp
                                  /\ Target(C2[d].idleevents) = Target(C[d].idleevents),
         \A o \in Procs : o # r => Target(P2[o].events) = Target(P[o].events),
         \A p \in Procs : AtCpu(C2, c, p) + AtList(P2, r, p) + Owed(P, p)
                             = AtCpu(C, c, p) + AtList(P, r, p) + Owed(P2, p)
  PROVE  Balanced(C2, P2)
<1> SUFFICES ASSUME NEW p \in Procs PROVE BalancedFor(C2, P2, p)
  BY DEF Balanced
<1> DEFINE A == OnCpu(C, p)      B == ToCpu(C, p)      D == FromList(P, p)
           A2 == OnCpu(C2, p)    B2 == ToCpu(C2, p)    D2 == FromList(P2, p)
<1>1. /\ IsFiniteSet(A) /\ IsFiniteSet(A2) /\ IsFiniteSet(B) /\ IsFiniteSet(B2)
      /\ IsFiniteSet(D) /\ IsFiniteSet(D2)
      /\ Cardinality(A) \in Nat /\ Cardinality(A2) \in Nat /\ Cardinality(B) \in Nat
      /\ Cardinality(B2) \in Nat /\ Cardinality(D) \in Nat /\ Cardinality(D2) \in Nat
  BY CountsAreNumbers
<1>2. \A x : x # c => (x \in A <=> x \in A2)
  BY DEF OnCpu
<1>3. \A x : x # c => (x \in B <=> x \in B2)
  BY DEF ToCpu
<1>4. \A x : x # r => (x \in D <=> x \in D2)
  BY DEF FromList
<1>5. /\ (c \in A) = (C[c].procp = p)
      /\ (c \in A2) = (C2[c].procp = p)
      /\ (c \in B) = (Target(C[c].idleevents) = p)
      /\ (c \in B2) = (Target(C2[c].idleevents) = p)
      /\ (r \in D) = (Target(P[r].events) = p)
      /\ (r \in D2) = (Target(P2[r].events) = p)
  BY DEF OnCpu, ToCpu, FromList
<1>6. Cardinality(A) + Cardinality(B) + Cardinality(D) = Owed(P, p)
  BY DEF Balanced, BalancedFor, Owed
<1>7. BalancedFor(C2, P2, p) <=> Cardinality(A2) + Cardinality(B2) + Cardinality(D2) = Owed(P2, p)
  BY DEF BalancedFor, Owed
<1> HIDE DEF A, B, D, A2, B2, D2
<1>8. /\ Cardinality(A2) + Bit(c \in A) = Cardinality(A) + Bit(c \in A2)
      /\ Cardinality(B2) + Bit(c \in B) = Cardinality(B) + Bit(c \in B2)
      /\ Cardinality(D2) + Bit(r \in D) = Cardinality(D) + Bit(r \in D2)
  BY <1>1, <1>2, <1>3, <1>4, OneMember
<1> DEFINE a1 == Bit(C[c].procp = p)
           a2 == Bit(C2[c].procp = p)
           b1 == Bit(Target(C[c].idleevents) = p)
           b2 == Bit(Target(C2[c].idleevents) = p)
           d1 == Bit(Target(P[r].events) = p)
           d2 == Bit(Target(P2[r].events) = p)
<1>9. /\ Bit(c \in A) = a1 /\ Bit(c \in A2) = a2 /\ Bit(c \in B) = b1 /\ Bit(c \in B2) = b2
      /\ Bit(r \in D) = d1 /\ Bit(r \in D2) = d2
  BY <1>5, Zenon
<1>10. a1 \in Nat /\ a2 \in Nat /\ b1 \in Nat /\ b2 \in Nat /\ d1 \in Nat /\ d2 \in Nat
  BY DEF Bit
<1>11. /\ AtCpu(C2, c, p) = a2 + b2
       /\ AtCpu(C, c, p) = a1 + b1
       /\ AtList(P2, r, p) = d2
       /\ AtList(P, r, p) = d1
  BY DEF AtCpu, AtList
<1>12. Owed(P, p) \in Nat /\ Owed(P2, p) \in Nat
  BY DEF Owed, Bit
<1>13. AtCpu(C2, c, p) + AtList(P2, r, p) + Owed(P, p) = AtCpu(C, c, p) + AtList(P, r, p) + Owed(P2, p)
  OBVIOUS
<1> HIDE DEF a1, a2, b1, b2, d1, d2
<1>14. /\ Cardinality(A2) + a1 = Cardinality(A) + a2
       /\ Cardinality(B2) + b1 = Cardinality(B) + b2
       /\ Cardinality(D2) + d1 = Cardinality(D) + d2
  BY <1>8, <1>9
<1>15. a2 + b2 + d2 + Owed(P, p) = a1 + b1 + d1 + Owed(P2, p)
  BY <1>11, <1>13
<1>16. Cardinality(A2) + Cardinality(B2) + Cardinality(D2) = Owed(P2, p)
  BY <1>1, <1>6, <1>10, <1>12, <1>14, <1>15
<1> QED BY <1>7, <1>16

LEMMA BalanceKeptCpu ==
  ASSUME config \in Configs, NEW C, NEW P, NEW C2, NEW P2, Balanced(C, P), NEW c \in Cpus,
         \A d \in Cpus : d # c => /\ C2[d].procp = C[d].procp
                                  /\ Target(C2[d].idleevents) = Target(C[d].idleevents),
         \A o \in Procs : Target(P2[o].events) = Target(P[o].events),
         \A p \in Procs : AtCpu(C2, c, p) + Owed(P, p) = AtCpu(C, c, p) + Owed(P2, p)
  PROVE  Balanced(C2, P2)
<1>1. CASE Procs = {}
  BY <1>1 DEF Balanced
<1>2. CASE Procs # {}
  <2>1. PICK r \in Procs : TRUE
    BY <1>2
  <2>2. ASSUME NEW p \in Procs
        PROVE  AtCpu(C2, c, p) + AtList(P2, r, p) + Owed(P, p) = AtCpu(C, c, p) + AtList(P, r, p) + Owed(P2, p)
    <3> DEFINE x == AtCpu(C2, c, p)
               y == AtCpu(C, c, p)
               u == AtList(P, r, p)
               v == Owed(P, p)
               w == Owed(P2, p)
    <3>1. x \in Nat /\ y \in Nat /\ u \in Nat /\ v \in Nat /\ w \in Nat
      BY DEF AtCpu, AtList, Owed, Bit
    <3>2. AtList(P2, r, p) = u
      BY DEF AtList
    <3>3. x + v = y + w
      OBVIOUS
    <3> HIDE DEF x, y, u, v, w
    <3>4. x + u + v = y + u + w
      BY <3>1, <3>3
    <3> QED BY <3>2, <3>4 DEF x, y, u, v, w
  <2> QED BY <2>2, BalanceKept
<1> QED BY <1>1, <1>2

LEMMA BalanceSame ==
  ASSUME config \in Configs, NEW C, NEW P, NEW C2, NEW P2, Balanced(C, P),
         \A d \in Cpus : C2[d].procp = C[d].procp /\ Target(C2[d].idleevents) = Target(C[d].idleevents),
         \A o \in Procs : Target(P2[o].events) = Target(P[o].events),
         \A p \in Procs : Owed(P2, p) = Owed(P, p)
  PROVE  Balanced(C2, P2)
<1> SUFFICES ASSUME NEW p \in Procs PROVE BalancedFor(C2, P2, p)
  BY DEF Balanced
<1>1. OnCpu(C2, p) = OnCpu(C, p) /\ ToCpu(C2, p) = ToCpu(C, p) /\ FromList(P2, p) = FromList(P, p)
  BY DEF OnCpu, ToCpu, FromList
<1>2. BalancedFor(C, P, p)
  BY DEF Balanced
<1> QED BY <1>1, <1>2 DEF BalancedFor, Owed

(***************************************************************************)
(* Order.                                                                   *)
(***************************************************************************)

\* An event that is put, and was not there, is the last of those due now.
LEMMA PutIsLast ==
  ASSUME NEW q \in Agendas(QueueEvents), NEW delay, ~Pending(q, CpuEvent(1))
  PROVE  NoneBehind(Put(q, CpuEvent(1), delay))
<1> DEFINE n == Len(q.soon)
           a == Append(q.soon, CpuEvent(1))
<1>1. q.soon \in Seq(QueueEvents) /\ DOMAIN q.soon = 1..n /\ n \in Nat /\ q = [soon |-> q.soon, later |-> q.later]
  BY AgendaParts
<1>2. \A i \in 1..n : q.soon[i] # CpuEvent(1)
  BY <1>1 DEF Pending
<1>3. CASE delay = 0
  <2>1. Put(q, CpuEvent(1), delay).soon = a
    BY <1>1, <1>3 DEF Put
  <2>2. DOMAIN a = 1..n + 1 /\ \A i \in 1..n : a[i] = q.soon[i]
    BY <1>1
  <2> HIDE DEF a, n
  <2>3. ASSUME NEW i \in DOMAIN a, NEW j \in DOMAIN a, a[i] = CpuEvent(1), i < j
        PROVE  FALSE
    <3>1. i \in 1..n + 1 /\ j \in 1..n + 1 /\ i \notin 1..n
      BY <1>2, <2>2, <2>3
    <3> QED BY <1>1, <2>3, <3>1
  <2> QED BY <2>1, <2>3 DEF NoneBehind
<1>4. CASE delay # 0
  <2>1. Put(q, CpuEvent(1), delay).soon = q.soon
    BY <1>1, <1>4 DEF Put
  <2> QED BY <1>1, <1>2, <2>1 DEF NoneBehind
<1> QED BY <1>3, <1>4

\* The event of a processor may be put behind everything.
LEMMA PutKeepsOrder ==
  ASSUME NEW q \in Agendas(QueueEvents), NEW c \in Cpus, NEW delay
  PROVE  /\ AllCpu(q) => AllCpu(Put(q, CpuEvent(c), delay))
         /\ c # 1 /\ NoneBehind(q) => NoneBehind(Put(q, CpuEvent(c), delay))
<1> DEFINE n == Len(q.soon)
           a == Append(q.soon, CpuEvent(c))
<1>1. q.soon \in Seq(QueueEvents) /\ DOMAIN q.soon = 1..n /\ n \in Nat /\ q = [soon |-> q.soon, later |-> q.later]
  BY AgendaParts
<1>2. CpuEvent(c).type = "CPU_EVENT" /\ (c # 1 => CpuEvent(c) # CpuEvent(1))
  BY DEF CpuEvent
<1>3. CASE delay = 0
  <2>1. Put(q, CpuEvent(c), delay).soon = a
    BY <1>1, <1>3 DEF Put
  <2>2. DOMAIN a = 1..n + 1 /\ a[n + 1] = CpuEvent(c) /\ \A i \in 1..n : a[i] = q.soon[i]
    BY <1>1
  <2>3. \A i \in 1..n + 1 : i = n + 1 \/ i \in 1..n
    BY <1>1
  <2> HIDE DEF a, n
  <2>4. AllCpu(q) => \A i \in DOMAIN a : a[i].type = "CPU_EVENT"
    BY <1>1, <1>2, <2>2, <2>3 DEF AllCpu
  <2>5. ASSUME c # 1, NoneBehind(q), NEW i \in DOMAIN a, NEW j \in DOMAIN a, a[i] = CpuEvent(1), i < j
        PROVE  a[j].type = "CPU_EVENT"
    <3>1. i \in 1..n
      BY <1>2, <2>2, <2>3, <2>5
    <3>2. CASE j = n + 1
      BY <1>2, <2>2, <3>2
    <3>3. CASE j \in 1..n
      BY <1>1, <2>2, <2>5, <3>1, <3>3 DEF NoneBehind
    <3> QED BY <2>2, <2>3, <3>2, <3>3
  <2> QED BY <2>1, <2>4, <2>5 DEF AllCpu, NoneBehind
<1>4. CASE delay # 0
  <2>1. Put(q, CpuEvent(c), delay).soon = q.soon
    BY <1>1, <1>4 DEF Put
  <2> QED BY <2>1 DEF AllCpu, NoneBehind
<1> QED BY <1>3, <1>4

\* The turn of processor c brings nothing due now to the others, and a switch to
\* the idle loop of processor 1 only when nothing else waits.
Undisturbed(c, w, P, q, r) ==
    /\ c # 1 => r.soon = q.soon
    /\ \A d \in Cpus : CpuEvent(d) \in r.later => CpuEvent(d) \in q.later
    /\ \A d \in Cpus : d # c /\ SwitchDue(cpus[d], P) => SwitchDue(cpus[d], procs)
    /\ c = 1 /\ w.idleevents # <<>> => w.intrs = <<>> /\ AllCpu(r)

\* What a processor leaves for later is no switch, and its event comes last.
LEMMA OrderKept ==
  ASSUME NEW T, NEW c, NEW q, Before(T, c, q), OthersOrdered(c, q),
         NEW w \in CpuRecords, Resumable(c, w), NEW P,
         NEW r \in Agendas(QueueEvents), OthersGood(c, r),
         NEW stops \in BOOLEAN, NEW bad \in BOOLEAN, Continue(c, CpuChanged(c, w), P, r, stops, bad),
         Undisturbed(c, w, P, q, r),
         w.intrs = <<>> /\ SwitchDue(w, P) => NextDelay(Chain(w, P)) = 0
  PROVE  Ordered(cpus', procs', agenda')
<1>0. Typed(T) /\ Running /\ c \in Cpus /\ cpus[c] \in CpuRecords /\ 1 \in Cpus
  BY BeforeParts, ConfigParts
<1>20. /\ c # 1 => r.soon = q.soon
       /\ \A d \in Cpus : CpuEvent(d) \in r.later => CpuEvent(d) \in q.later
       /\ \A d \in Cpus : d # c /\ SwitchDue(cpus[d], P) => SwitchDue(cpus[d], procs)
       /\ c = 1 /\ w.idleevents # <<>> => w.intrs = <<>> /\ AllCpu(r)
  BY DEF Undisturbed
<1> DEFINE s == Settled(w)
           b == CpuChanged(c, s)
           ev == CpuEvent(c)
           n == NextDelay(Chain(w, P))
<1>1. \A d \in Cpus : GoodCpu(d, cpus[d])
  BY <1>0 DEF Running
<1>2. /\ procs' = P /\ cpus' = b
      /\ s.state = "CPU_IDLE" => agenda' = r
      /\ s.state # "CPU_IDLE" => agenda' = Put(r, ev, n)
  <2>1. procs' = P
    <3> HIDE DEF s, b, ev, n
    <3> QED BY <1>0, <1>1, Continued, ZenonT(60)
  <2>2. cpus' = CpuChanged(c, Settled(w))
    <3> HIDE DEF s, b, ev, n
    <3> QED BY <1>0, <1>1, Continued, ZenonT(60)
  <2>3. Settled(w).state = "CPU_IDLE" => agenda' = r
    <3> HIDE DEF s, b, ev, n
    <3> QED BY <1>0, <1>1, Continued, ZenonT(60)
  <2>4. Settled(w).state # "CPU_IDLE" => agenda' = Put(r, CpuEvent(c), NextDelay(Chain(w, P)))
    <3> HIDE DEF s, b, ev, n
    <3> QED BY <1>0, <1>1, Continued, ZenonT(60)
  <2> QED BY <2>1, <2>2, <2>3, <2>4
<1>3. /\ s \in CpuRecords /\ s.intrs = w.intrs /\ s.procp = w.procp /\ s.idleevents = w.idleevents
      /\ s.state = "CPU_IDLE" <=> (w.intrs = <<>> /\ w.procp = Nobody /\ w.idleevents = <<>>)
  BY SettledFacts
<1>4. b[c] = s /\ \A d \in Cpus : d # c => b[d] = cpus[d]
  BY <1>0, <1>3, CpuChangedFacts
<1>5. ~Pending(r, ev) /\ ev \in QueueEvents
  BY <1>0 DEF OthersGood, QueueEvents
<1>6. /\ Put(r, ev, n).later \subseteq r.later \cup {ev}
      /\ n = 0 => Put(r, ev, n).later = r.later
  BY <1>5, PutFacts
<1>7. \A d \in Cpus : d # c => CpuEvent(d) # ev
  BY DEF CpuEvent
<1>8. SwitchDue(s, P) <=> SwitchDue(w, P)
  BY <1>3 DEF SwitchDue
<1> HIDE DEF s, b, ev, n
<1>9. ASSUME NEW d \in Cpus PROVE Prompt(b, P, agenda', d)
  <2> SUFFICES ASSUME b[d].intrs = <<>>, SwitchDue(b[d], P) PROVE CpuEvent(d) \notin agenda'.later
    BY DEF Prompt
  <2>1. CASE d = c
    <3>1. w.intrs = <<>> /\ SwitchDue(w, P)
      BY <1>3, <1>4, <1>8, <2>1
    <3>2. s.state # "CPU_IDLE"
      BY <1>3, <3>1 DEF SwitchDue
    <3>3. n = 0
      BY <3>1 DEF n
    <3>4. agenda'.later = r.later
      BY <1>2, <1>6, <3>2, <3>3
    <3> QED BY <1>5, <2>1, <3>4 DEF ev, Pending
  <2>2. CASE d # c
    <3>1. cpus[d].intrs = <<>> /\ SwitchDue(cpus[d], procs)
      BY <1>4, <1>20, <2>2
    <3>2. CpuEvent(d) \notin q.later
      BY <2>2, <3>1 DEF OthersOrdered, Prompt
    <3>3. agenda'.later \subseteq r.later \cup {ev}
      BY <1>2, <1>6
    <3> QED BY <1>7, <1>20, <2>2, <3>2, <3>3
  <2> QED BY <2>1, <2>2
<1>10. CASE c = 1
  <2>1. ev = CpuEvent(1)
    BY <1>10 DEF ev
  <2>2. NoneBehind(r)
    BY <1>5, <2>1 DEF NoneBehind, Pending
  <2>3. NoneBehind(Put(r, CpuEvent(1), n))
    BY <1>5, <2>1, PutIsLast
  <2>4. NoneBehind(agenda')
    BY <1>2, <2>1, <2>2, <2>3
  <2>5. AllCpu(r) => AllCpu(agenda')
    <3>1. AllCpu(r) => AllCpu(Put(r, CpuEvent(1), n))
      BY <1>0, PutKeepsOrder
    <3> QED BY <1>2, <2>1, <3>1
  <2>6. b[1].idleevents # <<>> => b[1].intrs = <<>> /\ AllCpu(agenda')
    BY <1>3, <1>4, <1>10, <1>20, <2>5
  <2> QED BY <1>2, <1>9, <2>4, <2>6 DEF Ordered, LastOfAll
<1>11. CASE c # 1
  <2>1. b[1] = cpus[1]
    BY <1>0, <1>4, <1>11
  <2>2. NoneBehind(q) => NoneBehind(r)
    BY <1>11, <1>20 DEF NoneBehind
  <2>3. AllCpu(q) => AllCpu(r)
    BY <1>11, <1>20 DEF AllCpu
  <2>4. NoneBehind(r) => NoneBehind(agenda')
    <3>1. NoneBehind(r) => NoneBehind(Put(r, ev, n))
      BY <1>0, <1>11, PutKeepsOrder DEF ev
    <3> QED BY <1>2, <3>1
  <2>5. AllCpu(r) => AllCpu(agenda')
    <3>1. AllCpu(r) => AllCpu(Put(r, ev, n))
      BY <1>0, PutKeepsOrder DEF ev
    <3> QED BY <1>2, <3>1
  <2>6. SwitchDue(cpus[1], P) => SwitchDue(cpus[1], procs)
    BY <1>0, <1>11, <1>20
  <2>7. LastOfAll(cpus, procs, q)
    BY <1>11 DEF OthersOrdered
  <2>8. LastOfAll(b, P, agenda')
    BY <2>1, <2>2, <2>3, <2>4, <2>5, <2>6, <2>7 DEF LastOfAll
  <2> QED BY <1>2, <1>9, <2>8 DEF Ordered
<1> QED BY <1>10, <1>11

(***************************************************************************)
(* A turn of processor c.                                                   *)
(***************************************************************************)
IdleLoop(k) ==
    /\ Len(k.idleevents) <= 1
    /\ \A i \in DOMAIN k.idleevents : k.idleevents[i].time = 0
    /\ k.procp # Nobody => k.idleevents = <<>>

\* A switch that is due is the next event of its processor, and due at once.
LEMMA SwitchIsNext ==
  ASSUME NEW w \in CpuRecords, IdleLoop(w), NEW U, NEW P \in ProcTables(U), FirstOnly(P), w.intrs = <<>>, SwitchDue(w, P)
  PROVE  NextDelay(Chain(w, P)) = 0
<1>1. w.procp \in Procs \cup {Nobody} /\ w.idleevents \in Seq(IdleEvents)
  BY CpuRecordParts
<1>2. CASE w.procp # Nobody
  <2>1. Chain(w, P) = P[w.procp].events /\ w.idleevents = <<>>
    BY <1>2 DEF Chain, IdleLoop
  <2>2. Leaving(P, w.procp) /\ w.procp \in Procs
    BY <1>1, <1>2, <2>1 DEF SwitchDue
  <2> DEFINE s == P[w.procp].events
  <2>3. s # <<>> /\ s[1].type = "CSWITCH_EVENT"
    BY <2>2 DEF Leaving
  <2>4. s \in Seq(FlowEvents(U)) /\ P[w.procp] \in ProcRecords(U)
    BY <2>2, ProcRecordParts DEF ProcTables
  <2>5. 1 \in DOMAIN s /\ Head(s) = s[1]
    BY <2>3, <2>4
  <2>6. s[1].time = 0
    BY <2>2, <2>3, <2>5 DEF FirstOnly
  <2> QED BY <2>1, <2>3, <2>5, <2>6 DEF NextDelay
<1>3. CASE w.procp = Nobody
  <2>1. Chain(w, P) = w.idleevents /\ w.idleevents # <<>>
    BY <1>3 DEF Chain, SwitchDue
  <2>2. Head(w.idleevents) = w.idleevents[1] /\ 1 \in DOMAIN w.idleevents
    BY <1>1, <2>1
  <2> QED BY <2>1, <2>2 DEF NextDelay, IdleLoop
<1> QED BY <1>2, <1>3

\* The state of the processors and of the processes after the turn is as the
\* handler leaves them.
LEMMA InPlaceKept ==
  ASSUME NEW T, NEW c, NEW q, Before(T, c, q), InPlace, OthersOrdered(c, q),
         NEW w \in CpuRecords, Resumable(c, w), NEW U, NEW P \in ProcTables(U),
         NEW r \in Agendas(QueueEvents), OthersGood(c, r),
         NEW stops \in BOOLEAN, NEW bad \in BOOLEAN, Continue(c, CpuChanged(c, w), P, r, stops, bad),
         Undisturbed(c, w, P, q, r),
         Balanced(CpuChanged(c, w), P), FirstOnly(P), IdleLoop(w),
         Queued(P, pf_dispq', sleepqueue')
  PROVE  InPlaceNext
<1>0. Typed(T) /\ Running /\ c \in Cpus /\ cpus \in [Cpus -> CpuRecords]
  BY BeforeParts DEF Typed
<1>1. \A d \in Cpus : GoodCpu(d, cpus[d])
  BY <1>0 DEF Running
<1>2. procs' = P
  BY <1>0, <1>1, Continued, ZenonT(60)
<1>3. cpus' = CpuChanged(c, Settled(w))
  BY <1>0, <1>1, Continued, ZenonT(60)
<1>4. Ordered(cpus', procs', agenda')
  <2>1. w.intrs = <<>> /\ SwitchDue(w, P) => NextDelay(Chain(w, P)) = 0
    BY SwitchIsNext
  <2> QED BY <2>1, OrderKept
<1> DEFINE k == Settled(w)
           a == CpuChanged(c, w)
           b == CpuChanged(c, k)
<1>5. k \in CpuRecords /\ k.procp = w.procp /\ k.idleevents = w.idleevents
  BY SettledFacts
<1>6. /\ a[c] = w /\ \A d \in Cpus : d # c => a[d] = cpus[d]
      /\ b[c] = k /\ \A d \in Cpus : d # c => b[d] = cpus[d]
  <2> HIDE DEF k
  <2> QED BY <1>0, <1>5, CpuChangedFacts
<1>7. \A p : OnCpu(b, p) = OnCpu(a, p) /\ ToCpu(b, p) = ToCpu(a, p)
  <2> HIDE DEF k, a, b
  <2>1. \A d \in Cpus : b[d].procp = a[d].procp /\ b[d].idleevents = a[d].idleevents
    BY <1>5, <1>6
  <2> QED BY <2>1 DEF OnCpu, ToCpu
<1>8. Balanced(b, P)
  <2> HIDE DEF k, b
  <2>1. Balanced(a, P)
    OBVIOUS
  <2> HIDE DEF a
  <2> QED BY <1>7, <2>1 DEF Balanced, BalancedFor
<1>9. IdleOne(b)
  <2> HIDE DEF k, a, b
  <2>1. IdleOne(cpus)
    BY DEF InPlace, Settings
  <2>2. IdleLoop(k)
    BY <1>5 DEF IdleLoop
  <2> QED BY <1>6, <2>1, <2>2 DEF IdleOne, IdleLoop
<1>10. b = cpus'
  BY <1>3
<1> HIDE DEF b
<1>11. Settings(b, P, pf_dispq', sleepqueue')
  BY <1>8, <1>9 DEF Settings
<1> QED BY <1>2, <1>4, <1>10, <1>11 DEF InPlaceNext

\* No process starts to leave or is dispatched, and no list begins with another
\* switch than before.
SameSwitches(P) ==
    \A p \in Procs :
        /\ Target(P[p].events) = Target(procs[p].events)
        /\ Leaving(P, p) <=> Leaving(procs, p)
        /\ P[p].stat = "PROC_ONPROC" <=> procs[p].stat = "PROC_ONPROC"

LEMMA DueOnlyThere ==
  ASSUME NEW T, Typed(T), NEW P, SameSwitches(P), NEW d \in Cpus, SwitchDue(cpus[d], P)
  PROVE  SwitchDue(cpus[d], procs)
<1>1. cpus[d].procp \in Procs \cup {Nobody}
  BY CpuRecordParts DEF Typed
<1> QED BY <1>1 DEF SwitchDue, SameSwitches

LEMMA QuietStep ==
  ASSUME NEW T, NEW c, NEW q, Before(T, c, q), InPlace, OthersOrdered(c, q),
         NEW w \in CpuRecords, Resumable(c, w), NEW U, NEW P \in ProcTables(U),
         NEW r \in Agendas(QueueEvents), OthersGood(c, r), c # 1 => r.soon = q.soon,
         \A d \in Cpus : CpuEvent(d) \in r.later => CpuEvent(d) \in q.later,
         NEW stops \in BOOLEAN, NEW bad \in BOOLEAN, Continue(c, CpuChanged(c, w), P, r, stops, bad),
         w.procp = cpus[c].procp, w.idleevents = <<>>, cpus[c].idleevents = <<>>,
         SameSwitches(P), FirstOnly(P), Queued(P, pf_dispq', sleepqueue')
  PROVE  InPlaceNext
<1>0. Typed(T) /\ Running /\ c \in Cpus /\ cpus \in [Cpus -> CpuRecords] /\ config \in Configs
  BY BeforeParts DEF Typed
<1>1. Undisturbed(c, w, P, q, r)
  <2>1. \A d \in Cpus : SwitchDue(cpus[d], P) => SwitchDue(cpus[d], procs)
    BY <1>0, DueOnlyThere
  <2> QED BY <2>1 DEF Undisturbed
<1>2. IdleLoop(w)
  BY DEF IdleLoop
<1> DEFINE a == CpuChanged(c, w)
<1>3. a[c] = w /\ \A d \in Cpus : d # c => a[d] = cpus[d]
  BY <1>0, CpuChangedFacts
<1> HIDE DEF a
<1>4. Balanced(a, P)
  <2>1. \A d \in Cpus : a[d].procp = cpus[d].procp /\ Target(a[d].idleevents) = Target(cpus[d].idleevents)
    BY <1>3
  <2>2. \A o \in Procs : Target(P[o].events) = Target(procs[o].events)
    BY DEF SameSwitches
  <2>3. \A p \in Procs : Owed(P, p) = Owed(procs, p)
    BY DEF SameSwitches, Owed, Bit
  <2>4. Balanced(cpus, procs)
    BY DEF InPlace, Settings
  <2> QED BY <1>0, <2>1, <2>2, <2>3, <2>4, BalanceSame
<1>5. Balanced(CpuChanged(c, w), P)
  BY <1>4 DEF a
<1> QED BY <1>1, <1>2, <1>5, InPlaceKept

NoSwitch(s) == \A i \in DOMAIN s : s[i].type # "CSWITCH_EVENT"

LEMMA NoSwitchFirst ==
  ASSUME NEW S, NEW s \in Seq(S), NoSwitch(s)
  PROVE  Target(s) = Nobody /\ (s # <<>> => s[1].type # "CSWITCH_EVENT")
<1>1. s # <<>> => 1 \in DOMAIN s
  OBVIOUS
<1> QED BY <1>1 DEF NoSwitch, Target

\* The process of a processor goes on, with another list.
LEMMA FlowGoesOn ==
  ASSUME NEW T, NEW c, NEW q, Before(T, c, q), InPlace, OrderedRest(c, q), InProc(c, T),
         NoSwitch(FlowList(c)), NEW s \in Seq(FlowEvents(T)), NoSwitch(s),
         NEW r \in Agendas(QueueEvents), OthersGood(c, r), c # 1 => r.soon = q.soon,
         \A d \in Cpus : CpuEvent(d) \in r.later => CpuEvent(d) \in q.later,
         NEW stops \in BOOLEAN, NEW bad \in BOOLEAN,
         Continue(c, CpuChanged(c, cpus[c]), WithList(procs, cpus[c].procp, s), r, stops, bad),
         pf_dispq' = pf_dispq, sleepqueue' = sleepqueue
  PROVE  InPlaceNext
<1>o. OthersOrdered(c, q)
  BY DEF OrderedRest
<1> DEFINE k == cpus[c]
           p == k.procp
           P == WithList(procs, p, s)
<1>0. Typed(T) /\ Running /\ c \in Cpus /\ k \in CpuRecords /\ procs \in ProcTables(T)
  BY BeforeParts DEF Typed
<1>1. p \in Procs /\ p # Nobody /\ FlowList(c) \in Seq(FlowEvents(T)) /\ FlowList(c) = procs[p].events
  BY DEF InProc, FlowList
<1>2. k \in CpuRecords /\ Resumable(c, k)
  BY <1>0, ProcStays
<1>3. k.idleevents = <<>>
  BY <1>0, <1>1 DEF InPlace, Settings, IdleOne
<1>4. /\ P \in ProcTables(T)
      /\ \A o \in Procs : o = p => P[o].events = s
      /\ \A o \in Procs : P[o].stat = procs[o].stat
      /\ \A o \in Procs : o # p => P[o] = procs[o]
  BY <1>0, <1>1, ListChanged
<1>5. Continue(c, CpuChanged(c, k), P, r, stops, bad)
  OBVIOUS
<1> HIDE DEF P, p, k
<1>6. SameSwitches(P)
  <2>1. /\ Target(s) = Nobody /\ (s # <<>> => s[1].type # "CSWITCH_EVENT")
        /\ Target(FlowList(c)) = Nobody /\ (FlowList(c) # <<>> => FlowList(c)[1].type # "CSWITCH_EVENT")
    BY <1>1, NoSwitchFirst
  <2> SUFFICES ASSUME NEW o \in Procs
               PROVE  /\ Target(P[o].events) = Target(procs[o].events)
                      /\ Leaving(P, o) <=> Leaving(procs, o)
                      /\ P[o].stat = "PROC_ONPROC" <=> procs[o].stat = "PROC_ONPROC"
    BY DEF SameSwitches
  <2>2. CASE o = p
    BY <1>1, <1>4, <2>1, <2>2 DEF Leaving
  <2>3. CASE o # p
    BY <1>4, <2>3 DEF Leaving
  <2> QED BY <2>2, <2>3
<1>7. FirstOnly(P)
  <2>1. FirstOnly(procs)
    BY DEF InPlace, Settings
  <2> QED BY <1>1, <1>4, <2>1 DEF FirstOnly, NoSwitch
<1>8. Queued(P, pf_dispq', sleepqueue')
  BY <1>4 DEF InPlace, Settings, Queued
<1>9. k.procp = cpus[c].procp /\ cpus[c].idleevents = <<>>
  BY <1>3 DEF k
<1> QED BY <1>o, <1>2, <1>3, <1>4, <1>5, <1>6, <1>7, <1>8, <1>9, QuietStep

\* An interrupt goes on, with another list.
LEMMA TopGoesOn ==
  ASSUME NEW T, NEW c, NEW q, Before(T, c, q), InPlace, OrderedRest(c, q), InIntr(c),
         NEW s, WithTop(cpus[c], s) \in CpuRecords, Resumable(c, WithTop(cpus[c], s)),
         WithTop(cpus[c], s).intrs # <<>>,
         NEW r \in Agendas(QueueEvents), OthersGood(c, r),
         \A d \in Cpus : CpuEvent(d) \in r.later => CpuEvent(d) \in q.later,
         NEW stops \in BOOLEAN, NEW bad \in BOOLEAN, NEW P \in ProcTables(T),
         Continue(c, CpuChanged(c, WithTop(cpus[c], s)), P, r, stops, bad),
         \A p \in Procs : P[p].events = procs[p].events,
         \A p \in Procs : P[p].stat = "PROC_ONPROC" <=> procs[p].stat = "PROC_ONPROC",
         Queued(P, pf_dispq', sleepqueue')
  PROVE  InPlaceNext
<1>o. OthersOrdered(c, q)
  BY DEF OrderedRest
<1> DEFINE k == cpus[c]
           w == WithTop(k, s)
<1>0. Typed(T) /\ Running /\ c \in Cpus /\ k \in CpuRecords /\ c = 1 /\ k.intrs # <<>>
  BY BeforeParts DEF InIntr
<1>1. w.procp = k.procp /\ w.idleevents = k.idleevents
  BY <1>0, CpuRecordParts DEF WithTop
<1>2. k.idleevents = <<>>
  BY <1>0 DEF OrderedRest
<1>3. SameSwitches(P)
  BY DEF SameSwitches, Leaving
<1>4. FirstOnly(P)
  BY DEF InPlace, Settings, FirstOnly
<1>5. w \in CpuRecords /\ Resumable(c, w) /\ Continue(c, CpuChanged(c, w), P, r, stops, bad)
  OBVIOUS
<1>6. w.procp = cpus[c].procp /\ w.idleevents = <<>> /\ cpus[c].idleevents = <<>>
  BY <1>1, <1>2
<1> HIDE DEF w, k
<1>7. c # 1 => r.soon = q.soon
  BY <1>0
<1> QED BY <1>o, <1>3, <1>4, <1>5, <1>6, <1>7, QuietStep

\* A list that begins with no switch has none, and neither has what is left of it.
LEMMA NoneInTail ==
  ASSUME NEW T, NEW c, InProc(c, T), FirstOnly(procs), Head(FlowList(c)).type # "CSWITCH_EVENT"
  PROVE  NoSwitch(FlowList(c)) /\ NoSwitch(Tail(FlowList(c)))
<1> DEFINE s == FlowList(c)
<1>1. s \in Seq(FlowEvents(T)) /\ s # <<>> /\ cpus[c].procp \in Procs /\ s = procs[cpus[c].procp].events
  BY DEF InProc, FlowList, EndsIn
<1>2. \A i \in DOMAIN s : s[i].type = "CSWITCH_EVENT" => i = 1
  BY <1>1 DEF FirstOnly
<1> HIDE DEF s
<1>3. Head(s) = s[1] /\ 1 \in DOMAIN s
  BY <1>1
<1>4. NoSwitch(s)
  BY <1>2, <1>3 DEF NoSwitch, s
<1>5. \A i \in DOMAIN Tail(s) : i + 1 \in DOMAIN s /\ Tail(s)[i] = s[i + 1]
  BY <1>1
<1>6. NoSwitch(Tail(s))
  BY <1>4, <1>5 DEF NoSwitch
<1> QED BY <1>4, <1>6 DEF s

LEMMA NoneBehindFirst ==
  ASSUME NEW T, NEW c, InProc(c, T), FirstOnly(procs)
  PROVE  NoSwitch(Tail(FlowList(c)))
<1> DEFINE s == FlowList(c)
<1>1. s \in Seq(FlowEvents(T)) /\ s # <<>> /\ cpus[c].procp \in Procs /\ s = procs[cpus[c].procp].events
  BY DEF InProc, FlowList, EndsIn
<1>2. \A i \in DOMAIN s : s[i].type = "CSWITCH_EVENT" => i = 1
  BY <1>1 DEF FirstOnly
<1> HIDE DEF s
<1>3. \A i \in DOMAIN Tail(s) : i + 1 \in DOMAIN s /\ i + 1 # 1 /\ Tail(s)[i] = s[i + 1]
  BY <1>1
<1>4. NoSwitch(Tail(s))
  BY <1>2, <1>3 DEF NoSwitch
<1> QED BY <1>4 DEF s

\* What is not the event of a processor may be put anywhere behind.
LEMMA PutLaterKeeps ==
  ASSUME NEW q \in Agendas(QueueEvents), NEW e \in QueueEvents, \A d \in Cpus : e # CpuEvent(d)
  PROVE  /\ Put(q, e, 1).soon = q.soon
         /\ \A d \in Cpus : CpuEvent(d) \in Put(q, e, 1).later => CpuEvent(d) \in q.later
<1>1. q = [soon |-> q.soon, later |-> q.later]
  BY AgendaParts
<1>2. Put(q, e, 1).soon = q.soon
  BY <1>1 DEF Put
<1>3. Put(q, e, 1).later \subseteq q.later \cup {e}
  BY PutFacts
<1> QED BY <1>2, <1>3

\* The handlers that change the agenda only
LEMMA PlainInPlace ==
  ASSUME NEW T, NEW c, NEW q, Before(T, c, q), InPlace, OrderedRest(c, q),
         pf_dispq' = pf_dispq, sleepqueue' = sleepqueue,
         Chain(cpus[c], procs) # <<>>,
         Head(Chain(cpus[c], procs)).type \in {"IO_ACCESS_ARRIVE", "IO_RESPOND_TO_DEVICE"},
         NEW r \in Agendas(QueueEvents), OthersGood(c, r), r.soon = q.soon,
         \A d \in Cpus : CpuEvent(d) \in r.later => CpuEvent(d) \in q.later,
         Continue(c, WithChain(c, cpus, Tail(Chain(cpus[c], procs))),
                  ProcWithChain(c, cpus, procs, Tail(Chain(cpus[c], procs))), r, FALSE, FALSE)
  PROVE  InPlaceNext
<1> DEFINE k == cpus[c]
           chain == Chain(k, procs)
<1>0. Typed(T) /\ Running /\ ~stop_sim /\ c \in Cpus /\ procs \in ProcTables(T)
  BY BeforeParts DEF Typed
<1>1. InIntr(c) \/ InProc(c, T) \/ InIdle(c)
  BY <1>0, Modes
<1>2. CASE InIntr(c)
  <2> DEFINE s == Tail(TopList(c))
  <2>1. chain = TopList(c)
    BY <1>2 DEF InIntr
  <2>2. Head(TopList(c)).type # "INTEND_EVENT"
    BY <2>1
  <2>3. /\ WithChain(c, cpus, Tail(chain)) = CpuChanged(c, WithTop(k, s))
        /\ ProcWithChain(c, cpus, procs, Tail(chain)) = procs
        /\ WithTop(k, s) \in CpuRecords /\ Resumable(c, WithTop(k, s)) /\ WithTop(k, s).intrs # <<>>
    BY <1>2, <2>2, IntrTaken
  <2>4. Continue(c, CpuChanged(c, WithTop(k, s)), procs, r, FALSE, FALSE)
    BY <2>3
  <2>5. Queued(procs, pf_dispq', sleepqueue')
    BY DEF InPlace, Settings
  <2> HIDE DEF s
  <2> QED BY <1>0, <1>2, <2>3, <2>4, <2>5, TopGoesOn
<1>3. CASE InProc(c, T)
  <2> DEFINE s == Tail(FlowList(c))
  <2>1. chain = FlowList(c)
    BY <1>3 DEF InProc
  <2>2. Head(FlowList(c)).type # "SYNTHIO_EVENT" /\ Head(FlowList(c)).type # "CSWITCH_EVENT"
    BY <2>1
  <2>3. /\ WithChain(c, cpus, Tail(chain)) = CpuChanged(c, k)
        /\ ProcWithChain(c, cpus, procs, Tail(chain)) = WithList(procs, k.procp, s)
    BY <1>3, <2>2, FlowTaken
  <2>4. Continue(c, CpuChanged(c, k), WithList(procs, k.procp, s), r, FALSE, FALSE)
    BY <2>3
  <2>5. s \in Seq(FlowEvents(T))
    BY <1>3, FlowTail
  <2>6. NoSwitch(FlowList(c)) /\ NoSwitch(s)
    BY <1>3, <2>2, NoneInTail DEF InPlace, Settings
  <2> HIDE DEF s
  <2> QED BY <1>3, <2>4, <2>5, <2>6, FlowGoesOn
<1>4. CASE InIdle(c)
  BY <1>4 DEF InIdle, IdleEvents
<1> QED BY <1>1, <1>2, <1>3, <1>4

\* pf_handle_io_internal_event
LEMMA AccessInPlace ==
  ASSUME NEW T, NEW c, NEW q, Before(T, c, q), InPlace, OrderedRest(c, q),
         Handled(c, q, "IO_ACCESS_ARRIVE", HandleAccess)
  PROVE  InPlaceNext
<1> DEFINE chain == Chain(cpus[c], procs)
           ev == Head(chain)
           e == Interrupt(ev.arg, Head(config.causes))
           r == Put(q, e, 1)
<1>0. Typed(T) /\ Running /\ ~stop_sim /\ c \in Cpus /\ q \in Agendas(QueueEvents) /\ OthersGood(c, q)
  BY BeforeParts
<1>1. /\ chain # <<>> /\ Head(chain).type = "IO_ACCESS_ARRIVE"
      /\ HandleAccess(c, WithChain(c, cpus, Tail(chain)), ProcWithChain(c, cpus, procs, Tail(chain)), q, ev)
  BY DEF Handled
<1>2. ev.arg \in Int
  BY <1>0, <1>1, Modes DEF InIntr, InProc, InIdle, IntrEvents, FlowEvents, IdleEvents
<1>3. Head(config.causes) \in Causes
  <2>1. config.causes \in {<<"COMPLETION">>, <<"DISCONNECT", "RECONNECT", "COMPLETION">>}
    BY <1>0, ConfigParts
  <2> QED BY <2>1 DEF Causes
<1>4. e \in QueueEvents /\ \A d \in Cpus : e # CpuEvent(d)
  BY <1>2, <1>3, InterruptIsEvent
<1>5. /\ Continue(c, WithChain(c, cpus, Tail(chain)), ProcWithChain(c, cpus, procs, Tail(chain)), r, FALSE, FALSE)
      /\ pf_dispq' = pf_dispq /\ sleepqueue' = sleepqueue
  BY <1>1 DEF HandleAccess, Scheduled
<1> HIDE DEF e
<1>6. r \in Agendas(QueueEvents) /\ OthersGood(c, r)
  BY <1>0, <1>4, OthersGoodPut
<1>7. r.soon = q.soon /\ \A d \in Cpus : CpuEvent(d) \in r.later => CpuEvent(d) \in q.later
  BY <1>0, <1>4, PutLaterKeeps
<1> HIDE DEF r
<1> QED BY <1>1, <1>5, <1>6, <1>7, PlainInPlace

\* iodriver_respond_to_device
LEMMA RespondInPlace ==
  ASSUME NEW T, NEW c, NEW q, Before(T, c, q), InPlace, OrderedRest(c, q),
         Handled(c, q, "IO_RESPOND_TO_DEVICE", HandleRespond)
  PROVE  InPlaceNext
<1> DEFINE chain == Chain(cpus[c], procs)
           ev == Head(chain)
           C == WithChain(c, cpus, Tail(chain))
           cause == Head(C[c].intrs).cause
           e == Interrupt(ev.arg, NextCause(cause))
           next == IF config.consttime \/ cause = "COMPLETION" THEN q ELSE Put(q, e, 1)
<1>0. Typed(T) /\ c \in Cpus /\ q \in Agendas(QueueEvents) /\ OthersGood(c, q)
  BY BeforeParts
<1>1. /\ chain # <<>> /\ Head(chain).type = "IO_RESPOND_TO_DEVICE"
      /\ HandleRespond(c, C, ProcWithChain(c, cpus, procs, Tail(chain)), q, ev)
  BY DEF Handled
<1>2. /\ InIntr(c) /\ chain = TopList(c) /\ ev.arg \in Int
      /\ Head(TopList(c)).type # "INTEND_EVENT"
  BY <1>1, IntrOnly
<1>3. /\ pf_dispq' = pf_dispq /\ sleepqueue' = sleepqueue
      /\ Continue(c, C, ProcWithChain(c, cpus, procs, Tail(chain)), next, FALSE, FALSE)
  BY <1>1 DEF HandleRespond, NextCause
<1>4. cause \in Causes
  BY <1>2, TopCause
<1>5. /\ next \in Agendas(QueueEvents) /\ OthersGood(c, next) /\ next.soon = q.soon
      /\ \A d \in Cpus : CpuEvent(d) \in next.later => CpuEvent(d) \in q.later
  <2>1. CASE config.consttime \/ cause = "COMPLETION"
    BY <1>0, <2>1
  <2>2. CASE ~(config.consttime \/ cause = "COMPLETION")
    <3> HIDE DEF cause
    <3>1. NextCause(cause) \in Causes
      BY <1>0, <1>4, <2>2, NextCauseFacts
    <3>2. e \in QueueEvents /\ \A d \in Cpus : e # CpuEvent(d)
      BY <1>2, <3>1, InterruptIsEvent
    <3> HIDE DEF e
    <3>3. Put(q, e, 1) \in Agendas(QueueEvents) /\ OthersGood(c, Put(q, e, 1))
      BY <1>0, <3>2, OthersGoodPut
    <3>4. /\ Put(q, e, 1).soon = q.soon
          /\ \A d \in Cpus : CpuEvent(d) \in Put(q, e, 1).later => CpuEvent(d) \in q.later
      BY <1>0, <3>2, PutLaterKeeps
    <3> QED BY <2>2, <3>3, <3>4
  <2> QED BY <2>1, <2>2
<1> HIDE DEF next
<1> QED BY <1>1, <1>3, <1>5, PlainInPlace

LEMMA NoSwitchBefore ==
  ASSUME NEW R, NEW u \in Seq(R), NoSwitch(u), NEW S, NEW s \in Seq(S), NoSwitch(s)
  PROVE  NoSwitch(u \o s)
<1>1. ASSUME NEW i \in DOMAIN (u \o s) PROVE (u \o s)[i].type # "CSWITCH_EVENT"
  <2>1. CASE i \in DOMAIN u
    <3>1. (u \o s)[i] = u[i]
      BY <2>1
    <3> QED BY <2>1, <3>1 DEF NoSwitch
  <2>2. CASE i \notin DOMAIN u
    <3>1. i - Len(u) \in DOMAIN s /\ (u \o s)[i] = s[i - Len(u)]
      BY <1>1, <2>2
    <3> QED BY <3>1 DEF NoSwitch
  <2> QED BY <2>1, <2>2
<1> QED BY <1>1 DEF NoSwitch

LEMMA AppendedNoSwitch ==
  ASSUME NEW U, NEW listed \in Seq(LimitEvents(U)), NEW over \in 0..Len(listed), NEW o, NEW think, NEW class
  PROVE  NoSwitch(Appended(<<Synthio>>, listed, over, o, think, class))
<1> DEFINE first == SubSeq(listed, 1, over)
           req   == Event("IOREQ_EVENT", think - When(listed, over), o)
           sleep == IF class = "CRITICAL" THEN <<Event("SLEEP_EVENT", 0, o)>> ELSE <<>>
           S     == {req, Event("SLEEP_EVENT", 0, o), Synthio}
<1>1. first \in Seq(LimitEvents(U))
  BY SubSeqParts
<1>2. NoSwitch(first)
  <2> HIDE DEF first
  <2>1. \A i \in DOMAIN first : first[i] \in LimitEvents(U)
    BY <1>1
  <2> QED BY <2>1 DEF NoSwitch, LimitEvents
<1>3. \A e \in S : e.type # "CSWITCH_EVENT"
  BY DEF Event, Synthio
<1>4. <<req>> \in Seq(S) /\ sleep \in Seq(S) /\ <<Synthio>> \in Seq(S)
  <2> DEFINE x == Event("SLEEP_EVENT", 0, o)
             y == Synthio
  <2>1. sleep = <<x>> \/ sleep = <<>>
    OBVIOUS
  <2>2. S = {req, x, y}
    OBVIOUS
  <2> HIDE DEF req, x, sleep, y, S
  <2>3. <<req>> \in Seq(S) /\ <<x>> \in Seq(S) /\ <<y>> \in Seq(S) /\ <<>> \in Seq(S)
    BY <2>2
  <2> QED BY <2>1, <2>3 DEF y
<1>5. Appended(<<Synthio>>, listed, over, o, think, class) = first \o <<req>> \o sleep \o <<Synthio>>
  BY DEF Appended
<1> DEFINE last == <<Synthio>>
           one == <<req>>
<1>6. one \in Seq(S) /\ last \in Seq(S)
  BY <1>4
<1> HIDE DEF first, req, sleep, S, last, one
<1>7. one \o sleep \o last \in Seq(S)
  BY <1>4, <1>6
<1> DEFINE rest == one \o sleep \o last
<1>8. NoSwitch(rest) /\ rest \in Seq(S)
  <2>1. rest \in Seq(S)
    BY <1>7
  <2> HIDE DEF rest
  <2>2. \A i \in DOMAIN rest : rest[i] \in S
    BY <2>1
  <2> QED BY <1>3, <2>1, <2>2 DEF NoSwitch
<1>9. first \o one \o sleep \o last = first \o rest
  <2> DEFINE W == LimitEvents(U) \cup S
  <2>1. first \in Seq(W) /\ one \in Seq(W) /\ sleep \in Seq(W) /\ last \in Seq(W)
    <3>1. \A A, B : A \subseteq B => Seq(A) \subseteq Seq(B)
      OBVIOUS
    <3>2. Seq(LimitEvents(U)) \subseteq Seq(W) /\ Seq(S) \subseteq Seq(W)
      BY <3>1
    <3> HIDE DEF W
    <3> QED BY <1>1, <1>4, <1>6, <3>2
  <2> HIDE DEF W
  <2>2. one \o sleep \in Seq(W)
    BY <2>1
  <2>3. (first \o one) \o sleep = first \o (one \o sleep)
    BY <2>1, SMTT(30)
  <2>4. (first \o (one \o sleep)) \o last = first \o ((one \o sleep) \o last)
    BY <2>1, <2>2, SMTT(30)
  <2> QED BY <2>3, <2>4
<1> HIDE DEF rest
<1>10. NoSwitch(first \o rest)
  BY <1>1, <1>2, <1>8, NoSwitchBefore
<1> QED BY <1>5, <1>9, <1>10 DEF one, last

\* pf_handle_synthio_event
LEMMA SynthioInPlace ==
  ASSUME NEW T, NEW c, NEW q, Before(T, c, q), InPlace, OrderedRest(c, q),
         Handled(c, q, "SYNTHIO_EVENT", HandleSynthio)
  PROVE  InPlaceNext
<1>1. GeneratesOn(c, q)
  BY GeneratorGoesOn
<1>2. PICK U, s, stops :
       /\ stops \in BOOLEAN /\ Before(U, c, q) /\ InProc(c, U) /\ s \in Seq(FlowEvents(U))
       /\ UNCHANGED <<pf_dispq, sleepqueue, pendiolist, queue>>
       /\ Continue(c, CpuChanged(c, cpus[c]), WithList(procs, cpus[c].procp, s), q, stops, FALSE)
       /\ \/ s = <<Synthio>>
          \/ /\ ~stops
             /\ \E listed, over, think, class :
                   /\ listed \in Seq(LimitEvents(U)) /\ over \in 0..Len(listed)
                   /\ s = Appended(<<Synthio>>, listed, over, Opid(cpus[c].procp, synthio_iocnt + 1), think, class)
  BY <1>1, Zenon DEF GeneratesOn
<1>3. NoSwitch(s)
  <2>1. CASE s = <<Synthio>>
    BY <2>1 DEF NoSwitch, Synthio, Event
  <2>2. CASE s # <<Synthio>>
    <3>1. PICK listed, over, think, class :
             /\ listed \in Seq(LimitEvents(U)) /\ over \in 0..Len(listed)
             /\ s = Appended(<<Synthio>>, listed, over, Opid(cpus[c].procp, synthio_iocnt + 1), think, class)
      BY <1>2, <2>2
    <3> QED BY <3>1, AppendedNoSwitch
  <2> QED BY <2>1, <2>2
<1>4. NoSwitch(FlowList(c))
  <2>1. Chain(cpus[c], procs) = FlowList(c)
    BY <1>2 DEF InProc
  <2>2. Head(FlowList(c)).type # "CSWITCH_EVENT"
    BY <2>1 DEF Handled
  <2> QED BY <1>2, <2>2, NoneInTail DEF InPlace, Settings
<1>5. q \in Agendas(QueueEvents) /\ OthersGood(c, q) /\ pf_dispq' = pf_dispq /\ sleepqueue' = sleepqueue
  BY <1>2, BeforeParts
<1> QED BY <1>2, <1>3, <1>4, <1>5, FlowGoesOn

\* pf_handle_ioreq_event
LEMMA IoreqInPlace ==
  ASSUME NEW T, NEW c, NEW q, Before(T, c, q), InPlace, OrderedRest(c, q),
         Handled(c, q, "IOREQ_EVENT", HandleIoreq)
  PROVE  InPlaceNext
<1> DEFINE k == cpus[c]
           chain == Chain(k, procs)
           ev == Head(chain)
           p == k.procp
           l == Tail(FlowList(c))
           P == WithList(procs, p, l)
           d == gens[p].devno
           W == queue[d].waiting \cup {ev.arg}
<1>0. Typed(T) /\ c \in Cpus /\ q \in Agendas(QueueEvents) /\ OthersGood(c, q) /\ 0 \in T
  BY BeforeParts, UntouchedTyped
<1>1. /\ chain # <<>> /\ Head(chain).type = "IOREQ_EVENT"
      /\ HandleIoreq(c, WithChain(c, cpus, Tail(chain)), ProcWithChain(c, cpus, procs, Tail(chain)), q, ev)
  BY DEF Handled
<1>2. /\ InProc(c, T) /\ chain = FlowList(c) /\ ev.arg \in Int /\ p \in Procs
      /\ Head(FlowList(c)).type # "CSWITCH_EVENT"
  BY <1>1, FlowOnly
<1>3. l \in Seq(FlowEvents(T)) /\ NoSwitch(FlowList(c)) /\ NoSwitch(l)
  <2>1. l \in Seq(FlowEvents(T))
    BY <1>2, FlowTail
  <2> QED BY <1>2, <2>1, NoneInTail DEF InPlace, Settings
<1>4. /\ WithChain(c, cpus, Tail(chain)) = CpuChanged(c, k) /\ ProcWithChain(c, cpus, procs, Tail(chain)) = P
      /\ k \in CpuRecords /\ CpuChanged(c, k)[c] = k
  <2>1. k \in CpuRecords
    BY <1>0 DEF Typed
  <2> QED BY <1>0, <1>2, <2>1, CpuChangedFacts DEF InProc
<1>5. HandleIoreq(c, CpuChanged(c, k), P, q, ev) /\ CpuChanged(c, k)[c].procp = p
  BY <1>1, <1>4
<1>6. procs \in ProcTables(T) /\ queue \in [Devices -> [waiting : SUBSET Int, out : SUBSET Int]]
  BY <1>0 DEF Typed
<1>7. d \in Devices
  BY <1>0, <1>2, PendFacts
<1> HIDE DEF l, chain, ev
<1>8. /\ \A u : [P EXCEPT ![p].events = u] = WithList(procs, p, u)
      /\ P[p].events = l
  BY <1>2, <1>6, ListChangedAgain
<1> HIDE DEF P
<1>9. PICK h \in HandedOut(d, W) :
         Continue(c, CpuChanged(c, k), [P EXCEPT ![p].events = h[2] \o @], q, FALSE, FALSE)
  BY <1>5 DEF HandleIoreq
<1>10. pf_dispq' = pf_dispq /\ sleepqueue' = sleepqueue
  BY <1>5 DEF HandleIoreq
<1>11. W \in SUBSET Int
  BY <1>2, <1>6, <1>7
<1> HIDE DEF W, d
<1>12. h[2] = <<>> \/ \E o \in W : h[2] = <<Access(o)>>
  BY <1>0, <1>7, <1>11, HandedOutFacts
<1> DEFINE u == h[2]
           s == u \o l
<1>13. u \in Seq(FlowEvents(T)) /\ NoSwitch(u)
  <2>1. \A o \in W : Access(o) \in FlowEvents(T) /\ Access(o).type # "CSWITCH_EVENT"
    BY <1>0, <1>11 DEF Access, Event, FlowEvents, FlowTypes
  <2>2. CASE u = <<>>
    BY <2>2 DEF NoSwitch
  <2>3. CASE \E o \in W : u = <<Access(o)>>
    <3>1. PICK o \in W : u = <<Access(o)>>
      BY <2>3
    <3> DEFINE e == Access(o)
    <3>2. e \in FlowEvents(T) /\ e.type # "CSWITCH_EVENT"
      BY <2>1
    <3> HIDE DEF e
    <3>3. u = <<e>>
      BY <3>1 DEF e
    <3> HIDE DEF u
    <3> QED BY <3>2, <3>3 DEF NoSwitch
  <2> QED BY <1>12, <2>2, <2>3
<1> HIDE DEF u
<1>14. s \in Seq(FlowEvents(T)) /\ NoSwitch(s)
  BY <1>3, <1>13, NoSwitchBefore
<1>15. Continue(c, CpuChanged(c, k), WithList(procs, p, s), q, FALSE, FALSE)
  BY <1>8, <1>9 DEF u
<1> HIDE DEF s
<1> QED BY <1>0, <1>2, <1>3, <1>10, <1>14, <1>15, FlowGoesOn

\* iodriver_access_complete
LEMMA AccessCompleteInPlace ==
  ASSUME NEW T, NEW c, NEW q, Before(T, c, q), InPlace, OrderedRest(c, q),
         Handled(c, q, "IO_ACCESS_COMPLETE", HandleAccessComplete)
  PROVE  InPlaceNext
<1> DEFINE l == Tail(TopList(c))
           o == Head(TopList(c)).arg
<1>0. /\ Typed(T) /\ Running /\ c \in Cpus /\ q \in Agendas(QueueEvents) /\ OthersGood(c, q)
      /\ procs \in ProcTables(T)
  BY BeforeParts DEF Typed
<1>1. /\ InIntr(c) /\ Head(TopList(c)).type = "IO_ACCESS_COMPLETE" /\ o \in Int
      /\ l \in Seq(IntrEvents) /\ EndsIn(l, "INTEND_EVENT") /\ CompletesOn(c, q, o, l)
  BY CompletionGoesOn
<1> HIDE DEF l, o
<1> DEFINE w == WakeupFor(o)
           W == UNION {queue[x.devno].waiting : x \in Answered(o)}
<1>2. PICK next \in NextOut(W) :
         /\ Continue(c, CpuChanged(c, WithTop(cpus[c], Relisted(next, w, l))), procs, q, FALSE, Answered(o) = {})
         /\ pf_dispq' = pf_dispq /\ sleepqueue' = sleepqueue
  BY <1>1 DEF CompletesOn
<1>3. w \in Seq(IntrEvents) /\ \A i \in DOMAIN w : w[i].type # "INTEND_EVENT"
  <2> DEFINE e == Event("WAKEUP_EVENT", 0, o)
  <2>1. e \in IntrEvents /\ e.type # "INTEND_EVENT"
    BY <1>1 DEF Event, IntrEvents, IntrTypes
  <2>2. w = <<e>> \/ w = <<>>
    BY DEF WakeupFor
  <2> HIDE DEF e, w
  <2>3. CASE w = <<e>>
    <3>1. <<e>> \in Seq(IntrEvents) /\ \A i \in DOMAIN <<e>> : <<e>>[i].type # "INTEND_EVENT"
      BY <2>1
    <3> QED BY <2>3, <3>1
  <2>4. CASE w = <<>>
    BY <2>4
  <2> QED BY <2>2, <2>3, <2>4
<1>4. W \in SUBSET Int
  BY <1>0 DEF Typed, Answered, IoRecords
<1> HIDE DEF w, W
<1> DEFINE s == Relisted(next, w, l)
<1>5. s \in Seq(IntrEvents) /\ EndsIn(s, "INTEND_EVENT")
  BY <1>1, <1>2, <1>3, <1>4, RelistedFacts
<1> DEFINE bad == Answered(o) = {}
<1>6. Continue(c, CpuChanged(c, WithTop(cpus[c], s)), procs, q, FALSE, bad) /\ bad \in BOOLEAN
  BY <1>2
<1> HIDE DEF s, bad
<1>7. Head(TopList(c)).type # "INTEND_EVENT"
  BY <1>1
<1>8. WithTop(cpus[c], s) \in CpuRecords /\ Resumable(c, WithTop(cpus[c], s)) /\ WithTop(cpus[c], s).intrs # <<>>
  BY <1>0, <1>1, <1>5, <1>7, TopChanged
<1>9. Queued(procs, pf_dispq', sleepqueue')
  BY <1>2 DEF InPlace, Settings
<1> QED BY <1>0, <1>1, <1>6, <1>8, <1>9, TopGoesOn

(***************************************************************************)
(* The queues.                                                              *)
(***************************************************************************)

\* Who is on one of two lists, and that no one is there twice
LEMMA AmongBoth ==
  ASSUME NEW S, NEW s \in Seq(S), NEW u \in Seq(S)
  PROVE  /\ \A p : Among(p, s \o u) <=> (Among(p, s) \/ Among(p, u))
         /\ Once(s) /\ Once(u) /\ (\A p : ~(Among(p, s) /\ Among(p, u))) => Once(s \o u)
<1> DEFINE n == Len(s)
           m == Len(u)
           a == s \o u
<1>1. /\ n \in Nat /\ m \in Nat /\ DOMAIN s = 1..n /\ DOMAIN u = 1..m /\ DOMAIN a = 1..n + m
      /\ \A i \in 1..n : a[i] = s[i]
      /\ \A i \in 1..m : a[n + i] = u[i]
  OBVIOUS
<1>2. \A i \in 1..n + m : i \in 1..n \/ \E j \in 1..m : i = n + j
  <2>1. \A i \in 1..n + m : i \notin 1..n => i - n \in 1..m /\ i = n + (i - n)
    BY <1>1
  <2> QED BY <2>1
<1>3. (\A i \in 1..n : i \in 1..n + m) /\ \A j \in 1..m : n + j \in 1..n + m
  BY <1>1
<1> HIDE DEF n, m, a
<1>4. ASSUME NEW p PROVE Among(p, a) <=> (Among(p, s) \/ Among(p, u))
  <2>1. ASSUME Among(p, a) PROVE Among(p, s) \/ Among(p, u)
    <3>1. PICK i \in 1..n + m : a[i] = p
      BY <1>1, <2>1 DEF Among
    <3>2. CASE i \in 1..n
      BY <1>1, <3>1, <3>2 DEF Among
    <3>3. CASE i \notin 1..n
      <4>1. PICK j \in 1..m : i = n + j
        BY <1>2, <3>3
      <4>2. u[j] = p
        BY <1>1, <3>1, <4>1
      <4> QED BY <1>1, <4>2 DEF Among
    <3> QED BY <3>2, <3>3
  <2>2. ASSUME Among(p, s) PROVE Among(p, a)
    BY <1>1, <1>3, <2>2 DEF Among
  <2>3. ASSUME Among(p, u) PROVE Among(p, a)
    BY <1>1, <1>3, <2>3 DEF Among
  <2> QED BY <2>1, <2>2, <2>3
<1>5. ASSUME Once(s), Once(u), \A p : ~(Among(p, s) /\ Among(p, u)) PROVE Once(a)
  <2> SUFFICES ASSUME NEW i \in 1..n + m, NEW j \in 1..n + m, a[i] = a[j] PROVE i = j
    BY <1>1 DEF Once
  <2>1. CASE i \in 1..n /\ j \in 1..n
    BY <1>1, <1>5, <2>1 DEF Once
  <2>2. CASE i \in 1..n /\ j \notin 1..n
    <3>1. PICK y \in 1..m : j = n + y
      BY <1>2, <2>2
    <3>2. s[i] = u[y]
      BY <1>1, <2>2, <3>1
    <3>3. Among(s[i], s) /\ Among(s[i], u)
      BY <1>1, <2>2, <3>2 DEF Among
    <3> QED BY <1>5, <3>3
  <2>3. CASE i \notin 1..n /\ j \in 1..n
    <3>1. PICK x \in 1..m : i = n + x
      BY <1>2, <2>3
    <3>2. s[j] = u[x]
      BY <1>1, <2>3, <3>1
    <3>3. Among(s[j], s) /\ Among(s[j], u)
      BY <1>1, <2>3, <3>2 DEF Among
    <3> QED BY <1>5, <3>3
  <2>4. CASE i \notin 1..n /\ j \notin 1..n
    <3>1. PICK x \in 1..m : i = n + x
      BY <1>2, <2>4
    <3>2. PICK y \in 1..m : j = n + y
      BY <1>2, <2>4
    <3>3. u[x] = u[y]
      BY <1>1, <3>1, <3>2
    <3>4. x = y
      BY <1>1, <1>5, <3>3 DEF Once
    <3> QED BY <3>1, <3>2, <3>4
  <2> QED BY <2>1, <2>2, <2>3, <2>4
<1> QED BY <1>4, <1>5 DEF a

\* A list without its first
LEMMA AmongTail ==
  ASSUME NEW S, NEW s \in Seq(S), s # <<>>, Once(s)
  PROVE  /\ Once(Tail(s)) /\ Among(Head(s), s) /\ Head(s) \in S
         /\ \A p : Among(p, Tail(s)) <=> (Among(p, s) /\ p # Head(s))
<1> DEFINE n == Len(s)
           a == Tail(s)
<1>1. /\ n \in Nat \ {0} /\ DOMAIN s = 1..n /\ DOMAIN a = 1..n - 1
      /\ \A i \in 1..n - 1 : a[i] = s[i + 1] /\ i + 1 \in 1..n
      /\ Head(s) = s[1] /\ 1 \in 1..n
  OBVIOUS
<1>2. \A i \in 1..n : i = 1 \/ \E j \in 1..n - 1 : i = j + 1
  <2>1. \A i \in 1..n : i # 1 => i - 1 \in 1..n - 1 /\ i = (i - 1) + 1
    BY <1>1
  <2> QED BY <2>1
<1>3. Head(s) \in S
  OBVIOUS
<1> HIDE DEF n, a
<1>4. \A i, j \in 1..n : s[i] = s[j] => i = j
  BY <1>1 DEF Once
<1>5. Once(a)
  <2> SUFFICES ASSUME NEW i \in 1..n - 1, NEW j \in 1..n - 1, a[i] = a[j] PROVE i = j
    BY <1>1 DEF Once
  <2>1. i + 1 = j + 1
    BY <1>1, <1>4
  <2> QED BY <1>1, <2>1
<1>6. ASSUME NEW p PROVE Among(p, a) <=> (Among(p, s) /\ p # Head(s))
  <2>1. ASSUME Among(p, a) PROVE Among(p, s) /\ p # Head(s)
    <3>1. PICK i \in 1..n - 1 : p = s[i + 1] /\ i + 1 \in 1..n /\ i + 1 # 1
      BY <1>1, <2>1 DEF Among
    <3> QED BY <1>1, <1>4, <3>1 DEF Among
  <2>2. ASSUME Among(p, s), p # Head(s) PROVE Among(p, a)
    <3>1. PICK i \in 1..n : s[i] = p
      BY <1>1, <2>2 DEF Among
    <3>2. PICK j \in 1..n - 1 : i = j + 1
      BY <1>1, <1>2, <2>2, <3>1
    <3>3. a[j] = p
      BY <1>1, <3>1, <3>2
    <3> QED BY <1>1, <3>3 DEF Among
  <2> QED BY <2>1, <2>2
<1>7. Among(Head(s), s)
  BY <1>1 DEF Among
<1> QED BY <1>3, <1>5, <1>6, <1>7 DEF a

\* A list with another first
LEMMA AmongPut ==
  ASSUME NEW S, NEW s \in Seq(S), NEW p \in S, Once(s), ~Among(p, s)
  PROVE  /\ Once(<<p>> \o s)
         /\ \A o : Among(o, <<p>> \o s) <=> (o = p \/ Among(o, s))
<1> DEFINE u == <<p>>
<1>1. u \in Seq(S) /\ DOMAIN u = 1..1 /\ u[1] = p
  OBVIOUS
<1> HIDE DEF u
<1>2. Once(u) /\ \A o : Among(o, u) <=> o = p
  BY <1>1 DEF Once, Among
<1>3. \A o : ~(Among(o, u) /\ Among(o, s))
  BY <1>2
<1> QED BY <1>1, <1>2, <1>3, AmongBoth DEF u

\* The elements of a list at some of its places
LEMMA AmongSelected ==
  ASSUME NEW S, NEW s \in Seq(S), NEW K \in SUBSET DOMAIN s, Once(s)
  PROVE  /\ Once(Selected(s, K)) /\ Selected(s, K) \in Seq(S)
         /\ \A p : Among(p, Selected(s, K)) <=> \E j \in K : s[j] = p
<1> DEFINE a == Selected(s, K)
<1>1. \A i, j \in K : s[i] = s[j] => i = j
  BY DEF Once
<1>2. /\ a \in Seq(S)
      /\ \A i \in DOMAIN a : \E j \in K : a[i] = s[j]
      /\ \A j \in K : \E i \in DOMAIN a : a[i] = s[j]
      /\ \A i, j \in DOMAIN a : a[i] = a[j] => i = j
  BY <1>1, SelectedFacts
<1> HIDE DEF a
<1>3. Once(a)
  BY <1>2 DEF Once
<1>4. \A p : Among(p, a) <=> \E j \in K : s[j] = p
  BY <1>2 DEF Among
<1> QED BY <1>2, <1>3, <1>4 DEF a

LEMMA WokenStats ==
  ASSUME NEW T, NEW P \in ProcTables(T), NEW s \in Seq(Procs)
  PROVE  \A p \in Procs : /\ Among(p, s) => Woken(P, s)[p].stat = "PROC_RUN"
                          /\ ~Among(p, s) => Woken(P, s)[p] = P[p]
<1> SUFFICES ASSUME NEW p \in Procs
             PROVE  /\ Among(p, s) => Woken(P, s)[p].stat = "PROC_RUN"
                    /\ ~Among(p, s) => Woken(P, s)[p] = P[p]
  OBVIOUS
<1>1. p \in ToSet(s) <=> Among(p, s)
  BY DEF ToSet, Among
<1>2. P[p] \in ProcRecords(T)
  BY DEF ProcTables
<1>3. [P[p] EXCEPT !.stat = "PROC_RUN"].stat = "PROC_RUN"
  BY <1>2 DEF ProcRecords
<1>4. Woken(P, s)[p] = IF p \in ToSet(s) THEN [P[p] EXCEPT !.stat = "PROC_RUN"] ELSE P[p]
  BY DEF Woken
<1> QED BY <1>1, <1>3, <1>4

\* Those at the places K of the sleep queue go from one queue to the other.
LEMMA QueuedWoken ==
  ASSUME NEW T, Typed(T), Queued(procs, pf_dispq, sleepqueue),
         NEW K \in SUBSET DOMAIN sleepqueue,
         NEW woken, woken = Selected(sleepqueue, K),
         NEW rest, rest = Selected(sleepqueue, DOMAIN sleepqueue \ K)
  PROVE  /\ Queued(Woken(procs, woken), pf_dispq \o woken, rest) /\ woken \in Seq(Procs)
         /\ \A p \in Procs : Woken(procs, woken)[p].stat = "PROC_ONPROC" <=> procs[p].stat = "PROC_ONPROC"
<1> DEFINE P == Woken(procs, woken)
           ready == pf_dispq \o woken
<1>0. /\ sleepqueue \in Seq(Procs) /\ pf_dispq \in Seq(Procs) /\ procs \in ProcTables(T)
      /\ Once(sleepqueue) /\ Once(pf_dispq)
      /\ \A p \in Procs : procs[p].stat = "PROC_RUN" <=> Among(p, pf_dispq)
      /\ \A p \in Procs : procs[p].stat = "PROC_SLEEP" <=> Among(p, sleepqueue)
  BY DEF Typed, Queued
<1>1. /\ Once(woken) /\ woken \in Seq(Procs)
      /\ \A p : Among(p, woken) <=> \E j \in K : sleepqueue[j] = p
  BY <1>0, AmongSelected
<1> DEFINE R == DOMAIN sleepqueue \ K
<1>2. R \in SUBSET DOMAIN sleepqueue /\ rest = Selected(sleepqueue, R)
  OBVIOUS
<1>3. \A j \in DOMAIN sleepqueue : j \in R <=> j \notin K
  OBVIOUS
<1> HIDE DEF R
<1>4. /\ Once(rest) /\ rest \in Seq(Procs)
      /\ \A p : Among(p, rest) <=> \E j \in R : sleepqueue[j] = p
  <2>1. /\ Once(Selected(sleepqueue, R)) /\ Selected(sleepqueue, R) \in Seq(Procs)
        /\ \A p : Among(p, Selected(sleepqueue, R)) <=> \E j \in R : sleepqueue[j] = p
    BY <1>0, <1>2, AmongSelected
  <2> QED BY <1>2, <2>1
<1>5. \A p : Among(p, woken) => Among(p, sleepqueue)
  BY <1>1 DEF Among
<1>6. \A p : Among(p, rest) => Among(p, sleepqueue)
  BY <1>2, <1>4 DEF Among
<1>7. \A p : ~(Among(p, woken) /\ Among(p, rest))
  <2>1. \A i, j \in DOMAIN sleepqueue : sleepqueue[i] = sleepqueue[j] => i = j
    BY <1>0 DEF Once
  <2> QED BY <1>1, <1>2, <1>3, <1>4, <2>1
<1>8. \A p : Among(p, sleepqueue) => Among(p, woken) \/ Among(p, rest)
  <2> SUFFICES ASSUME NEW p, NEW i \in DOMAIN sleepqueue, sleepqueue[i] = p, ~Among(p, woken)
               PROVE  Among(p, rest)
    BY DEF Among
  <2> QED BY <1>1, <1>3, <1>4
<1>9. \A p \in Procs : /\ Among(p, woken) => P[p].stat = "PROC_RUN"
                       /\ ~Among(p, woken) => P[p] = procs[p]
  BY <1>0, <1>1, WokenStats
<1>10. \A p : Among(p, woken) => p \in Procs
  BY <1>1 DEF Among
<1>11. \A p : Among(p, pf_dispq) => p \in Procs
  BY <1>0 DEF Among
<1>12. \A p : ~(Among(p, pf_dispq) /\ Among(p, woken))
  <2> SUFFICES ASSUME NEW p \in Procs, Among(p, pf_dispq), Among(p, woken) PROVE FALSE
    BY <1>10
  <2>1. procs[p].stat = "PROC_RUN" /\ procs[p].stat = "PROC_SLEEP"
    BY <1>0, <1>5
  <2> QED BY <2>1
<1>13. Once(ready) /\ \A p : Among(p, ready) <=> (Among(p, pf_dispq) \/ Among(p, woken))
  BY <1>0, <1>1, <1>12, AmongBoth
<1> HIDE DEF P, ready
<1>14. \A p \in Procs : P[p].stat = "PROC_RUN" <=> Among(p, ready)
  BY <1>0, <1>9, <1>13
<1>15. ASSUME NEW p \in Procs PROVE P[p].stat = "PROC_SLEEP" <=> Among(p, rest)
  <2>1. CASE Among(p, woken)
    BY <1>7, <1>9, <2>1
  <2>2. CASE ~Among(p, woken)
    BY <1>0, <1>6, <1>8, <1>9, <2>2
  <2> QED BY <2>1, <2>2
<1>16. Queued(P, ready, rest)
  BY <1>4, <1>13, <1>14, <1>15 DEF Queued
<1>17. ASSUME NEW p \in Procs PROVE P[p].stat = "PROC_ONPROC" <=> procs[p].stat = "PROC_ONPROC"
  <2>1. CASE Among(p, woken)
    <3>1. procs[p].stat = "PROC_SLEEP" /\ P[p].stat = "PROC_RUN"
      BY <1>0, <1>5, <1>9, <2>1
    <3> QED BY <3>1
  <2>2. CASE ~Among(p, woken)
    BY <1>9, <2>2
  <2> QED BY <2>1, <2>2
<1> QED BY <1>1, <1>16, <1>17 DEF P, ready

\* pf_handle_wakeup_event
LEMMA WakeupInPlace ==
  ASSUME NEW T, NEW c, NEW q, Before(T, c, q), InPlace, OrderedRest(c, q),
         Handled(c, q, "WAKEUP_EVENT", HandleWakeup)
  PROVE  InPlaceNext
<1> DEFINE k == cpus[c]
           chain == Chain(k, procs)
           ev == Head(chain)
           s == Tail(TopList(c))
           w == WithTop(k, s)
           K == SleepersOn(procs, ev.arg)
           woken == Selected(sleepqueue, K)
           rest == Selected(sleepqueue, DOMAIN sleepqueue \ K)
           P == Woken(procs, woken)
<1>0. Typed(T) /\ Running /\ c \in Cpus /\ q \in Agendas(QueueEvents) /\ OthersGood(c, q)
  BY BeforeParts
<1>1. /\ chain # <<>> /\ Head(chain).type = "WAKEUP_EVENT"
      /\ HandleWakeup(c, WithChain(c, cpus, Tail(chain)), ProcWithChain(c, cpus, procs, Tail(chain)), q, ev)
  BY DEF Handled
<1>2. InIntr(c) /\ chain = TopList(c) /\ Head(TopList(c)).type # "INTEND_EVENT"
  BY <1>1, IntrOnly
<1>3. /\ WithChain(c, cpus, Tail(chain)) = CpuChanged(c, w) /\ ProcWithChain(c, cpus, procs, Tail(chain)) = procs
      /\ procs \in ProcTables(T)
      /\ w \in CpuRecords /\ Resumable(c, w) /\ w.intrs # <<>>
  BY <1>2, IntrTaken
<1>4. /\ Continue(c, CpuChanged(c, w), P, q, FALSE, FALSE)
      /\ pf_dispq' = pf_dispq \o woken /\ sleepqueue' = rest
  <2>1. HandleWakeup(c, CpuChanged(c, w), procs, q, ev)
    BY <1>1, <1>3
  <2> QED BY <2>1 DEF HandleWakeup, PutAtEnd
<1>5. K \in SUBSET DOMAIN sleepqueue
  BY DEF SleepersOn
<1>6. Queued(procs, pf_dispq, sleepqueue)
  BY DEF InPlace, Settings
<1> HIDE DEF K
<1> DEFINE v == woken
           z == rest
<1>7. v = Selected(sleepqueue, K) /\ z = Selected(sleepqueue, DOMAIN sleepqueue \ K) /\ P = Woken(procs, v)
      /\ woken = v /\ rest = z
  OBVIOUS
<1> HIDE DEF v, z, woken, rest
<1>8. /\ Queued(Woken(procs, v), pf_dispq \o v, z) /\ v \in Seq(Procs)
      /\ \A p \in Procs : Woken(procs, v)[p].stat = "PROC_ONPROC" <=> procs[p].stat = "PROC_ONPROC"
  BY <1>0, <1>5, <1>6, <1>7, QueuedWoken
<1>9. P \in ProcTables(T) /\ \A o \in Procs : P[o].events = procs[o].events
  BY <1>3, <1>7, <1>8, WokenFacts
<1>10. Queued(P, pf_dispq', sleepqueue')
  BY <1>4, <1>7, <1>8
<1>11. \A p \in Procs : P[p].stat = "PROC_ONPROC" <=> procs[p].stat = "PROC_ONPROC"
  BY <1>7, <1>8
<1> HIDE DEF P, s
<1> QED BY <1>0, <1>2, <1>3, <1>4, <1>9, <1>10, <1>11, TopGoesOn

(***************************************************************************)
(* pf_dispatch.                                                             *)
(***************************************************************************)
LEMMA OnProcStats ==
  ASSUME NEW T, NEW P \in ProcTables(T), NEW n \in Procs \cup {Nobody}
  PROVE  \A x \in Procs : /\ x # n => OnProc(P, n)[x] = P[x]
                          /\ x = n => OnProc(P, n)[x].stat = "PROC_ONPROC"
<1> SUFFICES ASSUME NEW x \in Procs
             PROVE  /\ x # n => OnProc(P, n)[x] = P[x]
                    /\ x = n => OnProc(P, n)[x].stat = "PROC_ONPROC"
  OBVIOUS
<1>1. CASE n = Nobody
  <2>1. x # n
    BY <1>1, ProcsAreNumbers DEF Nobody
  <2> QED BY <1>1, <2>1 DEF OnProc
<1>2. CASE n # Nobody
  <2> DEFINE r == [P[n] EXCEPT !.stat = "PROC_ONPROC"]
  <2>1. n \in Procs /\ P[n] \in ProcRecords(T) /\ OnProc(P, n) = [P EXCEPT ![n] = r]
    BY <1>2 DEF OnProc, ProcTables
  <2>2. r.stat = "PROC_ONPROC"
    BY <2>1 DEF ProcRecords
  <2> HIDE DEF r
  <2> QED BY <2>1, <2>2 DEF ProcTables
<1> QED BY <1>1, <1>2

\* The first of the dispatch queue leaves it and counts on a processor.
LEMMA DispatchFacts ==
  ASSUME NEW T, Typed(T), NEW P \in ProcTables(T), NEW asleep, Queued(P, pf_dispq, asleep)
  PROVE  /\ Queued(OnProc(P, NextProc), Undispatched, asleep)
         /\ OnProc(P, NextProc) \in ProcTables(T)
         /\ \A x \in Procs : OnProc(P, NextProc)[x].events = P[x].events
         /\ \A x \in Procs : x = NextProc => P[x].stat = "PROC_RUN"
         /\ \A x \in Procs : Owed(OnProc(P, NextProc), x) = Owed(P, x) + Bit(NextProc = x)
<1> DEFINE n == NextProc
           R == OnProc(P, n)
<1>1. /\ n \in Procs \cup {Nobody} /\ pf_dispq \in Seq(Procs)
      /\ pf_dispq # <<>> => n = Head(pf_dispq) /\ n \in Procs
  BY NextProcFacts DEF Typed
<1>2. pf_dispq = <<>> => n = Nobody
  BY DEF NextProc
<1> HIDE DEF n
<1>3. R \in ProcTables(T) /\ \A x \in Procs : R[x].events = P[x].events
  BY <1>1, OnProcFacts
<1>4. \A x \in Procs : (x # n => R[x] = P[x]) /\ (x = n => R[x].stat = "PROC_ONPROC")
  BY <1>1, OnProcStats
<1>5. /\ Once(pf_dispq) /\ Once(asleep)
      /\ \A x \in Procs : P[x].stat = "PROC_RUN" <=> Among(x, pf_dispq)
      /\ \A x \in Procs : P[x].stat = "PROC_SLEEP" <=> Among(x, asleep)
  BY DEF Queued
<1> HIDE DEF R
<1>6. /\ Once(Undispatched)
      /\ \A x \in Procs : Among(x, Undispatched) <=> (Among(x, pf_dispq) /\ x # n)
      /\ \A x \in Procs : x = n => P[x].stat = "PROC_RUN"
  <2>1. CASE pf_dispq = <<>>
    <3>1. n \notin Procs
      BY <1>2, <2>1, ProcsAreNumbers DEF Nobody
    <3>2. Undispatched = pf_dispq
      BY <2>1 DEF Undispatched
    <3> QED BY <1>5, <3>1, <3>2
  <2>2. CASE pf_dispq # <<>>
    <3>1. /\ Once(Tail(pf_dispq)) /\ Among(Head(pf_dispq), pf_dispq)
          /\ \A x : Among(x, Tail(pf_dispq)) <=> (Among(x, pf_dispq) /\ x # Head(pf_dispq))
      BY <1>1, <1>5, <2>2, AmongTail
    <3>2. Undispatched = Tail(pf_dispq)
      BY <2>2 DEF Undispatched
    <3> QED BY <1>1, <1>5, <2>2, <3>1, <3>2
  <2> QED BY <2>1, <2>2
<1>7. ASSUME NEW x \in Procs
      PROVE  /\ R[x].stat = "PROC_RUN" <=> Among(x, Undispatched)
             /\ R[x].stat = "PROC_SLEEP" <=> Among(x, asleep)
             /\ Owed(R, x) = Owed(P, x) + Bit(n = x)
  <2>1. Leaving(R, x) <=> Leaving(P, x)
    BY <1>3 DEF Leaving
  <2>2. CASE x = n
    <3>1. R[x].stat = "PROC_ONPROC" /\ P[x].stat = "PROC_RUN"
      BY <1>4, <1>6, <2>2
    <3>2. ~Among(x, Undispatched) /\ ~Among(x, asleep)
      BY <1>5, <1>6, <2>2, <3>1
    <3>3. Owed(R, x) = Owed(P, x) + Bit(n = x)
      BY <2>1, <2>2, <3>1 DEF Owed, Bit
    <3> QED BY <3>1, <3>2, <3>3
  <2>3. CASE x # n
    <3>1. R[x] = P[x]
      BY <1>4, <2>3
    <3>2. Owed(R, x) = Owed(P, x) + Bit(n = x)
      BY <2>1, <2>3, <3>1 DEF Owed, Bit
    <3> QED BY <1>5, <1>6, <2>3, <3>1, <3>2
  <2> QED BY <2>2, <2>3
<1>8. Queued(R, Undispatched, asleep)
  BY <1>5, <1>6, <1>7 DEF Queued
<1> QED BY <1>3, <1>6, <1>7, <1>8 DEF R, n

\* A process on a processor that is not about to leave it is nowhere else.
LEMMA OnlySeat ==
  ASSUME config \in Configs, Balanced(cpus, procs), NEW c \in Cpus, cpus[c].procp \in Procs,
         ~Leaving(procs, cpus[c].procp)
  PROVE  /\ procs[cpus[c].procp].stat = "PROC_ONPROC"
         /\ \A d \in Cpus : cpus[d].procp = cpus[c].procp => d = c
<1> DEFINE p == cpus[c].procp
           A == OnCpu(cpus, p)
           B == ToCpu(cpus, p)
           D == FromList(procs, p)
           on == procs[p].stat = "PROC_ONPROC"
<1>1. IsFiniteSet(A) /\ Cardinality(A) \in Nat /\ Cardinality(B) \in Nat /\ Cardinality(D) \in Nat
  BY CountsAreNumbers
<1>2. Cardinality(A) + Cardinality(B) + Cardinality(D) = Bit(on)
  <2>1. BalancedFor(cpus, procs, p)
    BY DEF Balanced
  <2>2. Bit(Leaving(procs, p)) = 0 /\ Bit(on) \in Nat
    BY DEF Bit
  <2> QED BY <2>1, <2>2 DEF BalancedFor
<1>3. c \in A
  BY DEF OnCpu
<1>4. \A d \in Cpus : cpus[d].procp = p => d \in A
  BY DEF OnCpu
<1>5. (on => Bit(on) = 1) /\ (~on => Bit(on) = 0)
  BY DEF Bit
<1> HIDE DEF A, B, D, on, p
<1> DEFINE bit == Bit(on)
<1>6. (on => bit = 1) /\ (~on => bit = 0) /\ Cardinality(A) + Cardinality(B) + Cardinality(D) = bit
  BY <1>2, <1>5
<1> HIDE DEF bit
<1>7. Cardinality(A) # 0
  BY <1>1, <1>3, FS_EmptySet
<1>8. on /\ Cardinality(A) = 1
  BY <1>1, <1>6, <1>7
<1>9. A = {c}
  <2>1. \E x : A = {x}
    BY <1>1, <1>8, FS_Singleton
  <2> QED BY <1>3, <2>1
<1> QED BY <1>4, <1>8, <1>9 DEF on, p

LEMMA SleeperStats ==
  ASSUME NEW T, NEW P \in ProcTables(T), NEW p \in Procs, NEW chan, NEW n
  PROVE  \A o \in Procs : /\ o = p => Sleeper(P, p, chan, n)[o].stat = "PROC_SLEEP"
                          /\ o # p => Sleeper(P, p, chan, n)[o] = P[o]
<1>1. P[p] \in ProcRecords(T) /\ P \in [Procs -> ProcRecords(T)]
  BY DEF ProcTables
<1> QED BY <1>1 DEF Sleeper, ProcRecords

LEMMA SleeperList ==
  ASSUME NEW T, 0 \in T, NEW P \in ProcTables(T), NEW p \in Procs, NEW chan \in Int, NEW n \in Procs \cup {Nobody},
         \A o \in Procs : EndsIn(P[o].events, "SYNTHIO_EVENT")
  PROVE  Sleeper(P, p, chan, n)[p].events = <<CSwitch(n)>> \o P[p].events
BY SleeperFacts

\* The table R of the processes after p went to sleep
SleeperPlaced(T, p, R) ==
    /\ R \in ProcTables(T) /\ FirstOnly(R) /\ Queued(R, Undispatched, <<p>> \o sleepqueue)
    /\ \A o \in Procs : o # p => Target(R[o].events) = Target(procs[o].events)
    /\ \A o \in Procs : o # p => (Leaving(R, o) <=> Leaving(procs, o))
    /\ \A x \in Procs : AtList(R, p, x) + Owed(procs, x) = AtList(procs, p, x) + Owed(R, x)

\* pf_disp_sleep
LEMMA AsleepInPlace ==
  ASSUME NEW T, NEW c, NEW q, Before(T, c, q), InPlace, InProc(c, T),
         Head(FlowList(c)).type # "SYNTHIO_EVENT", Head(FlowList(c)).type # "CSWITCH_EVENT", NEW chan \in Int,
         NEW p, p = cpus[c].procp, NEW P, P = WithList(procs, p, Tail(FlowList(c)))
  PROVE  SleeperPlaced(T, p, Asleep(P, p, chan))
<1> DEFINE n == NextProc
           l == Tail(FlowList(c))
           S == Sleeper(P, p, chan, n)
           R == OnProc(S, n)
<1>0. /\ Typed(T) /\ c \in Cpus /\ config \in Configs /\ procs \in ProcTables(T)
      /\ sleepqueue \in Seq(Procs) /\ 0 \in T /\ Running /\ ~stop_sim
  BY BeforeParts, UntouchedTyped DEF Typed
<1>1. p \in Procs /\ p # Nobody /\ FlowList(c) = procs[p].events /\ FlowList(c) \in Seq(FlowEvents(T))
  BY DEF InProc, FlowList
<1>2. /\ Balanced(cpus, procs) /\ FirstOnly(procs) /\ Queued(procs, pf_dispq, sleepqueue)
  BY DEF InPlace, Settings
<1>3. NoSwitch(FlowList(c)) /\ NoSwitch(l)
  BY <1>2, NoneInTail
<1>4. l \in Seq(FlowEvents(T)) /\ EndsIn(l, "SYNTHIO_EVENT")
  BY FlowTail
<1>5. Target(FlowList(c)) = Nobody /\ (FlowList(c) # <<>> => FlowList(c)[1].type # "CSWITCH_EVENT")
  BY <1>1, <1>3, NoSwitchFirst
<1>6. ~Leaving(procs, p)
  BY <1>1, <1>5 DEF Leaving
<1>7. procs[p].stat = "PROC_ONPROC"
  BY <1>0, <1>1, <1>2, <1>6, OnlySeat
<1> HIDE DEF l
<1>8. /\ P \in ProcTables(T)
      /\ \A o \in Procs : EndsIn(P[o].events, "SYNTHIO_EVENT")
      /\ \A o \in Procs : o = p => P[o].events = l
      /\ \A o \in Procs : o # p => P[o] = procs[o]
  <2>1. P = WithList(procs, cpus[c].procp, l)
    BY DEF l
  <2> QED BY <1>0, <1>4, <2>1, ListGoesOn
<1>9. n \in Procs \cup {Nobody}
  BY <1>0, NextProcFacts
<1> HIDE DEF n
<1>10. /\ S \in ProcTables(T)
       /\ S[p].events = <<CSwitch(n)>> \o P[p].events
       /\ \A o \in Procs : o # p => S[o].events = P[o].events
  <2>1. /\ 0 \in T /\ P \in ProcTables(T) /\ p \in Procs /\ n \in Procs \cup {Nobody}
        /\ \A o \in Procs : EndsIn(P[o].events, "SYNTHIO_EVENT")
    BY <1>0, <1>1, <1>8, <1>9
  <2>2. S \in ProcTables(T)
    BY <2>1, SleeperFacts
  <2>3. S[p].events = <<CSwitch(n)>> \o P[p].events
    BY <2>1, SleeperList
  <2>4. \A o \in Procs : o # p => S[o].events = P[o].events
    BY <2>1, SleeperStats
  <2> QED BY <2>2, <2>3, <2>4
<1>11. \A o \in Procs : /\ o = p => S[o].stat = "PROC_SLEEP"
                        /\ o # p => S[o] = P[o]
  <2>1. P \in ProcTables(T) /\ p \in Procs
    BY <1>1, <1>8
  <2> QED BY <2>1, SleeperStats
<1>12. Asleep(P, p, chan) = R
  BY DEF Asleep, Sleeper, n
<1> HIDE DEF S
<1> DEFINE z == <<p>> \o sleepqueue
<1>13. Queued(S, pf_dispq, z)
  <2>1. ~Among(p, sleepqueue) /\ ~Among(p, pf_dispq) /\ Once(sleepqueue) /\ Once(pf_dispq)
    BY <1>1, <1>2, <1>7 DEF Queued
  <2>2. Once(z) /\ \A o : Among(o, z) <=> (o = p \/ Among(o, sleepqueue))
    BY <1>0, <1>1, <2>1, AmongPut
  <2> HIDE DEF z
  <2>3. ASSUME NEW o \in Procs
        PROVE  /\ S[o].stat = "PROC_RUN" <=> Among(o, pf_dispq)
               /\ S[o].stat = "PROC_SLEEP" <=> Among(o, z)
    <3>1. CASE o = p
      BY <1>11, <2>1, <2>2, <3>1
    <3>2. CASE o # p
      BY <1>2, <1>8, <1>11, <2>2, <3>2 DEF Queued
    <3> QED BY <3>1, <3>2
  <2> QED BY <2>1, <2>2, <2>3 DEF Queued
<1> HIDE DEF z
<1>14. /\ Queued(R, Undispatched, z) /\ R \in ProcTables(T)
       /\ \A x \in Procs : R[x].events = S[x].events
       /\ \A x \in Procs : x = n => S[x].stat = "PROC_RUN"
       /\ \A x \in Procs : Owed(R, x) = Owed(S, x) + Bit(n = x)
  BY <1>0, <1>10, <1>13, DispatchFacts DEF n
<1> HIDE DEF R
<1> DEFINE e == CSwitch(n)
<1>15. e.type = "CSWITCH_EVENT" /\ e.time = 0 /\ e.arg = n
  BY DEF CSwitch, Event
<1> HIDE DEF e
<1>16. /\ R[p].events = <<e>> \o l
       /\ \A o \in Procs : o # p => R[o].events = procs[o].events
  BY <1>1, <1>8, <1>10, <1>14 DEF e
<1> DEFINE u == <<e>> \o l
<1>17. /\ u # <<>> /\ u[1] = e
       /\ \A i \in DOMAIN u : i = 1 \/ (i - 1 \in DOMAIN l /\ u[i] = l[i - 1])
  BY <1>4
<1> HIDE DEF u
<1>18. R[p].events = u
  BY <1>16 DEF u
<1>19. FirstOnly(R)
  <2> SUFFICES ASSUME NEW o \in Procs, NEW i \in DOMAIN R[o].events, R[o].events[i].type = "CSWITCH_EVENT"
               PROVE  i = 1 /\ R[o].events[i].time = 0
    BY DEF FirstOnly
  <2>1. CASE o = p
    <3>1. i \in DOMAIN u /\ u[i].type = "CSWITCH_EVENT" /\ R[o].events = u
      BY <1>18, <2>1
    <3>2. i = 1
      BY <1>3, <1>17, <3>1 DEF NoSwitch
    <3> QED BY <1>15, <1>17, <3>1, <3>2
  <2>2. CASE o # p
    BY <1>2, <1>16, <2>2 DEF FirstOnly
  <2> QED BY <2>1, <2>2
<1>20. /\ \A o \in Procs : o # p => Target(R[o].events) = Target(procs[o].events)
       /\ \A o \in Procs : o # p => (Leaving(R, o) <=> Leaving(procs, o))
  BY <1>16 DEF Leaving
<1>21. ASSUME NEW x \in Procs PROVE AtList(R, p, x) + Owed(procs, x) = AtList(procs, p, x) + Owed(R, x)
  <2>1. x # Nobody
    BY ProcsAreNumbers DEF Nobody
  <2>2. AtList(procs, p, x) = 0
    BY <1>1, <1>5, <2>1 DEF AtList, Bit
  <2>3. AtList(R, p, x) = Bit(n = x)
    BY <1>15, <1>17, <1>18 DEF AtList, Target
  <2>4. Owed(S, x) = Owed(procs, x)
    <3>1. CASE x = p
      <4>1. S[p].events = u
        BY <1>1, <1>14, <1>18
      <4>2. Leaving(S, p)
        BY <1>15, <1>17, <4>1 DEF Leaving
      <4>3. S[p].stat = "PROC_SLEEP"
        BY <1>1, <1>11
      <4> QED BY <1>6, <1>7, <3>1, <4>2, <4>3 DEF Owed, Bit
    <3>2. CASE x # p
      <4>1. S[x] = procs[x]
        BY <1>8, <1>11, <3>2
      <4> QED BY <4>1 DEF Owed, Leaving
    <3> QED BY <3>1, <3>2
  <2> DEFINE v == Owed(procs, x)
             y == Bit(n = x)
  <2>5. v \in Nat /\ y \in Nat /\ Owed(R, x) = v + y
    BY <1>14, <2>4 DEF Owed, Bit
  <2> HIDE DEF v, y
  <2>6. AtList(R, p, x) = y /\ Owed(procs, x) = v
    BY <2>3 DEF v, y
  <2>7. y + v = 0 + (v + y)
    BY <2>5
  <2> QED BY <2>2, <2>5, <2>6, <2>7
<1> QED BY <1>12, <1>14, <1>19, <1>20, <1>21 DEF z, SleeperPlaced

\* The processors stay, and one list of a process changes.
LEMMA BalanceKeptList ==
  ASSUME NEW T, Typed(T), Balanced(cpus, procs), NEW c \in Cpus, NEW P, NEW p \in Procs,
         \A o \in Procs : o # p => Target(P[o].events) = Target(procs[o].events),
         \A x \in Procs : AtList(P, p, x) + Owed(procs, x) = AtList(procs, p, x) + Owed(P, x)
  PROVE  Balanced(CpuChanged(c, cpus[c]), P)
<1> DEFINE a == CpuChanged(c, cpus[c])
<1>1. config \in Configs /\ cpus \in [Cpus -> CpuRecords]
  BY DEF Typed
<1>2. \A d \in Cpus : a[d] = cpus[d]
  BY <1>1 DEF CpuChanged
<1> HIDE DEF a
<1>3. ASSUME NEW x \in Procs
      PROVE  AtCpu(a, c, x) + AtList(P, p, x) + Owed(procs, x) = AtCpu(cpus, c, x) + AtList(procs, p, x) + Owed(P, x)
  <2> DEFINE m == AtCpu(cpus, c, x)
             l == AtList(P, p, x)
             l0 == AtList(procs, p, x)
             w == Owed(P, x)
             w0 == Owed(procs, x)
  <2>1. AtCpu(a, c, x) = m
    BY <1>2 DEF AtCpu
  <2>2. m \in Nat /\ l \in Nat /\ l0 \in Nat /\ w \in Nat /\ w0 \in Nat
    BY DEF AtCpu, AtList, Owed, Bit
  <2>3. l + w0 = l0 + w
    OBVIOUS
  <2> HIDE DEF m, l, l0, w, w0
  <2>4. m + l + w0 = m + l0 + w
    BY <2>2, <2>3
  <2> QED BY <2>1, <2>4 DEF m, l, l0, w, w0
<1>4. \A d \in Cpus : d # c => /\ a[d].procp = cpus[d].procp
                               /\ Target(a[d].idleevents) = Target(cpus[d].idleevents)
  BY <1>2
<1>5. Balanced(a, P)
  BY <1>1, <1>3, <1>4, BalanceKept
<1> QED BY <1>5 DEF a

\* pf_handle_sleep_event
LEMMA SleepInPlace ==
  ASSUME NEW T, NEW c, NEW q, Before(T, c, q), InPlace, OrderedRest(c, q),
         Handled(c, q, "SLEEP_EVENT", HandleSleep)
  PROVE  InPlaceNext
<1>o. OthersOrdered(c, q)
  BY DEF OrderedRest
<1> DEFINE k == cpus[c]
           chain == Chain(k, procs)
           P == WithList(procs, k.procp, Tail(FlowList(c)))
           ev == Head(chain)
           p == k.procp
<1>0. /\ Typed(T) /\ Running /\ ~stop_sim /\ c \in Cpus /\ q \in Agendas(QueueEvents) /\ OthersGood(c, q)
      /\ config \in Configs
  BY BeforeParts DEF Typed
<1>1. /\ chain # <<>> /\ Head(chain).type = "SLEEP_EVENT"
      /\ HandleSleep(c, WithChain(c, cpus, Tail(chain)), ProcWithChain(c, cpus, procs, Tail(chain)), q, ev)
  BY DEF Handled
<1>2. /\ InProc(c, T) /\ chain = FlowList(c) /\ ev.arg \in Int /\ k.intrs = <<>> /\ p \in Procs /\ p # Nobody
      /\ Head(FlowList(c)).type # "SYNTHIO_EVENT" /\ Head(FlowList(c)).type # "CSWITCH_EVENT"
  BY <1>1, FlowOnly
<1>3. /\ WithChain(c, cpus, Tail(chain)) = CpuChanged(c, k) /\ ProcWithChain(c, cpus, procs, Tail(chain)) = P
      /\ k \in CpuRecords /\ Resumable(c, k)
  BY <1>2, FlowTaken
<1>4. HandleSleep(c, CpuChanged(c, k), P, q, ev) /\ CpuChanged(c, k)[c] = k
  BY <1>0, <1>1, <1>3, CpuChangedFacts
<1>5. Tail(FlowList(c)) \in Seq(FlowEvents(T)) /\ NoSwitch(FlowList(c)) /\ NoSwitch(Tail(FlowList(c)))
  <2>1. Tail(FlowList(c)) \in Seq(FlowEvents(T))
    BY <1>2, FlowTail
  <2>2. FirstOnly(procs)
    BY DEF InPlace, Settings
  <2> QED BY <1>2, <2>1, <2>2, NoneInTail
<1>6. CASE ~\E x \in pendiolist : x.opid = ev.arg
  <2>1. /\ Continue(c, CpuChanged(c, k), P, q, FALSE, FALSE)
        /\ sleepqueue' = sleepqueue /\ pf_dispq' = pf_dispq
    BY <1>4, <1>6 DEF HandleSleep
  <2> QED BY <1>0, <1>2, <1>5, <2>1, FlowGoesOn
<1>7. CASE \E x \in pendiolist : x.opid = ev.arg
  <2> DEFINE R == Asleep(P, p, ev.arg)
  <2>1. /\ sleepqueue' = <<p>> \o sleepqueue /\ pf_dispq' = Undispatched
        /\ Continue(c, CpuChanged(c, k), R, q, FALSE, FALSE)
    BY <1>4, <1>7 DEF HandleSleep, PutOnSleepQueue
  <2>2. SleeperPlaced(T, p, R)
    BY <1>2, AsleepInPlace
  <2> HIDE DEF R, chain, ev, P
  <2>3. /\ R \in ProcTables(T) /\ FirstOnly(R) /\ Queued(R, pf_dispq', sleepqueue')
        /\ \A o \in Procs : o # p => Target(R[o].events) = Target(procs[o].events)
        /\ \A o \in Procs : o # p => (Leaving(R, o) <=> Leaving(procs, o))
        /\ \A x \in Procs : AtList(R, p, x) + Owed(procs, x) = AtList(procs, p, x) + Owed(R, x)
    BY <2>1, <2>2 DEF SleeperPlaced
  <2>4. Balanced(cpus, procs) /\ IdleOne(cpus)
    BY DEF InPlace, Settings
  <2>5. Balanced(CpuChanged(c, k), R)
    BY <1>0, <1>2, <2>3, <2>4, BalanceKeptList
  <2>6. k.idleevents = <<>> /\ IdleLoop(k)
    <3>1. k.idleevents = <<>>
      BY <1>0, <1>2, <2>4 DEF IdleOne
    <3> QED BY <3>1 DEF IdleLoop
  <2>7. \A d \in Cpus : cpus[d].procp = p => d = c
    <3>1. ~Leaving(procs, p)
      <4>1. FlowList(c) \in Seq(FlowEvents(T)) /\ FlowList(c) = procs[p].events
        BY <1>2 DEF InProc, FlowList
      <4> QED BY <1>5, <4>1, NoSwitchFirst DEF Leaving
    <3> QED BY <1>0, <1>2, <2>4, <3>1, OnlySeat
  <2>8. \A d \in Cpus : cpus[d].procp \in Procs \cup {Nobody}
    BY <1>0 DEF Typed, CpuRecords
  <2>9. Undisturbed(c, k, R, q, q)
    <3>1. \A d \in Cpus : d # c /\ SwitchDue(cpus[d], R) => SwitchDue(cpus[d], procs)
      BY <2>3, <2>7, <2>8 DEF SwitchDue
    <3> QED BY <2>6, <3>1 DEF Undisturbed
  <2> HIDE DEF k
  <2> QED BY <1>o, <1>0, <1>3, <2>1, <2>3, <2>5, <2>6, <2>9, InPlaceKept
<1> QED BY <1>6, <1>7

\* A context switch is taken off its list, r, and the processor is to go to
\* process a.
InHand(c, P, r, a) ==
    /\ \A o \in Procs : o # r => Target(P[o].events) = Target(procs[o].events)
    /\ r \notin Procs => P = procs
    /\ \A x \in Procs : Bit(a = x) + AtList(P, r, x) + Owed(procs, x)
                           = AtCpu(cpus, c, x) + AtList(procs, r, x) + Owed(P, x)

\* Process n is dispatched, and processor w is to run a and n.
Dispatches(P, R, n) == \A x \in Procs : Owed(R, x) = Owed(P, x) + Bit(n = x)
Seats(w, a, n) ==
    \A x \in Procs : Bit(w.procp = x) + Bit(Target(w.idleevents) = x) = Bit(a = x) + Bit(n = x)

\* Processor c gets record w, and the processes become R.
LEMMA HandBalanced ==
  ASSUME NEW T, Typed(T), Balanced(cpus, procs), NEW c \in Cpus, NEW w \in CpuRecords, NEW P, NEW r, NEW a,
         InHand(c, P, r, a), NEW R, \A o \in Procs : R[o].events = P[o].events,
         NEW n, Dispatches(P, R, n), Seats(w, a, n)
  PROVE  Balanced(CpuChanged(c, w), R)
<1> DEFINE C == CpuChanged(c, w)
<1>1. config \in Configs /\ C[c] = w /\ \A d \in Cpus : d # c => C[d] = cpus[d]
  BY CpuChangedFacts DEF Typed
<1> HIDE DEF C
<1>2. \A d \in Cpus : d # c => /\ C[d].procp = cpus[d].procp
                               /\ Target(C[d].idleevents) = Target(cpus[d].idleevents)
  BY <1>1
<1>3. ASSUME NEW x \in Procs
      PROVE  /\ AtCpu(C, c, x) + AtList(P, r, x) + Owed(procs, x)
                   = AtCpu(cpus, c, x) + AtList(procs, r, x) + Owed(R, x)
             /\ r \notin Procs => AtCpu(C, c, x) + Owed(procs, x) = AtCpu(cpus, c, x) + Owed(R, x)
  <2> DEFINE m == AtCpu(C, c, x)
             m0 == AtCpu(cpus, c, x)
             l == AtList(P, r, x)
             l0 == AtList(procs, r, x)
             w1 == Owed(R, x)
             w0 == Owed(procs, x)
             w2 == Owed(P, x)
             h == Bit(a = x)
             b == Bit(n = x)
  <2>1. m \in Nat /\ m0 \in Nat /\ l \in Nat /\ l0 \in Nat /\ w0 \in Nat /\ w2 \in Nat /\ h \in Nat /\ b \in Nat
    BY DEF AtCpu, AtList, Owed, Bit
  <2>2. h + l + w0 = m0 + l0 + w2
    BY DEF InHand
  <2>3. w1 = w2 + b
    BY DEF Dispatches
  <2>4. m = h + b
    BY <1>1 DEF AtCpu, Seats
  <2>5. r \notin Procs => l = l0
    BY DEF InHand
  <2> HIDE DEF m, m0, l, l0, w1, w0, w2, h, b
  <2>6. m + l + w0 = m0 + l0 + w1 /\ (r \notin Procs => m + w0 = m0 + w1)
    BY <2>1, <2>2, <2>3, <2>4, <2>5
  <2> QED BY <2>6 DEF m, m0, l, l0, w1, w0
<1>4. \A x \in Procs : r \in Procs => AtList(R, r, x) = AtList(P, r, x)
  BY DEF AtList
<1>5. \A o \in Procs : o # r => Target(R[o].events) = Target(procs[o].events)
  BY DEF InHand
<1>6. CASE r \in Procs
  <2>1. \A x \in Procs : AtCpu(C, c, x) + AtList(R, r, x) + Owed(procs, x)
                            = AtCpu(cpus, c, x) + AtList(procs, r, x) + Owed(R, x)
    BY <1>3, <1>4, <1>6
  <2>2. Balanced(C, R)
    BY <1>1, <1>2, <1>5, <1>6, <2>1, BalanceKept
  <2> QED BY <2>2 DEF C
<1>7. CASE r \notin Procs
  <2>1. \A x \in Procs : AtCpu(C, c, x) + Owed(procs, x) = AtCpu(cpus, c, x) + Owed(R, x)
    BY <1>3, <1>7
  <2>2. \A o \in Procs : Target(R[o].events) = Target(procs[o].events)
    BY <1>5, <1>7
  <2>3. Balanced(C, R)
    BY <1>1, <1>2, <2>1, <2>2, BalanceKeptCpu
  <2> QED BY <2>3 DEF C
<1> QED BY <1>6, <1>7

\* What taking the context switch off its list leaves
SwitchOff(T, c, k, P) ==
    /\ k \in CpuRecords /\ k.intrs = <<>> /\ cpus[c].intrs = <<>> /\ k.idleevents = <<>>
    /\ P \in ProcTables(T) /\ FirstOnly(P) /\ \A o \in Procs : P[o].stat = procs[o].stat
    /\ \A o \in Procs : Leaving(P, o) => Leaving(procs, o)

\* The part of pf_handle_cswitch_event that the list makes no difference to
LEMMA SwitchInPlace ==
  ASSUME NEW T, NEW c, NEW q, Before(T, c, q), InPlace, OrderedRest(c, q), c = 1 => AllCpu(q), config' = config,
         NEW k, NEW P, SwitchOff(T, c, k, P), NEW ev, ev.arg \in Procs \cup {Nobody},
         NEW r, InHand(c, P, r, ev.arg), SwitchGoesOn(T, c, q, k, P, ev), sleepqueue' = sleepqueue
  PROVE  InPlaceNext
<1>o. OthersOrdered(c, q)
  BY DEF OrderedRest
<1> DEFINE a == ev.arg
<1>0. /\ Typed(T) /\ Running /\ c \in Cpus /\ q \in Agendas(QueueEvents) /\ OthersGood(c, q)
      /\ Balanced(cpus, procs) /\ Queued(procs, pf_dispq, sleepqueue)
  BY BeforeParts DEF InPlace, Settings
<1>1. PICK i \in Seq(IdleEvents), R \in ProcTables(T) :
         /\ Continue(c, CpuChanged(c, Switched(k, a, i)), R, q, FALSE, FALSE)
         /\ \A p \in Procs : R[p].events = P[p].events
         /\ SwitchTaken(k, P, a, i, R)
  BY DEF SwitchGoesOn
<1> DEFINE w == Switched(k, a, i)
<1>2. w \in CpuRecords /\ Resumable(c, w) /\ w.procp = a /\ w.idleevents = i /\ w.intrs = <<>>
  <2>1. a \in Procs \cup {Nobody} /\ k \in CpuRecords /\ k.intrs = <<>>
    BY DEF SwitchOff
  <2> HIDE DEF a
  <2> HIDE DEF w
  <2>3. Switched(k, a, i) \in CpuRecords
    BY <2>1, SwitchedFacts
  <2>4. Resumable(c, Switched(k, a, i))
    BY <2>1, SwitchedFacts
  <2>5. Switched(k, a, i).procp = a
    BY <2>1, SwitchedFacts
  <2>6. Switched(k, a, i).idleevents = i
    BY <2>1, SwitchedFacts
  <2>7. Switched(k, a, i).intrs = k.intrs
    BY <2>1, SwitchedFacts, ZenonT(60)
  <2> QED BY <2>1, <2>3, <2>4, <2>5, <2>6, <2>7 DEF w
<1>3. /\ P \in ProcTables(T) /\ FirstOnly(P) /\ \A o \in Procs : P[o].stat = procs[o].stat
      /\ \A o \in Procs : Leaving(P, o) => Leaving(procs, o)
      /\ k.idleevents = <<>> /\ a \in Procs \cup {Nobody}
  BY DEF SwitchOff
<1>4. InHand(c, P, r, a)
  OBVIOUS
<1>5. Continue(c, CpuChanged(c, w), R, q, FALSE, FALSE)
  BY <1>1
<1> HIDE DEF w, a
<1>6. Queued(P, pf_dispq, sleepqueue)
  BY <1>0, <1>3 DEF Queued
<1>7. FirstOnly(R)
  BY <1>1, <1>3 DEF FirstOnly
<1>8. \A d \in Cpus : SwitchDue(cpus[d], R) => SwitchDue(cpus[d], procs)
  <2>1. \A d \in Cpus : cpus[d].procp \in Procs \cup {Nobody}
    BY <1>0 DEF Typed, CpuRecords
  <2>2. \A o \in Procs : Leaving(R, o) => Leaving(procs, o)
    BY <1>1, <1>3 DEF Leaving
  <2> QED BY <2>1, <2>2 DEF SwitchDue
<1>9. Undisturbed(c, w, R, q, q)
  BY <1>2, <1>8 DEF Undisturbed
<1>10. \A x \in Procs : x # Nobody
  BY ProcsAreNumbers DEF Nobody
<1>11. CASE a = Nobody /\ Dispatching(k.idleevents, P, i, R)
  <2> DEFINE n == NextProc
             e == CSwitch(n)
  <2>1. i = <<e>> \o k.idleevents /\ R = OnProc(P, NextProc) /\ pf_dispq' = Undispatched
    BY <1>11 DEF Dispatching
  <2>2. e.type = "CSWITCH_EVENT" /\ e.time = 0 /\ e.arg = n
    BY DEF CSwitch, Event
  <2>3. /\ Queued(R, Undispatched, sleepqueue)
        /\ \A x \in Procs : Owed(R, x) = Owed(P, x) + Bit(n = x)
    BY <1>0, <1>3, <1>6, <2>1, DispatchFacts
  <2> HIDE DEF e, n
  <2>4. i = <<e>>
    BY <1>3, <2>1
  <2>5. IdleLoop(w)
    BY <1>2, <1>11, <2>2, <2>4 DEF IdleLoop
  <2>6. Target(w.idleevents) = n
    BY <1>2, <2>2, <2>4 DEF Target
  <2>7. Seats(w, a, n) /\ Dispatches(P, R, n)
    BY <1>2, <2>3, <2>6 DEF Seats, Dispatches
  <2>8. Balanced(CpuChanged(c, w), R)
    BY <1>0, <1>1, <1>2, <1>4, <2>7, HandBalanced
  <2>9. Queued(R, pf_dispq', sleepqueue')
    BY <2>1, <2>3
  <2> QED BY <1>o, <1>0, <1>1, <1>2, <1>5, <1>7, <1>9, <2>5, <2>8, <2>9, InPlaceKept
<1>12. CASE i = <<>> /\ R = P /\ pf_dispq' = pf_dispq
  <2>1. IdleLoop(w)
    BY <1>2, <1>12 DEF IdleLoop
  <2>2. Target(w.idleevents) = Nobody
    BY <1>2, <1>12 DEF Target
  <2>3. Seats(w, a, Nobody)
    BY <1>2, <2>2 DEF Seats
  <2>4. Dispatches(P, R, Nobody)
    <3> SUFFICES ASSUME NEW x \in Procs PROVE Owed(R, x) = Owed(P, x) + Bit(Nobody = x)
      BY DEF Dispatches
    <3>1. Bit(Nobody = x) = 0
      BY <1>10 DEF Bit
    <3>2. Owed(P, x) \in Nat
      BY DEF Owed, Bit
    <3> QED BY <1>12, <3>1, <3>2
  <2>5. Balanced(CpuChanged(c, w), R)
    BY <1>0, <1>1, <1>2, <1>4, <2>3, <2>4, HandBalanced
  <2>6. Queued(R, pf_dispq', sleepqueue')
    BY <1>6, <1>12
  <2> QED BY <1>o, <1>0, <1>1, <1>2, <1>5, <1>7, <1>9, <2>1, <2>5, <2>6, InPlaceKept
<1> QED BY <1>1, <1>11, <1>12 DEF SwitchTaken, a

\* The switch of a process that leaves its processor
LEMMA LeaverInHand ==
  ASSUME NEW T, NEW c, NEW q, Before(T, c, q), InPlace, InProc(c, T),
         Head(FlowList(c)).type = "CSWITCH_EVENT", NEW p, p = cpus[c].procp,
         NEW P, P = WithList(procs, p, Tail(FlowList(c)))
  PROVE  /\ SwitchOff(T, c, cpus[c], P) /\ InHand(c, P, p, Head(FlowList(c)).arg)
         /\ SwitchDue(cpus[c], procs)
<1> DEFINE k == cpus[c]
           s == FlowList(c)
           l == Tail(s)
           a == Head(s).arg
<1>0. /\ Typed(T) /\ c \in Cpus /\ k \in CpuRecords /\ procs \in ProcTables(T)
      /\ FirstOnly(procs) /\ IdleOne(cpus)
  BY BeforeParts DEF Typed, InPlace, Settings
<1>1. /\ p \in Procs /\ p # Nobody /\ s = procs[p].events /\ s \in Seq(FlowEvents(T)) /\ s # <<>>
      /\ k.intrs = <<>>
  BY DEF InProc, FlowList, EndsIn
<1>2. l \in Seq(FlowEvents(T)) /\ NoSwitch(l)
  BY <1>0, FlowTail, NoneBehindFirst
<1>3. Target(l) = Nobody /\ (l # <<>> => l[1].type # "CSWITCH_EVENT")
  BY <1>2, NoSwitchFirst
<1>4. s[1].type = "CSWITCH_EVENT" /\ Target(s) = a
  BY <1>1 DEF Target
<1> HIDE DEF l
<1>5. /\ P \in ProcTables(T)
      /\ \A o \in Procs : o = p => P[o].events = l
      /\ \A o \in Procs : P[o].stat = procs[o].stat
      /\ \A o \in Procs : o # p => P[o] = procs[o]
  <2>1. P = WithList(procs, p, l)
    BY DEF l
  <2> QED BY <1>0, <1>1, <1>2, <2>1, ListChanged
<1>6. k.idleevents = <<>>
  BY <1>0, <1>1 DEF IdleOne
<1>7. Leaving(procs, p)
  BY <1>1, <1>4 DEF Leaving
<1> HIDE DEF s, a
<1>8. FirstOnly(P)
  <2> SUFFICES ASSUME NEW o \in Procs, NEW i \in DOMAIN P[o].events, P[o].events[i].type = "CSWITCH_EVENT"
               PROVE  i = 1 /\ P[o].events[i].time = 0
    BY DEF FirstOnly
  <2>1. CASE o = p
    BY <1>2, <1>5, <2>1 DEF NoSwitch
  <2>2. CASE o # p
    BY <1>0, <1>5, <2>2 DEF FirstOnly
  <2> QED BY <2>1, <2>2
<1>9. ~Leaving(P, p) /\ \A o \in Procs : o # p => (Leaving(P, o) <=> Leaving(procs, o))
  BY <1>1, <1>3, <1>5 DEF Leaving
<1>10. SwitchOff(T, c, k, P)
  BY <1>0, <1>1, <1>5, <1>6, <1>7, <1>8, <1>9 DEF SwitchOff
<1>11. ASSUME NEW x \in Procs
       PROVE  Bit(a = x) + AtList(P, p, x) + Owed(procs, x) = AtCpu(cpus, c, x) + AtList(procs, p, x) + Owed(P, x)
  <2>1. x # Nobody
    BY ProcsAreNumbers DEF Nobody
  <2>2. AtList(P, p, x) = 0
    BY <1>1, <1>3, <1>5, <2>1 DEF AtList, Bit
  <2>3. AtList(procs, p, x) = Bit(a = x)
    BY <1>1, <1>4 DEF AtList
  <2>4. Target(k.idleevents) = Nobody
    BY <1>6 DEF Target
  <2>5. CASE x = p
    <3>1. AtCpu(cpus, c, x) = 1
      BY <2>1, <2>4, <2>5 DEF AtCpu, Bit
    <3>2. Owed(procs, x) = Owed(P, x) + 1
      <4>1. P[x].stat = procs[x].stat
        BY <1>5
      <4>2. Leaving(procs, x) /\ ~Leaving(P, x)
        BY <1>7, <1>9, <2>5
      <4> QED BY <4>1, <4>2 DEF Owed, Bit
    <3> DEFINE h == Bit(a = x)
               v == Owed(P, x)
    <3>3. h \in Nat /\ v \in Nat
      BY DEF Owed, Bit
    <3>4. Owed(procs, x) = v + 1 /\ AtList(procs, p, x) = h
      BY <2>3, <3>2
    <3> HIDE DEF h, v
    <3>5. h + 0 + (v + 1) = 1 + h + v
      BY <3>3
    <3> QED BY <2>2, <3>1, <3>4, <3>5 DEF h, v
  <2>6. CASE x # p
    <3>1. AtCpu(cpus, c, x) = 0
      BY <2>1, <2>4, <2>6 DEF AtCpu, Bit
    <3>2. Owed(procs, x) = Owed(P, x)
      <4>1. P[x].stat = procs[x].stat
        BY <1>5
      <4>2. Leaving(procs, x) <=> Leaving(P, x)
        BY <1>9, <2>6
      <4> QED BY <4>1, <4>2 DEF Owed, Bit
    <3> DEFINE h == Bit(a = x)
               v == Owed(P, x)
    <3>3. h \in Nat /\ v \in Nat
      BY DEF Owed, Bit
    <3>4. Owed(procs, x) = v /\ AtList(procs, p, x) = h
      BY <2>3, <3>2
    <3> HIDE DEF h, v
    <3>5. h + 0 + v = 0 + h + v
      BY <3>3
    <3> QED BY <2>2, <3>1, <3>4, <3>5 DEF h, v
  <2> QED BY <2>5, <2>6
<1>12. \A o \in Procs : o # p => Target(P[o].events) = Target(procs[o].events)
  BY <1>5
<1>13. InHand(c, P, p, a)
  BY <1>1, <1>11, <1>12 DEF InHand
<1>14. SwitchDue(k, procs)
  BY <1>1, <1>7 DEF SwitchDue
<1> QED BY <1>10, <1>13, <1>14 DEF a, s

\* The switch of an idle loop
LEMMA IdlerInHand ==
  ASSUME NEW T, NEW c, NEW q, Before(T, c, q), InPlace, InIdle(c),
         NEW k, k = [cpus[c] EXCEPT !.idleevents = Tail(cpus[c].idleevents)]
  PROVE  /\ SwitchOff(T, c, k, procs) /\ InHand(c, procs, Nobody, Head(cpus[c].idleevents).arg)
         /\ SwitchDue(cpus[c], procs)
<1> DEFINE s == cpus[c].idleevents
           a == Head(s).arg
<1>0. /\ Typed(T) /\ c \in Cpus /\ cpus[c] \in CpuRecords /\ procs \in ProcTables(T)
      /\ FirstOnly(procs) /\ IdleOne(cpus)
  BY BeforeParts DEF Typed, InPlace, Settings
<1>1. s \in Seq(IdleEvents) /\ s # <<>> /\ cpus[c].intrs = <<>> /\ cpus[c].procp = Nobody
  BY DEF InIdle
<1>2. Len(s) <= 1
  BY <1>0 DEF IdleOne
<1>3. Head(s) = s[1] /\ s[1] \in IdleEvents /\ Tail(s) = <<>>
  BY <1>1, <1>2
<1>4. Target(s) = a
  BY <1>1, <1>3 DEF Target, IdleEvents
<1>5. k \in CpuRecords /\ k.intrs = <<>> /\ k.idleevents = <<>>
  <2> DEFINE l == Tail(s)
  <2>1. k = [cpus[c] EXCEPT !.idleevents = l]
    OBVIOUS
  <2>2. l = <<>> /\ l \in Seq(IdleEvents)
    BY <1>1, <1>3
  <2> HIDE DEF l
  <2>3. k \in CpuRecords /\ k.intrs = cpus[c].intrs /\ k.idleevents = l
    BY <1>0, <2>1, <2>2 DEF CpuRecords
  <2> QED BY <1>1, <2>2, <2>3
<1>6. SwitchOff(T, c, k, procs)
  BY <1>0, <1>1, <1>5 DEF SwitchOff
<1> HIDE DEF a
<1>7. ASSUME NEW x \in Procs
      PROVE  Bit(a = x) + AtList(procs, Nobody, x) + Owed(procs, x)
                = AtCpu(cpus, c, x) + AtList(procs, Nobody, x) + Owed(procs, x)
  <2>1. x # Nobody
    BY ProcsAreNumbers DEF Nobody
  <2>2. AtCpu(cpus, c, x) = Bit(a = x)
    BY <1>1, <1>4, <2>1 DEF AtCpu, Bit
  <2> QED BY <2>2
<1>8. InHand(c, procs, Nobody, a)
  BY <1>7 DEF InHand
<1>9. SwitchDue(cpus[c], procs)
  BY <1>1 DEF SwitchDue
<1> QED BY <1>6, <1>8, <1>9 DEF a

\* pf_handle_cswitch_event
LEMMA CSwitchInPlace ==
  ASSUME NEW T, NEW c, NEW q, Before(T, c, q), InPlace, OrderedRest(c, q),
         Handled(c, q, "CSWITCH_EVENT", HandleCSwitch)
  PROVE  InPlaceNext
<1> DEFINE k == cpus[c]
           chain == Chain(k, procs)
<1>0. /\ Typed(T) /\ Running /\ ~stop_sim /\ c \in Cpus
      /\ \A p \in Procs : EndsIn(procs[p].events, "SYNTHIO_EVENT")
      /\ k \in CpuRecords /\ procs \in ProcTables(T)
  BY BeforeParts DEF Typed
<1>1. /\ chain # <<>> /\ Head(chain).type = "CSWITCH_EVENT" /\ config' = config
      /\ HandleCSwitch(c, WithChain(c, cpus, Tail(chain)), ProcWithChain(c, cpus, procs, Tail(chain)),
                       q, Head(chain))
  BY DEF Handled
<1>2. InIntr(c) \/ InProc(c, T) \/ InIdle(c)
  BY <1>0, <1>1, Modes
<1>3. CASE InIntr(c)
  BY <1>1, <1>3 DEF InIntr, IntrEvents, IntrTypes
<1>4. sleepqueue' = sleepqueue
  BY <1>1 DEF HandleCSwitch
<1>5. SwitchDue(k, procs) => (c = 1 => AllCpu(q))
  BY DEF OrderedRest
<1>6. CASE InProc(c, T)
  <2> DEFINE p == k.procp
             P == WithList(procs, p, Tail(FlowList(c)))
             ev == Head(FlowList(c))
  <2>1. chain = FlowList(c) /\ k.intrs = <<>> /\ ev \in FlowEvents(T)
    BY <1>6 DEF InProc
  <2>2. ev.arg \in Procs \cup {Nobody}
    BY <1>1, <2>1 DEF FlowEvents
  <2>3. /\ WithChain(c, cpus, Tail(chain)) = CpuChanged(c, k) /\ ProcWithChain(c, cpus, procs, Tail(chain)) = P
        /\ P \in ProcTables(T)
        /\ \A o \in Procs : EndsIn(P[o].events, "SYNTHIO_EVENT")
        /\ \A o \in Procs : P[o].chan = procs[o].chan
    BY <1>1, <1>6, <2>1, FlowTaken
  <2>4. HandleCSwitch(c, CpuChanged(c, k), P, q, ev)
    BY <1>1, <2>1, <2>3
  <2>5. SwitchOff(T, c, k, P) /\ InHand(c, P, p, ev.arg) /\ SwitchDue(k, procs)
    BY <1>1, <1>6, <2>1, LeaverInHand
  <2> HIDE DEF P, chain, ev
  <2>6. SwitchGoesOn(T, c, q, k, P, ev)
    BY <1>0, <1>1, <2>1, <2>2, <2>3, <2>4, CSwitchGoesOn
  <2> QED BY <1>1, <1>4, <1>5, <2>2, <2>5, <2>6, SwitchInPlace
<1>7. CASE InIdle(c)
  <2> DEFINE n == [k EXCEPT !.idleevents = Tail(k.idleevents)]
             ev == Head(k.idleevents)
  <2>1. /\ chain = k.idleevents /\ k.intrs = <<>> /\ ev \in IdleEvents
        /\ WithChain(c, cpus, Tail(chain)) = CpuChanged(c, n) /\ ProcWithChain(c, cpus, procs, Tail(chain)) = procs
    BY <1>7 DEF InIdle
  <2>2. ev.arg \in Procs \cup {Nobody}
    BY <2>1 DEF IdleEvents
  <2>3. SwitchOff(T, c, n, procs) /\ InHand(c, procs, Nobody, ev.arg) /\ SwitchDue(k, procs)
    BY <1>7, IdlerInHand
  <2>4. HandleCSwitch(c, CpuChanged(c, n), procs, q, ev)
    BY <1>1, <2>1
  <2>5. n \in CpuRecords /\ n.intrs = <<>>
    BY <2>3 DEF SwitchOff
  <2> HIDE DEF n, chain, ev
  <2>6. SwitchGoesOn(T, c, q, n, procs, ev)
    BY <1>0, <1>1, <2>1, <2>2, <2>4, <2>5, CSwitchGoesOn
  <2> QED BY <1>1, <1>4, <1>5, <2>2, <2>3, <2>6, SwitchInPlace
<1> QED BY <1>2, <1>3, <1>6, <1>7

\* pf_handle_intend_event
LEMMA IntendInPlace ==
  ASSUME NEW T, NEW c, NEW q, Before(T, c, q), InPlace, OrderedRest(c, q),
         Handled(c, q, "INTEND_EVENT", HandleIntend)
  PROVE  InPlaceNext
<1>o. OthersOrdered(c, q)
  BY DEF OrderedRest
<1> DEFINE k == cpus[c]
           chain == Chain(k, procs)
<1>0. /\ Typed(T) /\ Running /\ c \in Cpus /\ q \in Agendas(QueueEvents) /\ OthersGood(c, q)
      /\ k \in CpuRecords /\ procs \in ProcTables(T) /\ k.procp \in Procs \cup {Nobody}
      /\ Balanced(cpus, procs) /\ FirstOnly(procs) /\ Queued(procs, pf_dispq, sleepqueue)
  BY BeforeParts, CpuRecordParts DEF Typed, InPlace, Settings
<1>1. chain # <<>> /\ Head(chain).type = "INTEND_EVENT" /\ sleepqueue' = sleepqueue
  BY DEF Handled, HandleIntend
<1>2. InIntr(c) /\ c = 1 /\ Head(TopList(c)).type = "INTEND_EVENT"
  BY <1>1, IntrOnly
<1>3. k.intrs # <<>> /\ k.idleevents = <<>> /\ AllCpu(q)
  <2>1. k.intrs # <<>>
    BY <1>2 DEF InIntr
  <2> QED BY <1>2, <2>1 DEF OrderedRest
<1>4. IntendsOn(T, c, q)
  BY IntendGoesOn
<1>5. PICK i \in Seq(IdleEvents), R \in ProcTables(T), stops \in BOOLEAN :
          /\ Continue(c, CpuChanged(c, Returned(k, i)), R, q, stops, FALSE)
          /\ i = k.idleevents \/ (Tail(k.intrs) = <<>> /\ k.procp = Nobody)
          /\ IntendTaken(k, i, R)
  BY <1>4 DEF IntendsOn
<1> DEFINE w == Returned(k, i)
<1>6. /\ w \in CpuRecords /\ Resumable(c, w)
      /\ w.intrs = Tail(k.intrs) /\ w.procp = k.procp /\ w.idleevents = i
  BY <1>0, <1>2, <1>5, ReturnedFacts
<1>7. Continue(c, CpuChanged(c, w), R, q, stops, FALSE)
  BY <1>5
<1> HIDE DEF w, chain
<1>8. CASE i = k.idleevents /\ R = procs /\ pf_dispq' = pf_dispq
  <2>1. SameSwitches(R) /\ FirstOnly(R) /\ Queued(R, pf_dispq', sleepqueue')
    BY <1>0, <1>1, <1>8 DEF SameSwitches
  <2>2. w.procp = cpus[c].procp /\ w.idleevents = <<>> /\ cpus[c].idleevents = <<>>
    BY <1>3, <1>6, <1>8
  <2> HIDE DEF k
  <2> DEFINE b == FALSE
  <2>3. Continue(c, CpuChanged(c, w), R, q, stops, b) /\ b \in BOOLEAN
    BY <1>7
  <2> HIDE DEF b
  <2> QED BY <1>o, <1>0, <1>6, <2>1, <2>2, <2>3, QuietStep
<1>9. CASE Tail(k.intrs) = <<>> /\ k.procp = Nobody /\ Dispatching(k.idleevents, procs, i, R)
  <2> DEFINE n == NextProc
             e == CSwitch(n)
  <2>1. i = <<e>> \o k.idleevents /\ R = OnProc(procs, NextProc) /\ pf_dispq' = Undispatched
    BY <1>9 DEF Dispatching
  <2>2. e.type = "CSWITCH_EVENT" /\ e.time = 0 /\ e.arg = n
    BY DEF CSwitch, Event
  <2>3. /\ Queued(R, Undispatched, sleepqueue)
        /\ \A x \in Procs : Owed(R, x) = Owed(procs, x) + Bit(n = x)
        /\ \A x \in Procs : R[x].events = procs[x].events
    BY <1>0, <2>1, DispatchFacts
  <2> HIDE DEF e, n
  <2>4. i = <<e>>
    BY <1>3, <2>1
  <2>5. IdleLoop(w)
    BY <1>6, <1>9, <2>2, <2>4 DEF IdleLoop
  <2>6. Target(w.idleevents) = n
    BY <1>6, <2>2, <2>4 DEF Target
  <2>7. Seats(w, Nobody, n) /\ Dispatches(procs, R, n)
    BY <1>6, <1>9, <2>3, <2>6 DEF Seats, Dispatches
  <2>8. InHand(c, procs, Nobody, Nobody)
    <3>1. Target(k.idleevents) = Nobody
      BY <1>3 DEF Target
    <3>2. ASSUME NEW x \in Procs PROVE Bit(Nobody = x) = 0 /\ AtCpu(cpus, c, x) = 0
      <4>1. Nobody # x
        BY ProcsAreNumbers DEF Nobody
      <4> QED BY <1>9, <3>1, <4>1 DEF AtCpu, Bit
    <3> QED BY <3>2 DEF InHand
  <2>9. Balanced(CpuChanged(c, w), R)
    BY <1>0, <1>6, <2>3, <2>7, <2>8, HandBalanced
  <2>10. Queued(R, pf_dispq', sleepqueue') /\ FirstOnly(R)
    BY <1>0, <1>1, <2>1, <2>3 DEF FirstOnly
  <2>11. Undisturbed(c, w, R, q, q)
    <3>1. \A d \in Cpus : SwitchDue(cpus[d], R) => SwitchDue(cpus[d], procs)
      <4>1. \A d \in Cpus : cpus[d].procp \in Procs \cup {Nobody}
        BY <1>0 DEF Typed, CpuRecords
      <4> QED BY <2>3, <4>1 DEF SwitchDue, Leaving
    <3> QED BY <1>3, <1>6, <1>9, <3>1 DEF Undisturbed
  <2> HIDE DEF k
  <2> DEFINE b == FALSE
  <2>12. Continue(c, CpuChanged(c, w), R, q, stops, b) /\ b \in BOOLEAN
    BY <1>7
  <2> HIDE DEF b
  <2> QED BY <1>o, <1>0, <1>6, <2>5, <2>9, <2>10, <2>11, <2>12, InPlaceKept
<1> QED BY <1>5, <1>8, <1>9 DEF IntendTaken

(***************************************************************************)
(* The interrupts.                                                          *)
(***************************************************************************)

\* The time that is left of a switch is none, and nothing else of it changes.
LEMMA KeptSwitches ==
  ASSUME NEW T, Typed(T), Running, ~stop_sim, FirstOnly(procs), NEW q,
         cpus[1].intrs = <<>> /\ SwitchDue(cpus[1], procs) => CpuEvent(1) \notin q.later,
         NEW P, P = ProcWithChain(1, cpus, procs, Kept(q))
  PROVE  FirstOnly(P) /\ SameSwitches(P) /\ \A o \in Procs : P[o].stat = procs[o].stat
<1> DEFINE k == cpus[1]
           p == k.procp
           s == procs[p].events
           left == TimeLeft(q, CpuEvent(1))
<1>0. 1 \in Cpus /\ k \in CpuRecords /\ GoodCpu(1, k) /\ procs \in ProcTables(T) /\ p \in Procs \cup {Nobody}
  BY ConfigParts, CpuRecordParts DEF Typed, Running
<1>1. CASE k.intrs = <<>> /\ p # Nobody
  <2>1. p \in Procs /\ k.state # "CPU_IDLE" /\ Chain(k, procs) = s
    BY <1>0, <1>1 DEF GoodCpu, Base, Chain
  <2>2. s \in Seq(FlowEvents(T)) /\ s # <<>> /\ procs[p] \in ProcRecords(T)
    BY <1>0, <2>1, ProcRecordParts DEF Running, EndsIn, ProcTables
  <2> DEFINE l == [s EXCEPT ![1].time = left]
  <2>3. P = [procs EXCEPT ![p].events = l]
    BY <1>1, <2>1, <2>2 DEF ProcWithChain, Kept
  <2>4. 1 \in DOMAIN s /\ s[1] \in FlowEvents(T)
    BY <2>2
  <2>5. /\ DOMAIN l = DOMAIN s /\ l # <<>>
        /\ \A i \in DOMAIN s : l[i].type = s[i].type /\ l[i].arg = s[i].arg /\ (i # 1 => l[i] = s[i])
        /\ l[1].time = left
    <3> HIDE DEF left, s
    <3>1. DOMAIN l = DOMAIN s /\ l[1] = [s[1] EXCEPT !.time = left] /\ \A i \in DOMAIN s : i # 1 => l[i] = s[i]
      BY <2>4
    <3>2. l[1].type = s[1].type /\ l[1].arg = s[1].arg /\ l[1].time = left
      BY <2>4, <3>1 DEF FlowEvents
    <3>3. l # <<>>
      BY <2>4, <3>1
    <3> QED BY <3>1, <3>2, <3>3
  <2>6. s[1].type = "CSWITCH_EVENT" => left = 0
    <3>1. s[1].type = "CSWITCH_EVENT" => SwitchDue(k, procs)
      BY <1>1, <2>2 DEF SwitchDue, Leaving
    <3> QED BY <1>1, <3>1 DEF TimeLeft
  <2> HIDE DEF l, left
  <2>7. /\ \A o \in Procs : o = p => P[o].events = l
        /\ \A o \in Procs : P[o].stat = procs[o].stat
        /\ \A o \in Procs : o # p => P[o] = procs[o]
    <3>1. [procs[p] EXCEPT !.events = l].events = l /\ [procs[p] EXCEPT !.events = l].stat = procs[p].stat
      BY <2>2 DEF ProcRecords
    <3> QED BY <1>0, <2>1, <2>3, <3>1 DEF ProcTables
  <2>8. FirstOnly(P)
    <3> SUFFICES ASSUME NEW o \in Procs, NEW i \in DOMAIN P[o].events, P[o].events[i].type = "CSWITCH_EVENT"
                 PROVE  i = 1 /\ P[o].events[i].time = 0
      BY DEF FirstOnly
    <3>1. CASE o = p
      <4>1. i \in DOMAIN s /\ s[i].type = "CSWITCH_EVENT"
        BY <2>5, <2>7, <3>1
      <4>2. i = 1
        BY <2>1, <4>1 DEF FirstOnly
      <4> QED BY <2>5, <2>6, <2>7, <3>1, <4>1, <4>2
    <3>2. CASE o # p
      BY <2>7, <3>2 DEF FirstOnly
    <3> QED BY <3>1, <3>2
  <2>9. ASSUME NEW o \in Procs
        PROVE  /\ Target(P[o].events) = Target(procs[o].events)
               /\ Leaving(P, o) <=> Leaving(procs, o)
               /\ P[o].stat = "PROC_ONPROC" <=> procs[o].stat = "PROC_ONPROC"
    <3>1. CASE o = p
      BY <2>2, <2>4, <2>5, <2>7, <3>1 DEF Target, Leaving
    <3>2. CASE o # p
      BY <2>7, <3>2 DEF Leaving
    <3> QED BY <3>1, <3>2
  <2> QED BY <2>7, <2>8, <2>9 DEF SameSwitches
<1>2. CASE ~(k.intrs = <<>> /\ p # Nobody)
  <2>1. P = procs
    BY <1>2 DEF ProcWithChain
  <2> QED BY <2>1 DEF SameSwitches
<1> QED BY <1>1, <1>2

\* An interrupt puts off no processor's event.
LEMMA RearmedLater ==
  ASSUME NEW T, Typed(T), NEW q \in Agendas(QueueEvents), \A d \in Cpus : GoodEvent(d, cpus[d], q), NEW more
  PROVE  \A d \in Cpus : CpuEvent(d) \in Rearmed(q, more).later => CpuEvent(d) \in q.later
<1> DEFINE e == CpuEvent(1)
           u == Quieted(q)
<1>1. GoodEvent(1, cpus[1], q)
  BY ConfigParts
<1>2. cpus[1].state # "CPU_IDLE" => Pending(q, e) /\ AtMostOnce(q, e)
  BY <1>1 DEF GoodEvent
<1> HIDE DEF e
<1>3. cpus[1].state # "CPU_IDLE" => Cancel(q, e).later = q.later \ {e}
  BY <1>2, CancelFacts
<1>4. u.later \subseteq q.later
  BY <1>3 DEF Quieted, e
<1>5. u \in Agendas(QueueEvents)
  BY QuietedFacts
<1>6. ClockInterrupt \in QueueEvents /\ \A d \in Cpus : ClockInterrupt # CpuEvent(d)
  BY DEF QueueEvents, ClockInterrupt, CpuEvent
<1> HIDE DEF u
<1>7. Put(u, ClockInterrupt, 1).later \subseteq u.later \cup {ClockInterrupt}
  BY <1>5, <1>6, PutFacts
<1>8. Rearmed(q, more) = u \/ Rearmed(q, more) = Put(u, ClockInterrupt, 1)
  BY DEF Rearmed, u
<1> QED BY <1>4, <1>6, <1>7, <1>8

\* pf_handle_intr_event
LEMMA InterruptInPlace ==
  ASSUME NEW T, Typed(T), Running, WorkIsRun, WakeupComes, ~stop_sim, InPlace,
         NEW q \in Agendas(QueueEvents), \A d \in Cpus : GoodEvent(d, cpus[d], q),
         \A d \in Cpus : Prompt(cpus, procs, q, d), cpus[1].idleevents = <<>>,
         NEW intr \in Intrs, EndsIn(intr.events, "INTEND_EVENT"), NEW more,
         Interrupted(q, intr, more)
  PROVE  InPlaceNext
<1> DEFINE k == cpus[1]
           r == Rearmed(q, more)
           c == 1
<1>0. /\ 1 \in Cpus /\ k \in CpuRecords /\ FirstOnly(procs) /\ Queued(procs, pf_dispq, sleepqueue)
  BY ConfigParts DEF Typed, InPlace, Settings
<1>1. PICK i, P : InterruptedTo(T, q, intr, more, i, P)
  BY InterruptGoesOn DEF InterruptsOn
<1> DEFINE w == Taken(k, i, intr)
<1>2. /\ P \in ProcTables(T) /\ P = ProcWithChain(1, cpus, procs, Kept(q)) /\ (i = <<>> <=> k.idleevents = <<>>)
      /\ w \in CpuRecords /\ Resumable(c, w)
      /\ r \in Agendas(QueueEvents) /\ OthersGood(c, r)
      /\ Continue(c, CpuChanged(c, w), P, r, FALSE, FALSE)
      /\ pf_dispq' = pf_dispq /\ sleepqueue' = sleepqueue
  BY <1>1 DEF InterruptedTo
<1>3. w.procp = k.procp /\ w.idleevents = i
  BY DEF Taken
<1>4. \A d \in Cpus : CpuEvent(d) \in r.later => CpuEvent(d) \in q.later
  BY RearmedLater
<1> HIDE DEF w, r
<1>5. Before(T, c, r)
  BY <1>0, <1>2 DEF Before
<1>6. OthersOrdered(c, r)
  BY <1>4 DEF OthersOrdered, Prompt
<1>7. FirstOnly(P) /\ SameSwitches(P) /\ \A o \in Procs : P[o].stat = procs[o].stat
  <2>1. k.intrs = <<>> /\ SwitchDue(k, procs) => CpuEvent(1) \notin q.later
    BY <1>0 DEF Prompt
  <2> QED BY <1>0, <1>2, <2>1, KeptSwitches
<1>8. Queued(P, pf_dispq', sleepqueue')
  BY <1>0, <1>2, <1>7 DEF Queued
<1>9. w.procp = cpus[c].procp /\ w.idleevents = <<>> /\ cpus[c].idleevents = <<>>
  BY <1>2, <1>3
<1> DEFINE b == FALSE
<1>10. Continue(c, CpuChanged(c, w), P, r, b, b) /\ b \in BOOLEAN /\ (c # 1 => r.soon = r.soon)
       /\ \A d \in Cpus : CpuEvent(d) \in r.later => CpuEvent(d) \in r.later
  BY <1>2
<1> HIDE DEF b, c, k
<1> QED BY <1>2, <1>5, <1>6, <1>7, <1>8, <1>9, <1>10, QuietStep

(***************************************************************************)
(* The main loop.                                                           *)
(***************************************************************************)

\* What is due now keeps its order; when nothing is, no processor has a switch
\* to make or an interrupt to go on with.
LEMMA TurnOrdered ==
  ASSUME NEW T, Typed(T), Running, ~stop_sim, Ordered(cpus, procs, agenda), NEW t \in Turns(agenda, config.atonce)
  PROVE  Ordered(cpus, procs, t) /\ t \in Agendas(QueueEvents) /\ t.soon # <<>>
<1>1. agenda \in Agendas(QueueEvents) /\ config.atonce \in Nat /\ 1 \in Cpus
  BY ConfigParts DEF Typed
<1>2. t \in Agendas(QueueEvents) /\ t.soon # <<>> /\ t.later \subseteq agenda.later
  BY <1>1, TurnFacts
<1>3. \A c \in Cpus : Prompt(cpus, procs, t, c)
  BY <1>2 DEF Ordered, Prompt
<1>4. LastOfAll(cpus, procs, t)
  <2>1. CASE agenda.soon # <<>>
    <3>1. t = agenda
      BY <2>1 DEF Turns
    <3> QED BY <3>1 DEF Ordered
  <2>2. CASE agenda.soon = <<>>
    <3> DEFINE k == cpus[1]
    <3>1. GoodCpu(1, k) /\ GoodEvent(1, k, agenda) /\ Prompt(cpus, procs, agenda, 1)
      BY <1>1 DEF Running, Ordered
    <3>2. Pending(agenda, CpuEvent(1)) => CpuEvent(1) \in agenda.later
      BY <2>2 DEF Pending
    <3>3. k.intrs = <<>>
      BY <3>1, <3>2 DEF GoodCpu, GoodEvent
    <3>4. ~SwitchDue(k, procs)
      <4>1. SwitchDue(k, procs) => k.state # "CPU_IDLE"
        BY <3>1, <3>3 DEF SwitchDue, GoodCpu, Base
      <4> QED BY <3>1, <3>2, <3>3, <4>1 DEF GoodEvent, Prompt
    <3> QED BY <3>3, <3>4 DEF LastOfAll, SwitchDue
  <2> QED BY <2>1, <2>2
<1> QED BY <1>2, <1>3, <1>4 DEF Ordered

LEMMA RestOrdered ==
  ASSUME NEW T, Typed(T), NEW t \in Agendas(QueueEvents), t.soon # <<>>, Ordered(cpus, procs, t)
  PROVE  /\ \A d \in Cpus : Prompt(cpus, procs, Rest(t), d)
         /\ \A c \in Cpus : Head(t.soon) = CpuEvent(c) => OrderedRest(c, Rest(t))
         /\ Head(t.soon).type # "CPU_EVENT" => cpus[1].idleevents = <<>>
<1> DEFINE q == Rest(t)
           s == t.soon
<1>1. s \in Seq(QueueEvents) /\ Head(s) = s[1] /\ 1 \in DOMAIN s
  BY AgendaParts
<1>2. q.later = t.later /\ q.soon = Tail(s)
  <2>1. t = [soon |-> t.soon, later |-> t.later]
    BY AgendaParts
  <2> QED BY <2>1 DEF Rest
<1> HIDE DEF q, s
<1>3. \A i \in DOMAIN q.soon : i + 1 \in DOMAIN s /\ q.soon[i] = s[i + 1] /\ 1 < i + 1 /\ i \in Nat
  BY <1>1, <1>2
<1>4. \A d \in Cpus : Prompt(cpus, procs, q, d)
  BY <1>2 DEF Ordered, Prompt
<1>5. NoneBehind(t) => NoneBehind(q)
  <2>1. \A i, j \in DOMAIN q.soon : i < j => i + 1 < j + 1
    BY <1>3
  <2> QED BY <1>3, <2>1 DEF NoneBehind, s
<1>6. AllCpu(t) => AllCpu(q)
  BY <1>3 DEF AllCpu, s
<1>7. LastOfAll(cpus, procs, t)
  BY DEF Ordered
<1>8. LastOfAll(cpus, procs, q)
  BY <1>5, <1>6, <1>7 DEF LastOfAll
<1>9. ASSUME NEW c \in Cpus, Head(s) = CpuEvent(c)
      PROVE  OrderedRest(c, q)
  <2>1. OthersOrdered(c, q)
    BY <1>4, <1>8 DEF OthersOrdered
  <2>2. c = 1 /\ NoneBehind(t) => AllCpu(q)
    BY <1>1, <1>3, <1>9 DEF NoneBehind, AllCpu, s
  <2> QED BY <1>7, <2>1, <2>2 DEF OrderedRest, LastOfAll
<1>10. Head(s).type # "CPU_EVENT" => cpus[1].idleevents = <<>>
  BY <1>1, <1>7 DEF LastOfAll, AllCpu, s
<1> QED BY <1>4, <1>9, <1>10 DEF q, s

\* disksim_simulate_event
LEMMA TurnInPlace ==
  ASSUME NEW T, Typed(T), Running, WorkIsRun, WakeupComes, InPlace, Ordered(cpus, procs, agenda),
         NEW events, Turn(events)
  PROVE  InPlaceNext
<1>1. PICK t \in Turns(agenda, config.atonce) : Simulate(Head(t.soon), Rest(t))
  BY DEF Turn
<1> DEFINE e == Head(t.soon)
           q == Rest(t)
<1>2. /\ e \in QueueEvents /\ q \in Agendas(QueueEvents)
      /\ \A d \in Cpus : CpuEvent(d) # e => GoodEvent(d, cpus[d], q)
      /\ \A c \in Cpus : CpuEvent(c) = e => OthersGood(c, q)
  BY TakenFromAgenda
<1>3. ~stop_sim
  BY DEF Turn
<1>4. Simulate(e, q)
  BY <1>1
<1>5. /\ \A d \in Cpus : Prompt(cpus, procs, q, d)
      /\ \A c \in Cpus : e = CpuEvent(c) => OrderedRest(c, q)
      /\ e.type # "CPU_EVENT" => cpus[1].idleevents = <<>>
  <2>1. Ordered(cpus, procs, t) /\ t \in Agendas(QueueEvents) /\ t.soon # <<>>
    BY <1>3, TurnOrdered
  <2> QED BY <2>1, RestOrdered
<1> HIDE DEF e, q
<1>6. CASE e.type = "CPU_EVENT" /\ ProcessorEvent(e.arg, q)
  <2>0. e.type = "CPU_EVENT" /\ ClockInterrupt.type = "CLOCK_INTERRUPT"
    BY <1>6 DEF ClockInterrupt
  <2>1. PICK c \in Cpus : e = CpuEvent(c)
    BY <1>2, <2>0 DEF QueueEvents
  <2>2. Before(T, c, q) /\ OrderedRest(c, q)
    BY <1>2, <1>3, <1>5, <2>1 DEF Before
  <2>3. ProcessorEvent(c, q)
    BY <1>6, <2>1 DEF CpuEvent
  <2>4. CASE Handled(c, q, "CSWITCH_EVENT", HandleCSwitch)
    BY <2>2, <2>4, CSwitchInPlace
  <2>5. CASE Handled(c, q, "SLEEP_EVENT", HandleSleep)
    BY <2>2, <2>5, SleepInPlace
  <2>6. CASE Handled(c, q, "WAKEUP_EVENT", HandleWakeup)
    BY <2>2, <2>6, WakeupInPlace
  <2>7. CASE Handled(c, q, "SYNTHIO_EVENT", HandleSynthio)
    BY <2>2, <2>7, SynthioInPlace
  <2>8. CASE Handled(c, q, "IOREQ_EVENT", HandleIoreq)
    BY <2>2, <2>8, IoreqInPlace
  <2>9. CASE Handled(c, q, "IO_ACCESS_ARRIVE", HandleAccess)
    BY <2>2, <2>9, AccessInPlace
  <2>10. CASE Handled(c, q, "IO_RESPOND_TO_DEVICE", HandleRespond)
    BY <2>2, <2>10, RespondInPlace
  <2>11. CASE Handled(c, q, "IO_ACCESS_COMPLETE", HandleAccessComplete)
    BY <2>2, <2>11, AccessCompleteInPlace
  <2>12. CASE Handled(c, q, "INTEND_EVENT", HandleIntend)
    BY <2>2, <2>12, IntendInPlace
  <2> QED BY <2>3, <2>4, <2>5, <2>6, <2>7, <2>8, <2>9, <2>10, <2>11, <2>12 DEF ProcessorEvent
<1>7. CASE e.type = "IO_INTERRUPT" /\ IoIntr(e, q)
  <2>0. /\ e.type = "IO_INTERRUPT" /\ ClockInterrupt.type = "CLOCK_INTERRUPT"
        /\ \A d \in Cpus : CpuEvent(d).type = "CPU_EVENT"
    BY <1>7 DEF ClockInterrupt, CpuEvent
  <2>1. e.arg \in Int /\ e.cause \in Causes
    BY <1>2, <2>0 DEF QueueEvents
  <2>2. \A d \in Cpus : CpuEvent(d) # e
    BY <2>0
  <2>3. (\A d \in Cpus : GoodEvent(d, cpus[d], q)) /\ cpus[1].idleevents = <<>>
    BY <1>2, <1>5, <2>0, <2>2
  <2> DEFINE intr == Intr(e.cause, IoIntrEvents(e))
             more == {}
  <2>4. intr \in Intrs /\ EndsIn(intr.events, "INTEND_EVENT")
    BY <2>1, IoIntrIsIntr
  <2>5. Interrupted(q, intr, more)
    BY <1>7 DEF IoIntr
  <2> HIDE DEF intr, more
  <2> QED BY <1>2, <1>3, <1>5, <2>3, <2>4, <2>5, InterruptInPlace
<1>8. CASE e.type = "CLOCK_INTERRUPT" /\ ClockIntr(q)
  <2>0. e.type = "CLOCK_INTERRUPT" /\ \A d \in Cpus : CpuEvent(d).type = "CPU_EVENT"
    BY <1>8 DEF CpuEvent
  <2>1. \A d \in Cpus : CpuEvent(d) # e
    BY <2>0
  <2>2. (\A d \in Cpus : GoodEvent(d, cpus[d], q)) /\ cpus[1].idleevents = <<>>
    BY <1>2, <1>5, <2>0, <2>1
  <2> DEFINE intr == Intr("CLOCK", <<Intend>>)
             more == {ClockInterrupt}
  <2>3. intr \in Intrs /\ EndsIn(intr.events, "INTEND_EVENT")
    BY ClockIntrIsIntr
  <2>4. Interrupted(q, intr, more)
    BY <1>8 DEF ClockIntr
  <2> HIDE DEF intr, more
  <2> QED BY <1>2, <1>3, <1>5, <2>2, <2>3, <2>4, InterruptInPlace
<1> QED BY <1>4, <1>6, <1>7, <1>8 DEF Simulate


(***************************************************************************)
(* Every step.                                                              *)
(***************************************************************************)
PlaceInv == InPlace /\ Ordered(cpus, procs, agenda)

LEMMA SameConfig ==
  ASSUME NEW events, Turn(events)
  PROVE  config' = config
<1>1. PICK t \in Turns(agenda, config.atonce) : Simulate(Head(t.soon), Rest(t))
  BY DEF Turn
<1> DEFINE e == Head(t.soon)
           q == Rest(t)
<1>2. Simulate(e, q)
  BY <1>1
<1> HIDE DEF e, q
<1>3. CASE ProcessorEvent(e.arg, q)
  BY <1>3 DEF ProcessorEvent, Handled
<1>4. CASE IoIntr(e, q) \/ ClockIntr(q)
  BY <1>4 DEF IoIntr, ClockIntr, Interrupted
<1> QED BY <1>2, <1>3, <1>4 DEF Simulate

LEMMA PlacePrimed ==
  ASSUME config' = config, InPlaceNext
  PROVE  PlaceInv'
<1>1. Cpus' = Cpus
  BY DEF Cpus
<1>2. ASSUME NEW p \in Procs PROVE BalancedFor(cpus, procs, p)'
  <2>1. BalancedFor(cpus', procs', p)
    BY DEF InPlaceNext, Settings, Balanced
  <2>2. /\ OnCpu(cpus, p)' = OnCpu(cpus', p)
        /\ ToCpu(cpus, p)' = ToCpu(cpus', p)
        /\ FromList(procs, p)' = FromList(procs', p)
    BY <1>1 DEF OnCpu, ToCpu, FromList, Target
  <2> QED BY <2>1, <2>2 DEF BalancedFor, Leaving, Bit
<1>3. Balanced(cpus, procs)'
  BY <1>2 DEF Balanced
<1>4. FirstOnly(procs)' /\ Queued(procs, pf_dispq, sleepqueue)'
  BY DEF InPlaceNext, Settings, FirstOnly, Queued, Once, Among
<1>5. IdleOne(cpus)'
  BY <1>1 DEF InPlaceNext, Settings, IdleOne
<1>6. Ordered(cpus, procs, agenda)'
  BY <1>1 DEF InPlaceNext, Ordered, Prompt, LastOfAll, SwitchDue, Leaving, NoneBehind, AllCpu, CpuEvent
<1> QED BY <1>3, <1>4, <1>5, <1>6 DEF PlaceInv, InPlace, Settings

LEMMA PlaceKept ==
  ASSUME CoreInv, PlaceInv, [Next]_vars
  PROVE  PlaceInv'
<1>1. CASE Next
  <2>1. PICK events : Turn(events)
    BY <1>1 DEF Next, Progress, Tick
  <2>2. PICK T : Typed(T)
    BY DEF CoreInv, BaseInv
  <2>3. Running /\ WorkIsRun /\ WakeupComes /\ InPlace /\ Ordered(cpus, procs, agenda)
    BY DEF CoreInv, BaseInv, PlaceInv
  <2>4. InPlaceNext
    BY <2>1, <2>2, <2>3, TurnInPlace
  <2> QED BY <2>1, <2>4, SameConfig, PlacePrimed
<1>2. CASE UNCHANGED vars
  <2>1. /\ config' = config /\ cpus' = cpus /\ procs' = procs /\ agenda' = agenda
        /\ pf_dispq' = pf_dispq /\ sleepqueue' = sleepqueue
    BY <1>2 DEF vars
  <2>2. InPlaceNext
    BY <2>1 DEF PlaceInv, InPlace, InPlaceNext
  <2> QED BY <2>1, <2>2, PlacePrimed
<1> QED BY <1>1, <1>2

(***************************************************************************)
(* The beginning.                                                           *)
(***************************************************************************)

\* The processors and the dispatch queue share out the processes.
LEMMA SharedOut ==
  ASSUME config \in Configs
  PROVE  /\ \A c, d \in Cpus : Dispatched(c) = Dispatched(d) /\ Dispatched(c) # Nobody => c = d
         /\ Once(SubSeq(StartOrder, config.numcpus + 1, Cardinality(Procs)))
         /\ \A p \in Procs : (\E c \in Cpus : Dispatched(c) = p)
               <=> ~Among(p, SubSeq(StartOrder, config.numcpus + 1, Cardinality(Procs)))
<1> DEFINE N == Cardinality(Procs)
           m == config.numcpus
           rest == SubSeq(StartOrder, m + 1, N)
<1>1. N \in Nat /\ Procs = 1..N
  BY ProcsAreNumbers
<1>2. m \in Nat /\ Cpus = 1..m
  BY ProcessFlowAssumption DEF ConfigurableCpus, Cpus
<1>3. DOMAIN StartOrder = 1..N /\ \A i \in 1..N : StartOrder[i] = N + 1 - i
  BY DEF StartOrder
<1>4. DOMAIN rest = 1..N - m /\ \A i \in 1..N - m : rest[i] = StartOrder[m + i]
  <2> HIDE DEF N, m
  <2>1. \A i \in m + 1..N : StartOrder[i] \in Procs
    <3>1. \A i \in m + 1..N : i \in 1..N /\ N + 1 - i \in 1..N
      BY <1>1, <1>2
    <3> QED BY <1>1, <1>3, <3>1
  <2>2. m + 1 \in Int /\ N \in Int
    BY <1>1, <1>2
  <2>3. /\ rest \in Seq(Procs)
        /\ Len(rest) = IF m + 1 <= N THEN N - (m + 1) + 1 ELSE 0
        /\ \A i \in 1..N - (m + 1) + 1 : rest[i] = StartOrder[m + 1 + i - 1]
    BY <2>1, <2>2, SubSeqProperties
  <2> HIDE DEF rest
  <2>4. N - (m + 1) + 1 = N - m /\ \A i \in 1..N - m : m + 1 + i - 1 = m + i
    BY <1>1, <1>2
  <2>5. DOMAIN rest = 1..N - m
    <3>1. DOMAIN rest = 1..Len(rest)
      BY <2>3
    <3>2. 1..Len(rest) = 1..N - m
      BY <1>1, <1>2, <2>3, <2>4
    <3> QED BY <3>1, <3>2
  <2> QED BY <2>3, <2>4, <2>5
<1> HIDE DEF N, m, rest
<1>5. \A c \in Cpus : /\ c \in 1..N => Dispatched(c) = N + 1 - c
                      /\ c \notin 1..N => Dispatched(c) = Nobody
  BY <1>3 DEF Dispatched
<1>6. \A i \in 1..N - m : rest[i] = N + 1 - (m + i)
  <2>1. \A i \in 1..N - m : m + i \in 1..N
    BY <1>1, <1>2
  <2> QED BY <1>3, <1>4, <2>1
<1>7. ASSUME NEW c \in Cpus, NEW d \in Cpus, Dispatched(c) = Dispatched(d), Dispatched(c) # Nobody
      PROVE  c = d
  <2>1. c \in 1..N /\ d \in 1..N
    BY <1>5, <1>7
  <2>2. N + 1 - c = N + 1 - d
    BY <1>5, <1>7, <2>1
  <2> QED BY <1>1, <2>1, <2>2
<1>8. Once(rest)
  <2>1. \A i, j \in 1..N - m : N + 1 - (m + i) = N + 1 - (m + j) => i = j
    BY <1>1, <1>2
  <2> QED BY <1>4, <1>6, <2>1 DEF Once
<1>9. ASSUME NEW p \in Procs
      PROVE  (\E c \in Cpus : Dispatched(c) = p) <=> ~Among(p, rest)
  <2>0. p \in 1..N /\ p # Nobody
    BY <1>1 DEF Nobody
  <2> DEFINE i == N + 1 - p
  <2>1. i \in 1..N /\ N + 1 - i = p
    BY <1>1, <2>0
  <2>2. (\E c \in Cpus : Dispatched(c) = p) <=> i <= m
    <3>1. ASSUME NEW c \in Cpus, Dispatched(c) = p PROVE i <= m
      <4>1. c \in 1..N /\ N + 1 - c = p
        BY <1>5, <2>0, <3>1
      <4> QED BY <1>1, <1>2, <4>1
    <3>2. ASSUME i <= m PROVE \E c \in Cpus : Dispatched(c) = p
      <4>1. i \in Cpus
        BY <1>1, <1>2, <2>1, <3>2
      <4>2. Dispatched(i) = p
        BY <1>5, <2>1, <4>1
      <4> QED BY <4>1, <4>2
    <3> QED BY <3>1, <3>2
  <2>3. Among(p, rest) <=> i > m
    <3>1. ASSUME NEW j \in 1..N - m, rest[j] = p PROVE i > m
      <4>1. N + 1 - (m + j) = p
        BY <1>6, <3>1
      <4> QED BY <1>1, <1>2, <2>0, <4>1
    <3>2. ASSUME i > m PROVE \E j \in 1..N - m : rest[j] = p
      <4>1. i - m \in 1..N - m /\ N + 1 - (m + (i - m)) = p
        BY <1>1, <1>2, <2>0, <2>1, <3>2
      <4> QED BY <1>6, <4>1
    <3> QED BY <1>4, <3>1, <3>2 DEF Among
  <2> HIDE DEF i
  <2> QED BY <1>1, <1>2, <2>1, <2>2, <2>3
<1> QED BY <1>7, <1>8, <1>9 DEF rest, m, N


\* What Init says of the generators and of the processes
FirstTables ==
    /\ \E first \in [Procs -> First] : \E class, limits :
          gens = [p \in Procs |-> [blkno |-> first[p].blkno, bcount |-> first[p].bcount,
                                   devno |-> first[p].devno, class |-> class[p], limits |-> limits[p]]]
    /\ \E events : procs = [p \in Procs |-> Process(events[p],
                               IF \E c \in Cpus : Dispatched(c) = p THEN "PROC_ONPROC" ELSE "PROC_RUN")]

LEMMA InitTables ==
  ASSUME Init
  PROVE  FirstTables
<1>0. PICK first \in [Procs -> First], draw \in [Procs -> Draws] :
         LET listed == [p \in Procs |-> Listed(<<>>, Opid(p, 0), draw[p][1], draw[p][2], draw[p][3])]
             over   == [p \in Procs |-> Over(listed[p], draw[p][1])]
             events == [p \in Procs |->
                          Appended(<<Synthio>>, listed[p], over[p], Opid(p, 0), draw[p][1], draw[p][2])]
         IN /\ gens = [p \in Procs |-> [blkno |-> first[p].blkno, bcount |-> first[p].bcount,
                          devno |-> first[p].devno, class |-> draw[p][2],
                          limits |-> SubSeq(listed[p], over[p] + 1, Len(listed[p]))]]
            /\ procs = [p \in Procs |-> Process(events[p],
                          IF \E c \in Cpus : Dispatched(c) = p THEN "PROC_ONPROC" ELSE "PROC_RUN")]
            /\ agenda = PutAll(Put(EmptyAgenda, ClockInterrupt, 1), [c \in Cpus |-> CpuEvent(c)],
                               {c \in Cpus : Dispatched(c) # Nobody},
                               [c \in Cpus |-> Head(events[Dispatched(c)]).time])
  BY DEF Init
<1> DEFINE listed == [p \in Procs |-> Listed(<<>>, Opid(p, 0), draw[p][1], draw[p][2], draw[p][3])]
           over   == [p \in Procs |-> Over(listed[p], draw[p][1])]
           events == [p \in Procs |->
                        Appended(<<Synthio>>, listed[p], over[p], Opid(p, 0), draw[p][1], draw[p][2])]
<1>1. gens = [p \in Procs |-> [blkno |-> first[p].blkno, bcount |-> first[p].bcount,
                 devno |-> first[p].devno, class |-> draw[p][2],
                 limits |-> SubSeq(listed[p], over[p] + 1, Len(listed[p]))]]
  BY <1>0
<1>3. procs = [p \in Procs |-> Process(events[p],
                 IF \E c \in Cpus : Dispatched(c) = p THEN "PROC_ONPROC" ELSE "PROC_RUN")]
  BY <1>0
<1> HIDE DEF listed, over, events
<1> DEFINE A == [p \in Procs |-> draw[p][2]]
           B == [p \in Procs |-> SubSeq(listed[p], over[p] + 1, Len(listed[p]))]
<1>2. gens = [p \in Procs |-> [blkno |-> first[p].blkno, bcount |-> first[p].bcount,
                        devno |-> first[p].devno, class |-> A[p], limits |-> B[p]]]
  BY <1>1
<1>4. \E class, limits :
         gens = [p \in Procs |-> [blkno |-> first[p].blkno, bcount |-> first[p].bcount,
                                  devno |-> first[p].devno, class |-> class[p], limits |-> limits[p]]]
  BY <1>2
<1> QED BY <1>3, <1>4, Zenon DEF FirstTables

LEMMA InitPlaces == Init => PlaceInv
<1> SUFFICES ASSUME Init PROVE PlaceInv
  OBVIOUS
<1>1. CoreInv /\ FirstRequests /\ config \in Configs
  BY InitGives DEF Init
<1>2. PICK T : Typed(T)
  BY <1>1 DEF CoreInv, BaseInv
<1>3. /\ procs \in ProcTables(T) /\ Nobody \notin Procs /\ pf_dispq \in Seq(Procs)
      /\ \A p \in Procs : \E S : procs[p].events \in Seq(S)
  <2>1. procs \in ProcTables(T) /\ pf_dispq \in Seq(Procs)
    BY <1>2 DEF Typed
  <2>2. \A p \in Procs : procs[p].events \in Seq(FlowEvents(T))
    BY <2>1 DEF ProcTables, ProcRecords
  <2>3. Nobody \notin Procs
    BY ProcsAreNumbers DEF Nobody
  <2> QED BY <2>1, <2>2, <2>3
<1>4. \A c \in Cpus : cpus[c].procp = Dispatched(c) /\ cpus[c].intrs = <<>> /\ cpus[c].idleevents = <<>>
  BY DEF Init
<1>5. \A p \in Procs : /\ (\E c \in Cpus : Dispatched(c) = p) => procs[p].stat = "PROC_ONPROC"
                       /\ ~(\E c \in Cpus : Dispatched(c) = p) => procs[p].stat = "PROC_RUN"
  <2>1. \E events : procs = [p \in Procs |-> Process(events[p],
                                IF \E c \in Cpus : Dispatched(c) = p THEN "PROC_ONPROC" ELSE "PROC_RUN")]
    BY InitTables DEF FirstTables
  <2>2. PICK events : procs = [p \in Procs |-> Process(events[p],
                                 IF \E c \in Cpus : Dispatched(c) = p THEN "PROC_ONPROC" ELSE "PROC_RUN")]
    BY <2>1
  <2> QED BY <2>2 DEF Process
<1>6. \A p \in Procs : NoSwitch(procs[p].events) /\ Target(procs[p].events) = Nobody /\ ~Leaving(procs, p)
  <2> SUFFICES ASSUME NEW p \in Procs
               PROVE  NoSwitch(procs[p].events) /\ Target(procs[p].events) = Nobody /\ ~Leaving(procs, p)
    OBVIOUS
  <2>1. PICK U, listed, over, think, class :
           /\ listed \in Seq(LimitEvents(U)) /\ over \in 0..Len(listed)
           /\ procs[p].events = Appended(<<Synthio>>, listed, over, Opid(p, 0), think, class)
    BY <1>1 DEF FirstRequests
  <2>2. NoSwitch(procs[p].events)
    BY <2>1, AppendedNoSwitch
  <2>3. PICK S : procs[p].events \in Seq(S)
    BY <1>3
  <2> DEFINE s == procs[p].events
  <2>4. s \in Seq(S) /\ NoSwitch(s)
    BY <2>2, <2>3
  <2>5. Leaving(procs, p) => s # <<>> /\ s[1].type = "CSWITCH_EVENT"
    BY DEF Leaving
  <2> HIDE DEF s
  <2>6. Target(s) = Nobody /\ ~Leaving(procs, p)
    BY <2>4, <2>5, NoSwitchFirst
  <2> QED BY <2>2, <2>6 DEF s
<1>7. pf_dispq = SubSeq(StartOrder, config.numcpus + 1, Cardinality(Procs)) /\ sleepqueue = <<>>
  BY DEF Init
<1>8. /\ \A c, d \in Cpus : Dispatched(c) = Dispatched(d) /\ Dispatched(c) # Nobody => c = d
      /\ Once(pf_dispq)
      /\ \A p \in Procs : (\E c \in Cpus : Dispatched(c) = p) <=> ~Among(p, pf_dispq)
  BY <1>1, <1>7, SharedOut
<1>9. ASSUME NEW p \in Procs PROVE BalancedFor(cpus, procs, p)
  <2> DEFINE A == OnCpu(cpus, p)
  <2>0. Bit(Leaving(procs, p)) = 0
    BY <1>6 DEF Bit
  <2>1. ToCpu(cpus, p) = {} /\ FromList(procs, p) = {}
    BY <1>3, <1>4, <1>6 DEF ToCpu, FromList, Target
  <2>2. A = {c \in Cpus : Dispatched(c) = p}
    BY <1>4 DEF OnCpu
  <2>3. Cardinality({}) = 0
    BY FS_EmptySet
  <2>4. CASE \E c \in Cpus : Dispatched(c) = p
    <3>1. PICK c \in Cpus : Dispatched(c) = p
      BY <2>4
    <3>2. A = {c}
      BY <1>3, <1>8, <2>2, <3>1
    <3>3. Cardinality(A) = 1
      BY <3>2, FS_Singleton
    <3>4. Bit(procs[p].stat = "PROC_ONPROC") = 1
      BY <1>5, <2>4 DEF Bit
    <3> QED BY <2>0, <2>1, <2>3, <3>3, <3>4 DEF BalancedFor
  <2>5. CASE ~\E c \in Cpus : Dispatched(c) = p
    <3>1. A = {}
      BY <2>2, <2>5
    <3>2. procs[p].stat = "PROC_RUN"
      BY <1>5, <2>5
    <3>3. Bit(procs[p].stat = "PROC_ONPROC") = 0
      BY <3>2 DEF Bit
    <3> QED BY <2>0, <2>1, <2>3, <3>1, <3>3 DEF BalancedFor
  <2> QED BY <2>4, <2>5
<1>10. Balanced(cpus, procs) /\ FirstOnly(procs)
  BY <1>6, <1>9 DEF Balanced, FirstOnly, NoSwitch
<1>11. IdleOne(cpus)
  BY <1>4 DEF IdleOne
<1>12. Queued(procs, pf_dispq, sleepqueue)
  <2>1. Once(sleepqueue) /\ \A p : ~Among(p, sleepqueue)
    BY <1>7 DEF Once, Among
  <2> QED BY <1>5, <1>8, <2>1 DEF Queued
<1>13. Ordered(cpus, procs, agenda)
  <2>1. \A c \in Cpus : cpus[c].intrs = <<>> /\ ~SwitchDue(cpus[c], procs) /\ cpus[c].idleevents = <<>>
    <3> SUFFICES ASSUME NEW c \in Cpus
                 PROVE  cpus[c].intrs = <<>> /\ ~SwitchDue(cpus[c], procs) /\ cpus[c].idleevents = <<>>
      OBVIOUS
    <3>1. cpus[c].procp \in Procs \cup {Nobody}
      <4>1. cpus \in [Cpus -> CpuRecords]
        BY <1>2 DEF Typed
      <4> QED BY <4>1 DEF CpuRecords
    <3> QED BY <1>4, <1>6, <3>1 DEF SwitchDue
  <2>2. 1 \in Cpus
    BY <1>1, ConfigFacts
  <2> QED BY <2>1, <2>2 DEF Ordered, Prompt, LastOfAll
<1> QED BY <1>10, <1>11, <1>12, <1>13 DEF PlaceInv, InPlace, Settings

(***************************************************************************)
(* What the invariant says.                                                 *)
(***************************************************************************)
LEMMA AmongIsMember ==
  ASSUME NEW S, NEW s \in Seq(S), NEW p
  PROVE  (Among(p, s) <=> p \in ToSet(s)) /\ (Once(s) => IsInjective(s))
<1>1. DOMAIN s = 1..Len(s)
  OBVIOUS
<1> QED BY <1>1 DEF Among, ToSet, Once, IsInjective

\* A process that is to be switched to has its context switch on a list.
LEMMA SwitchOnTheWay ==
  ASSUME CoreInv, PlaceInv, NEW p \in Procs
  PROVE  ToCpu(cpus, p) # {} \/ FromList(procs, p) # {} => Switching(p) # {}
<1>1. PICK T : Typed(T)
  BY DEF CoreInv, BaseInv
<1>2. Nobody \notin Procs
  BY ProcsAreNumbers DEF Nobody
<1>3. ASSUME NEW c \in Cpus, Target(cpus[c].idleevents) = p
      PROVE  Switching(p) # {}
  <2> DEFINE s == cpus[c].idleevents
  <2>1. s \in Seq(IdleEvents) /\ \A i \in DOMAIN s : s[i].time = 0
    <3>1. cpus[c] \in CpuRecords
      BY <1>1 DEF Typed
    <3>2. s \in Seq(IdleEvents)
      BY <3>1 DEF CpuRecords
    <3> QED BY <3>2 DEF PlaceInv, InPlace, Settings, IdleOne
  <2>2. Target(s) = p
    BY <1>3
  <2> HIDE DEF s
  <2>3. s # <<>> /\ s[1].type = "CSWITCH_EVENT" /\ s[1].arg = p
    BY <1>2, <2>2 DEF Target
  <2>4. 1 \in DOMAIN s /\ s[1] \in IdleEvents
    BY <2>1, <2>3
  <2>5. s[1] = CSwitch(p)
    BY <2>1, <2>3, <2>4 DEF CSwitch, Event, IdleEvents
  <2>6. 1 \in OnList(p, cpus[c].idleevents)
    BY <2>4, <2>5 DEF OnList, s
  <2>7. <<"idle", c, 1>> \in {<<"idle", c, i>> : i \in OnList(p, cpus[c].idleevents)}
    BY <2>6
  <2>8. <<"idle", c, 1>> \in UNION {{<<"idle", d, i>> : i \in OnList(p, cpus[d].idleevents)} : d \in Cpus}
    BY <2>7, Zenon
  <2>9. <<"idle", c, 1>> \in Switching(p)
    BY <2>8, Zenon DEF Switching
  <2> QED BY <2>9
<1>4. ASSUME NEW o \in Procs, Target(procs[o].events) = p
      PROVE  Switching(p) # {}
  <2> DEFINE s == procs[o].events
  <2>1. s \in Seq(FlowEvents(T)) /\ \A i \in DOMAIN s : s[i].type = "CSWITCH_EVENT" => s[i].time = 0
    <3>1. procs[o] \in ProcRecords(T)
      BY <1>1 DEF Typed, ProcTables
    <3>2. s \in Seq(FlowEvents(T))
      BY <3>1 DEF ProcRecords
    <3> QED BY <3>2 DEF PlaceInv, InPlace, Settings, FirstOnly
  <2>2. Target(s) = p
    BY <1>4
  <2> HIDE DEF s
  <2>3. s # <<>> /\ s[1].type = "CSWITCH_EVENT" /\ s[1].arg = p
    BY <1>2, <2>2 DEF Target
  <2>4. 1 \in DOMAIN s /\ s[1] \in FlowEvents(T)
    BY <2>1, <2>3
  <2>5. s[1] = CSwitch(p)
    BY <2>1, <2>3, <2>4 DEF CSwitch, Event, FlowEvents
  <2>6. 1 \in OnList(p, procs[o].events)
    BY <2>4, <2>5 DEF OnList, s
  <2>7. <<"process", o, 1>> \in {<<"process", o, i>> : i \in OnList(p, procs[o].events)}
    BY <2>6
  <2>8. <<"process", o, 1>> \in UNION {{<<"process", r, i>> : i \in OnList(p, procs[r].events)} : r \in Procs}
    BY <2>7, Zenon
  <2>9. <<"process", o, 1>> \in Switching(p)
    BY <2>8, Zenon DEF Switching
  <2> QED BY <2>9
<1> QED BY <1>3, <1>4 DEF ToCpu, FromList

LEMMA ImageIsFinite ==
  ASSUME NEW S, IsFiniteSet(S), NEW f
  PROVE  IsFiniteSet({f[x] : x \in S})
<1> DEFINE g == [x \in S |-> f[x]]
           R == {f[x] : x \in S}
<1>1. g \in Surjection(S, R)
  BY DEF Surjection
<1> HIDE DEF g, R
<1>2. IsFiniteSet(R)
  BY <1>1, FS_Surjection
<1> QED BY <1>2 DEF R

\* The places of the context switches to p on a list
Spots(p, kind, c, s) == {<<kind, c, i>> : i \in OnList(p, s)}

LEMMA SpotsAreFinite ==
  ASSUME NEW S, NEW s \in Seq(S), NEW p, NEW kind, NEW c
  PROVE  IsFiniteSet(Spots(p, kind, c, s))
<1>1. IsFiniteSet(1..Len(s))
  BY FS_Interval
<1>2. OnList(p, s) \subseteq 1..Len(s)
  BY DEF OnList
<1>3. IsFiniteSet(OnList(p, s))
  BY <1>1, <1>2, FS_Subset
<1> DEFINE O == OnList(p, s)
           f == [i \in O |-> <<kind, c, i>>]
<1>4. Spots(p, kind, c, s) = {f[i] : i \in O}
  BY DEF Spots
<1>5. IsFiniteSet(O)
  BY <1>3
<1> HIDE DEF O, f
<1>6. IsFiniteSet({f[i] : i \in O})
  BY <1>5, ImageIsFinite
<1> QED BY <1>4, <1>6

LEMMA SwitchingIsFinite ==
  ASSUME CoreInv, NEW p \in Procs
  PROVE  IsFiniteSet(Switching(p))
<1>1. PICK T : Typed(T)
  BY DEF CoreInv, BaseInv
<1>2. IsFiniteSet(Cpus) /\ IsFiniteSet(Procs)
  <2>1. config \in Configs
    BY <1>1 DEF Typed
  <2>2. config.numcpus \in Nat
    BY <2>1, ProcessFlowAssumption DEF ConfigurableCpus
  <2>3. IsFiniteSet(Cpus)
    BY <2>2, FS_Interval DEF Cpus
  <2>4. IsFiniteSet(Procs)
    BY ProcessFlowAssumption
  <2> QED BY <2>3, <2>4
<1>3. \A c \in Cpus : cpus[c].idleevents \in Seq(IdleEvents)
  <2>1. \A c \in Cpus : cpus[c] \in CpuRecords
    BY <1>1 DEF Typed
  <2> QED BY <2>1 DEF CpuRecords
<1>4. \A o \in Procs : procs[o].events \in Seq(FlowEvents(T))
  <2>1. \A o \in Procs : procs[o] \in ProcRecords(T)
    BY <1>1 DEF Typed, ProcTables
  <2> QED BY <2>1 DEF ProcRecords
<1> DEFINE A(c) == Spots(p, "idle", c, cpus[c].idleevents)
           B(o) == Spots(p, "process", o, procs[o].events)
<1>6. IsFiniteSet({A(c) : c \in Cpus}) /\ IsFiniteSet({B(o) : o \in Procs})
  <2> HIDE DEF A, B
  <2> DEFINE f == [c \in Cpus |-> A(c)]
             g == [o \in Procs |-> B(o)]
  <2>1. {A(c) : c \in Cpus} = {f[c] : c \in Cpus} /\ {B(o) : o \in Procs} = {g[o] : o \in Procs}
    OBVIOUS
  <2> HIDE DEF f, g
  <2>2. IsFiniteSet({f[c] : c \in Cpus}) /\ IsFiniteSet({g[o] : o \in Procs})
    BY <1>2, ImageIsFinite
  <2> QED BY <2>1, <2>2
<1>7. (\A c \in Cpus : IsFiniteSet(A(c))) /\ (\A o \in Procs : IsFiniteSet(B(o)))
  <2>1. ASSUME NEW c \in Cpus PROVE IsFiniteSet(A(c))
    <3> DEFINE s == cpus[c].idleevents
    <3>1. s \in Seq(IdleEvents)
      BY <1>3
    <3> HIDE DEF s
    <3>2. IsFiniteSet(Spots(p, "idle", c, s))
      BY <3>1, SpotsAreFinite
    <3> QED BY <3>2 DEF s
  <2>2. ASSUME NEW o \in Procs PROVE IsFiniteSet(B(o))
    <3> DEFINE s == procs[o].events
    <3>1. s \in Seq(FlowEvents(T))
      BY <1>4
    <3> HIDE DEF s
    <3>2. IsFiniteSet(Spots(p, "process", o, s))
      BY <3>1, SpotsAreFinite
    <3> QED BY <3>2 DEF s
  <2> HIDE DEF A, B
  <2> QED BY <2>1, <2>2
<1>8. IsFiniteSet(UNION {A(c) : c \in Cpus}) /\ IsFiniteSet(UNION {B(o) : o \in Procs})
  <2> HIDE DEF A, B
  <2>1. \A X \in {A(c) : c \in Cpus} : IsFiniteSet(X)
    BY <1>7
  <2>2. \A X \in {B(o) : o \in Procs} : IsFiniteSet(X)
    BY <1>7
  <2> QED BY <1>6, <2>1, <2>2, FS_UNION
<1> DEFINE X == UNION {A(c) : c \in Cpus}
           Y == UNION {B(o) : o \in Procs}
<1>9. Switching(p) = X \cup Y
  BY Zenon DEF Switching, Spots
<1> HIDE DEF X, Y
<1>10. IsFiniteSet(X) /\ IsFiniteSet(Y)
  BY <1>8 DEF X, Y
<1> QED BY <1>9, <1>10, FS_Union

LEMMA PlaceGives ==
  ASSUME CoreInv, PlaceInv
  PROVE  InItsPlace
<1>1. PICK T : Typed(T)
  BY DEF CoreInv, BaseInv
<1>2. pf_dispq \in Seq(Procs) /\ sleepqueue \in Seq(Procs) /\ config \in Configs
  BY <1>1 DEF Typed
<1>3. Queued(procs, pf_dispq, sleepqueue)
  BY DEF PlaceInv, InPlace, Settings
<1>4. IsInjective(pf_dispq) /\ IsInjective(sleepqueue)
  BY <1>2, <1>3, AmongIsMember DEF Queued
<1>5. ASSUME NEW p \in Procs
      PROVE  (procs[p].stat = "PROC_RUN" <=> p \in ToSet(pf_dispq))
             /\ (procs[p].stat = "PROC_SLEEP" <=> p \in ToSet(sleepqueue))
  BY <1>2, <1>3, AmongIsMember DEF Queued
<1>6. ASSUME NEW p \in Procs, procs[p].stat = "PROC_ONPROC"
      PROVE  Cardinality(Switching(p)) + Cardinality(RunningOn(p)) >= 1
  <2> DEFINE A == OnCpu(cpus, p)   a == Cardinality(A)
             B == ToCpu(cpus, p)   b == Cardinality(B)
             D == FromList(procs, p)  d == Cardinality(D)
             S == Switching(p)  s == Cardinality(S)
             l == Bit(Leaving(procs, p))
  <2>1. a \in Nat /\ b \in Nat /\ d \in Nat /\ IsFiniteSet(A) /\ IsFiniteSet(B) /\ IsFiniteSet(D)
    BY <1>2, CountsAreNumbers
  <2>2. a + b + d = 1 + l
    BY <1>6 DEF PlaceInv, InPlace, Settings, Balanced, BalancedFor, Bit
  <2>3. l \in Nat
    BY DEF Bit
  <2>4. RunningOn(p) = A
    BY DEF RunningOn, OnCpu
  <2>5. s \in Nat /\ (S # {} => s >= 1)
    <3>1. IsFiniteSet(S)
      BY SwitchingIsFinite
    <3> HIDE DEF S
    <3>2. s \in Nat /\ (s = 0 <=> S = {})
      BY <3>1, FS_CardinalityType, FS_EmptySet
    <3> QED BY <3>2
  <2>6. B # {} \/ D # {} => S # {}
    BY SwitchOnTheWay
  <2>7. (b # 0 => B # {}) /\ (d # 0 => D # {})
    BY FS_EmptySet
  <2> HIDE DEF A, B, D, S, a, b, d, s, l
  <2>8. a >= 1 \/ b # 0 \/ d # 0
    BY <2>1, <2>2, <2>3
  <2>9. s + a >= 1
    BY <2>1, <2>5, <2>6, <2>7, <2>8
  <2> QED BY <2>4, <2>9 DEF s, a, S, A
<1> QED BY <1>4, <1>5, <1>6 DEF InItsPlace

(***************************************************************************)
(* The theorem.                                                             *)
(***************************************************************************)

\* No process is lost and none is in two places: the status of each says
\* whether it is on the dispatch queue, on the sleep queue, or on a processor
\* or on its way to one (pf_dispatch, pf_disp_sleep, pf_disp_wakeup,
\* pf_handle_cswitch_event).
THEOREM ProcessesInPlace == Spec => []InItsPlace
<1>1. Init => CoreInv /\ PlaceInv
  BY InitCore, InitPlaces
<1>2. CoreInv /\ PlaceInv /\ [Next]_vars => (CoreInv /\ PlaceInv)'
  BY StepKeeps, PlaceKept
<1>3. CoreInv /\ PlaceInv => InItsPlace
  BY PlaceGives
<1> QED BY <1>1, <1>2, <1>3, PTL DEF Spec


(***************************************************************************)
(* The requests of the generators, and the whole of PfInv.                  *)
(***************************************************************************)

\* The next request is drawn from those that may follow the last.
DrawnOn ==
    \/ gens' = gens
    \/ \E p, class, limits : \E x \in Drawn(gens[p]) :
          gens' = [gens EXCEPT ![p] = [blkno |-> x.blkno, bcount |-> x.bcount, devno |-> x.devno,
                                       class |-> class, limits |-> limits]]

LEMMA SynthioDraws ==
  ASSUME NEW c, NEW q, Handled(c, q, "SYNTHIO_EVENT", HandleSynthio)
  PROVE  DrawnOn
<1>1. PICK C, P, ev : HandleSynthio(c, C, P, q, ev)
  BY DEF Handled
<1> DEFINE p == C[c].procp
           n == synthio_iocnt + 1
<1>2. CASE MoreToMake(n)
  <2>1. \E x \in Drawn(gens[p]), draw \in Draws :
           \E listed \in {Listed(gens[p].limits, Opid(p, n), draw[1], draw[2], draw[3])} :
           \E over \in {Over(listed, draw[1])} :
              gens' = [gens EXCEPT ![p] =
                    [blkno |-> x.blkno, bcount |-> x.bcount, devno |-> x.devno, class |-> draw[2],
                     limits |-> SubSeq(listed, over + 1, Len(listed))]]
    BY <1>1, <1>2, Zenon DEF HandleSynthio
  <2> HIDE DEF p, n
  <2>2. PICK x \in Drawn(gens[p]) : \E class, limits :
           gens' = [gens EXCEPT ![p] = [blkno |-> x.blkno, bcount |-> x.bcount, devno |-> x.devno,
                                        class |-> class, limits |-> limits]]
    BY <2>1, Zenon
  <2> QED BY <2>2, Zenon DEF DrawnOn
<1>3. CASE ~MoreToMake(n)
  BY <1>1, <1>3 DEF HandleSynthio, DrawnOn
<1> QED BY <1>2, <1>3

LEMMA TurnDraws ==
  ASSUME NEW events, Turn(events)
  PROVE  DrawnOn
<1>1. PICK t \in Turns(agenda, config.atonce) : Simulate(Head(t.soon), Rest(t))
  BY DEF Turn
<1> DEFINE e == Head(t.soon)
           q == Rest(t)
           c == e.arg
<1>2. Simulate(e, q)
  BY <1>1
<1> HIDE DEF e, q
<1>3. CASE ProcessorEvent(c, q)
  <2>1. CASE Handled(c, q, "SYNTHIO_EVENT", HandleSynthio)
    BY <2>1, SynthioDraws
  <2>2. CASE Handled(c, q, "CSWITCH_EVENT", HandleCSwitch) \/ Handled(c, q, "SLEEP_EVENT", HandleSleep)
    BY <2>2, Zenon DEF Handled, HandleCSwitch, HandleSleep, DrawnOn
  <2>3. CASE Handled(c, q, "WAKEUP_EVENT", HandleWakeup) \/ Handled(c, q, "IOREQ_EVENT", HandleIoreq)
    BY <2>3, Zenon DEF Handled, HandleWakeup, HandleIoreq, DrawnOn
  <2>4. CASE Handled(c, q, "IO_ACCESS_ARRIVE", HandleAccess) \/ Handled(c, q, "IO_RESPOND_TO_DEVICE", HandleRespond)
    BY <2>4, Zenon DEF Handled, HandleAccess, HandleRespond, DrawnOn
  <2>5. CASE Handled(c, q, "IO_ACCESS_COMPLETE", HandleAccessComplete) \/ Handled(c, q, "INTEND_EVENT", HandleIntend)
    BY <2>5, Zenon DEF Handled, HandleAccessComplete, HandleIntend, DrawnOn
  <2> QED BY <1>3, <2>1, <2>2, <2>3, <2>4, <2>5 DEF ProcessorEvent
<1>4. CASE IoIntr(e, q) \/ ClockIntr(q)
  BY <1>4, Zenon DEF IoIntr, ClockIntr, Interrupted, Untouched, DrawnOn
<1> QED BY <1>2, <1>3, <1>4 DEF Simulate

\* What is drawn after a request of the device is one of the device.
LEMMA DrawnInside ==
  ASSUME config \in Configs, NEW g, g.blkno \in Int, g.bcount \in Int, Inside(g), NEW x \in Drawn(g)
  PROVE  Inside(x)
<1>1. config.blksperdisk \in Nat
  BY ConfigFacts
<1>2. Inside(x) \/ (Fits(g) /\ x = [blkno |-> g.blkno + g.bcount, bcount |-> g.bcount, devno |-> g.devno])
  BY DEF Drawn
<1>3. CASE Fits(g) /\ x = [blkno |-> g.blkno + g.bcount, bcount |-> g.bcount, devno |-> g.devno]
  <2>1. x.blkno = g.blkno + g.bcount /\ x.bcount = g.bcount
    BY <1>3
  <2> QED BY <1>1, <1>3, <2>1 DEF Inside, Fits
<1> QED BY <1>2, <1>3

LEMMA OnTheDeviceKept ==
  ASSUME CoreInv, OnTheDevice, [Next]_vars
  PROVE  OnTheDevice'
<1>1. PICK T : Typed(T)
  BY DEF CoreInv, BaseInv
<1>2. /\ config \in Configs /\ DOMAIN gens = Procs
      /\ \A p \in Procs : gens[p].blkno \in Int /\ gens[p].bcount \in Int
  <2>1. gens \in [Procs -> GenRecords(T)] /\ config \in Configs
    BY <1>1 DEF Typed
  <2> QED BY <2>1 DEF GenRecords
<1>3. config' = config /\ DrawnOn
  <2>1. CASE Next
    <3>1. PICK events : Turn(events)
      BY <2>1 DEF Next, Progress, Tick
    <3> QED BY <3>1, SameConfig, TurnDraws
  <2>2. CASE UNCHANGED vars
    BY <2>2 DEF vars, DrawnOn
  <2> QED BY <2>1, <2>2
<1>4. CASE gens' = gens
  BY <1>3, <1>4 DEF OnTheDevice, Inside
<1>5. CASE gens' # gens
  <2>1. PICK p, class, limits : \E x \in Drawn(gens[p]) :
           gens' = [gens EXCEPT ![p] = [blkno |-> x.blkno, bcount |-> x.bcount, devno |-> x.devno,
                                        class |-> class, limits |-> limits]]
    BY <1>3, <1>5 DEF DrawnOn
  <2>2. PICK x \in Drawn(gens[p]) :
           gens' = [gens EXCEPT ![p] = [blkno |-> x.blkno, bcount |-> x.bcount, devno |-> x.devno,
                                        class |-> class, limits |-> limits]]
    BY <2>1
  <2> DEFINE y == [blkno |-> x.blkno, bcount |-> x.bcount, devno |-> x.devno,
                   class |-> class, limits |-> limits]
  <2>3. y.blkno = x.blkno /\ y.bcount = x.bcount /\ gens' = [gens EXCEPT ![p] = y]
    BY <2>2
  <2> HIDE DEF y
  <2>4. ASSUME NEW r \in Procs
        PROVE  gens'[r].bcount > 0 /\ gens'[r].blkno >= 0 /\ gens'[r].blkno + gens'[r].bcount < config.blksperdisk
    <3>1. CASE r = p
      <4>1. Inside(x)
        BY <1>2, <3>1, DrawnInside DEF OnTheDevice
      <4>2. gens'[r] = y
        BY <1>2, <2>3, <3>1
      <4> QED BY <2>3, <4>1, <4>2 DEF Inside
    <3>2. CASE r # p
      <4>1. gens'[r] = gens[r]
        BY <1>2, <2>3, <3>2
      <4> QED BY <4>1 DEF OnTheDevice, Inside
    <3> QED BY <3>1, <3>2
  <2> QED BY <1>3, <2>4 DEF OnTheDevice, Inside
<1> QED BY <1>4, <1>5

LEMMA InitOnTheDevice ==
  ASSUME \A c \in Configs : c.sizes \subseteq Nat, Init
  PROVE  OnTheDevice
<1>0. config \in Configs
  BY DEF Init
<1>1. config.sizes \subseteq Nat /\ config.blksperdisk \in Nat
  BY <1>0, ConfigFacts
<1>2. PICK first \in [Procs -> First] :
         \E class, limits : gens = [p \in Procs |-> [blkno |-> first[p].blkno, bcount |-> first[p].bcount,
                          devno |-> first[p].devno, class |-> class[p], limits |-> limits[p]]]
  BY InitTables DEF FirstTables
<1>3. PICK class, limits : gens = [p \in Procs |-> [blkno |-> first[p].blkno, bcount |-> first[p].bcount,
                          devno |-> first[p].devno, class |-> class[p], limits |-> limits[p]]]
  BY <1>2
<1>4. \A p \in Procs : gens[p].blkno = first[p].blkno /\ gens[p].bcount = first[p].bcount /\ first[p] \in First
  BY <1>3
<1>5. \A x \in First : Inside(x)
  BY <1>1 DEF First, General, Inside
<1> QED BY <1>4, <1>5 DEF OnTheDevice, Inside

LEMMA CoreGives ==
  ASSUME CoreInv
  PROVE  TypeOK /\ OneCpuEvent
<1>1. PICK T : Typed(T)
  BY DEF CoreInv, BaseInv
<1>2. /\ Running /\ config.numcpus \in Nat /\ config.endiocnt \in Nat /\ 1 \in Cpus
      /\ agenda \in Agendas(QueueEvents)
  <2>1. config \in Configs /\ agenda \in Agendas(QueueEvents)
    BY <1>1 DEF Typed
  <2>2. config.numcpus \in Nat
    BY <2>1, ProcessFlowAssumption DEF ConfigurableCpus
  <2> QED BY <2>1, <2>2, ConfigFacts DEF CoreInv, BaseInv
<1>3. ASSUME NEW c \in Cpus
      PROVE  /\ cpus[c].procp \in Procs \cup {Nobody} /\ cpus[c].state \in CpuStates
             /\ \A i \in DOMAIN cpus[c].intrs : cpus[c].intrs[i].events # <<>>
  <2>1. cpus[c] \in CpuRecords
    BY <1>1 DEF Typed
  <2>2. GoodCpu(c, cpus[c])
    BY <1>2 DEF Running
  <2> QED BY <2>1, <2>2 DEF CpuRecords, GoodCpu, EndsIn
<1>4. \A p \in Procs : procs[p].stat \in {"PROC_SLEEP", "PROC_RUN", "PROC_ONPROC"}
  BY <1>1 DEF Typed, ProcTables, ProcRecords
<1>5. ToSet(pf_dispq) \subseteq Procs /\ ToSet(sleepqueue) \subseteq Procs
  <2>1. \A s \in Seq(Procs) : ToSet(s) \subseteq Procs
    BY DEF ToSet
  <2> QED BY <1>1, <2>1 DEF Typed
<1>6. synthio_iocnt \in 0..config.endiocnt + config.numcpus /\ {idlereset, stop_sim, fault} \subseteq BOOLEAN
  <2>1. /\ synthio_iocnt \in 0..config.endiocnt
        /\ idlereset \in BOOLEAN /\ stop_sim \in BOOLEAN /\ fault \in BOOLEAN
    BY <1>1 DEF Typed
  <2>2. synthio_iocnt \in 0..config.endiocnt + config.numcpus
    BY <1>2, <2>1
  <2> QED BY <2>1, <2>2
<1>7. ASSUME NEW c \in Cpus
      PROVE  /\ Pending(agenda, CpuEvent(c)) <=> cpus[c].state # "CPU_IDLE"
             /\ Cardinality({i \in DOMAIN agenda.soon : agenda.soon[i] = CpuEvent(c)}) <= 1
  <2>1. GoodEvent(c, cpus[c], agenda)
    BY <1>2 DEF Running
  <2> DEFINE A == {i \in DOMAIN agenda.soon : agenda.soon[i] = CpuEvent(c)}
  <2>2. \A i, j \in A : i = j
    BY <2>1 DEF GoodEvent, AtMostOnce
  <2> HIDE DEF A
  <2>3. Cardinality(A) <= 1
    <3>1. CASE A = {}
      BY <3>1, FS_EmptySet
    <3>2. CASE A # {}
      <4>1. PICK i : A = {i}
        BY <2>2, <3>2
      <4>2. Cardinality({i}) = 1
        BY FS_Singleton
      <4> QED BY <4>1, <4>2
    <3> QED BY <3>1, <3>2
  <2> QED BY <2>1, <2>3 DEF GoodEvent, A
<1> QED BY <1>3, <1>4, <1>5, <1>6, <1>7 DEF TypeOK, OneCpuEvent

\* What must hold of the simulator between two events, when the distribution of
\* the sizes returns none below 0: with one, the first request of a generator,
\* whose size is only asked to be other than 0, may have it
\* (synthio_initialize_generator, synthio_generatenextio).
THEOREM SimulatorIsSound ==
  ASSUME \A c \in Configs : c.sizes \subseteq Nat
  PROVE  Spec => []PfInv
<1>1. Init => CoreInv /\ PlaceInv /\ OnTheDevice
  BY InitCore, InitPlaces, InitOnTheDevice
<1>2. CoreInv /\ PlaceInv /\ OnTheDevice /\ [Next]_vars => (CoreInv /\ PlaceInv /\ OnTheDevice)'
  BY StepKeeps, PlaceKept, OnTheDeviceKept
<1>3. CoreInv /\ PlaceInv /\ OnTheDevice => PfInv
  BY PlaceGives, CoreGives DEF PfInv
<1> QED BY <1>1, <1>2, <1>3, PTL DEF Spec

(***************************************************************************)
(* Where a request is.                                                      *)
(***************************************************************************)

\* The k-th event or interrupt from the end: what is put before a list, or
\* taken from its head, leaves it where it is.
At(s, k) == s[Len(s) - k]

Has(s, types, k, o) == k \in 0..Len(s) - 1 /\ At(s, k).type \in types /\ At(s, k).arg = o

\* The events that carry a request on: the response to an interrupt raises the
\* next interrupt, unless there is none.
Bearing(cause) ==
    {"IO_ACCESS_ARRIVE", "IO_ACCESS_COMPLETE"}
      \cup (IF cause = "COMPLETION" THEN {} ELSE {"IO_RESPOND_TO_DEVICE"})

InList(P, kind, p, k, o) ==
    kind \in {"IOREQ_EVENT", "IO_ACCESS_ARRIVE"} /\ p \in Procs /\ Has(P[p].events, {kind}, k, o)

InIntrs(a, kind, p, k, o) ==
    /\ kind = "interrupt" /\ p \in 0..Len(a) - 1
    /\ Has(At(a, p).events, Bearing(At(a, p).cause), k, o)

InQueue(Q, kind, p, k, o) == kind = "queue" /\ p \in Devices /\ k = 0 /\ o \in Q[p].waiting

InAgenda(q, kind, p, k, o) == kind \in Causes /\ p = 0 /\ k = 0 /\ Pending(q, Interrupt(o, kind))

\* Request o is at place kind, p, k, where the processes are P, the interrupts a,
\* the queues Q and the agenda q.
Holds(P, a, Q, q, kind, p, k, o) ==
    \/ InList(P, kind, p, k, o)
    \/ InIntrs(a, kind, p, k, o)
    \/ InQueue(Q, kind, p, k, o)
    \/ InAgenda(q, kind, p, k, o)

\* One of the requests made so far
Made(n, o) == \E p \in Procs, m \in 0..n : m < config.endiocnt /\ o = Opid(p, m)

\* A request is in one place; when its process has issued it, it is pending.
Custody(P, a, Q, q, L, n) ==
    /\ \A o \in Int : \A kind, p, k : Holds(P, a, Q, q, kind, p, k, o) =>
          /\ kind # "IOREQ_EVENT" => \E x \in L : x.opid = o
          /\ Made(n, o)
          /\ \A kind2, p2, k2 : Holds(P, a, Q, q, kind2, p2, k2, o) => kind2 = kind /\ p2 = p /\ k2 = k
    /\ \A o \in Int, cause \in Causes : AtMostOnce(q, Interrupt(o, cause))

Now(q) == Custody(procs, cpus[1].intrs, queue, q, pendiolist, synthio_iocnt)
NowNext == Custody(procs', cpus'[1].intrs, queue', agenda', pendiolist', synthio_iocnt')

\* A step that leaves each request where it is, loses it, or puts it in one place
LEMMA CustodyMoves ==
  ASSUME NEW P, NEW a, NEW Q, NEW q, NEW L, NEW n, NEW P2, NEW a2, NEW Q2, NEW q2, NEW L2, NEW n2,
         Custody(P, a, Q, q, L, n),
         \A o : Made(n, o) => Made(n2, o),
         \A o \in Int, cause \in Causes : AtMostOnce(q2, Interrupt(o, cause)),
         \A o \in Int :
            \/ /\ \A kind, p, k : Holds(P2, a2, Q2, q2, kind, p, k, o) => Holds(P, a, Q, q, kind, p, k, o)
               /\ (\E x \in L : x.opid = o) => \E x \in L2 : x.opid = o
            \/ \E kind, p, k :
                  /\ \A kind2, p2, k2 : Holds(P2, a2, Q2, q2, kind2, p2, k2, o) => kind2 = kind /\ p2 = p /\ k2 = k
                  /\ kind # "IOREQ_EVENT" => \E x \in L2 : x.opid = o
                  /\ Made(n2, o)
            \/ \A kind, p, k : ~Holds(P2, a2, Q2, q2, kind, p, k, o)
  PROVE  Custody(P2, a2, Q2, q2, L2, n2)
BY DEF Custody

(***************************************************************************)
(* Places in lists.                                                         *)
(***************************************************************************)
LEMMA HasTail ==
  ASSUME NEW S, NEW s \in Seq(S), s # <<>>, NEW types
  PROVE  /\ \A k, o : Has(Tail(s), types, k, o) => Has(s, types, k, o) /\ k # Len(s) - 1
         /\ Head(s).type \in types => Has(s, types, Len(s) - 1, Head(s).arg)
<1> DEFINE n == Len(s)
           l == Tail(s)
<1>1. n \in Nat /\ n >= 1 /\ l \in Seq(S) /\ Len(l) = n - 1 /\ Head(s) = s[1]
      /\ \A i \in 1..n - 1 : l[i] = s[i + 1]
  OBVIOUS
<1> HIDE DEF l
<1>2. ASSUME NEW k, NEW o, Has(l, types, k, o) PROVE Has(s, types, k, o) /\ k # n - 1
  <2>1. k \in 0..n - 2 /\ At(l, k).type \in types /\ At(l, k).arg = o
    BY <1>1, <1>2 DEF Has
  <2>2. n - 1 - k \in 1..n - 1 /\ n - 1 - k + 1 = n - k
    BY <1>1, <2>1
  <2>3. At(l, k) = At(s, k)
    BY <1>1, <2>2 DEF At
  <2>4. k \in 0..n - 1 /\ k # n - 1
    BY <1>1, <2>1
  <2> QED BY <2>1, <2>3, <2>4 DEF Has
<1>3. n - 1 \in 0..n - 1 /\ At(s, n - 1) = Head(s)
  <2>1. n - (n - 1) = 1 /\ n - 1 \in 0..n - 1
    BY <1>1
  <2> QED BY <1>1, <2>1 DEF At
<1> QED BY <1>2, <1>3 DEF Has, l

LEMMA HasPrefix ==
  ASSUME NEW S, NEW u \in Seq(S), NEW s \in Seq(S), NEW types, NEW k, NEW o, Has(u \o s, types, k, o)
  PROVE  \/ Has(s, types, k, o)
         \/ \E i \in DOMAIN u : u[i].type \in types /\ u[i].arg = o /\ k = Len(s) + Len(u) - i
<1> DEFINE n == Len(s)
           m == Len(u)
           a == u \o s
<1>1. /\ n \in Nat /\ m \in Nat /\ DOMAIN u = 1..m /\ Len(a) = m + n
      /\ \A i \in 1..m + n : a[i] = IF i <= m THEN u[i] ELSE s[i - m]
  OBVIOUS
<1> HIDE DEF a
<1>2. k \in 0..m + n - 1 /\ At(a, k).type \in types /\ At(a, k).arg = o
  BY <1>1 DEF Has, a
<1>3. At(a, k) = a[m + n - k] /\ m + n - k \in 1..m + n
  BY <1>1, <1>2 DEF At
<1>4. CASE m + n - k <= m
  <2>1. m + n - k \in 1..m /\ a[m + n - k] = u[m + n - k] /\ k = n + m - (m + n - k)
    BY <1>1, <1>2, <1>3, <1>4
  <2> QED BY <1>1, <1>2, <1>3, <2>1
<1>5. CASE ~(m + n - k <= m)
  <2>1. a[m + n - k] = s[m + n - k - m] /\ m + n - k - m = n - k /\ k \in 0..n - 1
    BY <1>1, <1>2, <1>3, <1>5
  <2>2. At(a, k) = At(s, k)
    BY <1>3, <2>1 DEF At
  <2> QED BY <1>2, <2>1, <2>2 DEF Has
<1> QED BY <1>4, <1>5

LEMMA HasTime ==
  ASSUME NEW S, NEW s \in Seq(S), s # <<>>, NEW t, NEW types, NEW k, NEW o, NEW e,
         e = [s[1] EXCEPT !.time = t], e.type = s[1].type, e.arg = s[1].arg,
         Has([s EXCEPT ![1] = e], types, k, o)
  PROVE  Has(s, types, k, o)
<1> DEFINE n == Len(s)
           a == [s EXCEPT ![1] = e]
<1>1. n \in Nat /\ n >= 1 /\ DOMAIN s = 1..n /\ Len(a) = n /\ a[1] = e /\ \A i \in 1..n : i # 1 => a[i] = s[i]
  OBVIOUS
<1> HIDE DEF a
<1>2. k \in 0..n - 1 /\ At(a, k).type \in types /\ At(a, k).arg = o
  BY <1>1 DEF Has, a
<1>3. n - k \in 1..n /\ At(a, k) = a[n - k] /\ At(s, k) = s[n - k]
  BY <1>1, <1>2 DEF At
<1>4. At(a, k).type = At(s, k).type /\ At(a, k).arg = At(s, k).arg
  BY <1>1, <1>3
<1> QED BY <1>2, <1>4 DEF Has


(***************************************************************************)
(* Places in the interrupts.                                                *)
(***************************************************************************)

\* The list of the interrupt on top is s.
LEMMA IntrsSetTop ==
  ASSUME NEW a \in Seq(Intrs), a # <<>>, NEW s \in Seq(IntrEvents), a[1].cause = "CLOCK" => OnlyIntend(s)
  PROVE  \A kind, p, k, o : InIntrs(SetTop(a, s), kind, p, k, o) =>
            /\ kind = "interrupt"
            /\ \/ InIntrs(a, kind, p, k, o) /\ p # Len(a) - 1
               \/ p = Len(a) - 1 /\ Has(s, Bearing(a[1].cause), k, o)
<1> DEFINE b == SetTop(a, s)
           n == Len(a)
<1>1. n \in Nat /\ n >= 1
  OBVIOUS
<1>2. /\ Len(b) = n /\ DOMAIN a = 1..n
      /\ b[1] = [a[1] EXCEPT !.events = s]
      /\ \A i \in 1..n : i # 1 => b[i] = a[i]
      /\ \A i \in 1..n : b[i].cause = a[i].cause
  <2>1. DOMAIN a = 1..n
    OBVIOUS
  <2>2. /\ Len(b) = n
        /\ b[1] = [a[1] EXCEPT !.events = s]
        /\ \A i \in DOMAIN a : i # 1 => b[i] = a[i]
        /\ \A i \in DOMAIN a : b[i].cause = a[i].cause
    BY SetTopFacts
  <2> QED BY <2>1, <2>2
<1>3. b[1].events = s
  <2>1. a[1] \in Intrs
    BY SetTopFacts
  <2> QED BY <1>2, <2>1 DEF Intrs
<1> HIDE DEF b
<1> SUFFICES ASSUME NEW kind, NEW p, NEW k, NEW o, InIntrs(b, kind, p, k, o)
             PROVE  /\ kind = "interrupt"
                    /\ \/ InIntrs(a, kind, p, k, o) /\ p # n - 1
                       \/ p = n - 1 /\ Has(s, Bearing(a[1].cause), k, o)
  BY DEF b
<1>4. kind = "interrupt" /\ p \in 0..n - 1 /\ Has(At(b, p).events, Bearing(At(b, p).cause), k, o)
  BY <1>2 DEF InIntrs
<1>5. n - p \in 1..n /\ At(b, p) = b[n - p] /\ At(a, p) = a[n - p]
  BY <1>1, <1>2, <1>4 DEF At
<1>6. CASE p = n - 1
  <2>1. n - p = 1
    BY <1>1, <1>6
  <2>2. At(b, p).events = s /\ At(b, p).cause = a[1].cause
    BY <1>2, <1>3, <1>5, <2>1
  <2> QED BY <1>4, <1>6, <2>2
<1>7. CASE p # n - 1
  <2>1. n - p # 1
    BY <1>1, <1>4, <1>7
  <2>2. At(b, p) = At(a, p)
    BY <1>2, <1>5, <2>1
  <2>3. InIntrs(a, kind, p, k, o)
    BY <1>4, <2>2 DEF InIntrs
  <2> QED BY <1>4, <1>7, <2>3
<1> QED BY <1>6, <1>7

\* The interrupt on top is gone.
LEMMA IntrsTail ==
  ASSUME NEW a \in Seq(Intrs), a # <<>>, NEW kind, NEW p, NEW k, NEW o, InIntrs(Tail(a), kind, p, k, o)
  PROVE  InIntrs(a, kind, p, k, o)
<1> DEFINE b == Tail(a)
           n == Len(a)
<1>1. n \in Nat /\ n >= 1 /\ Len(b) = n - 1 /\ \A i \in 1..n - 1 : b[i] = a[i + 1]
  OBVIOUS
<1> HIDE DEF b
<1>2. kind = "interrupt" /\ p \in 0..n - 2 /\ Has(At(b, p).events, Bearing(At(b, p).cause), k, o)
  BY <1>1 DEF InIntrs, b
<1>3. n - 1 - p \in 1..n - 1 /\ n - 1 - p + 1 = n - p
  BY <1>1, <1>2
<1>4. At(b, p) = At(a, p)
  BY <1>1, <1>3 DEF At
<1> QED BY <1>1, <1>2, <1>4 DEF InIntrs

\* Interrupt i comes on top.
LEMMA IntrsPushed ==
  ASSUME NEW a \in Seq(Intrs), NEW i \in Intrs, NEW kind, NEW p, NEW k, NEW o,
         InIntrs(<<i>> \o a, kind, p, k, o)
  PROVE  \/ InIntrs(a, kind, p, k, o)
         \/ kind = "interrupt" /\ p = Len(a) /\ Has(i.events, Bearing(i.cause), k, o)
<1> DEFINE b == <<i>> \o a
           n == Len(a)
<1>1. n \in Nat /\ Len(b) = n + 1 /\ b[1] = i /\ \A j \in 1..n : b[j + 1] = a[j]
  OBVIOUS
<1> HIDE DEF b
<1>2. kind = "interrupt" /\ p \in 0..n /\ Has(At(b, p).events, Bearing(At(b, p).cause), k, o)
  BY <1>1 DEF InIntrs, b
<1>3. At(b, p) = b[n + 1 - p]
  BY <1>1, <1>2 DEF At
<1>4. CASE p = n
  <2>1. n + 1 - p = 1
    BY <1>1, <1>4
  <2> QED BY <1>1, <1>2, <1>3, <1>4, <2>1
<1>5. CASE p # n
  <2>1. n - p \in 1..n /\ n - p + 1 = n + 1 - p
    BY <1>1, <1>2, <1>5
  <2>2. At(b, p) = At(a, p)
    BY <1>1, <1>3, <2>1 DEF At
  <2>3. p \in 0..n - 1
    BY <1>1, <1>2, <1>5
  <2> QED BY <1>2, <2>2, <2>3 DEF InIntrs
<1> QED BY <1>4, <1>5

\* The event taken from the list of the interrupt on top
LEMMA IntrsHead ==
  ASSUME NEW a \in Seq(Intrs), a # <<>>, NEW s, s = a[1].events, s \in Seq(IntrEvents), s # <<>>,
         Head(s).type \in Bearing(a[1].cause)
  PROVE  InIntrs(a, "interrupt", Len(a) - 1, Len(s) - 1, Head(s).arg)
<1> DEFINE n == Len(a)
<1>1. n \in Nat /\ n >= 1 /\ n - (n - 1) = 1 /\ n - 1 \in 0..n - 1
  OBVIOUS
<1>2. At(a, n - 1) = a[1]
  BY <1>1 DEF At
<1>3. Has(s, Bearing(a[1].cause), Len(s) - 1, Head(s).arg)
  BY HasTail
<1> QED BY <1>1, <1>2, <1>3 DEF InIntrs


(***************************************************************************)
(* What a handler is given, and what is left after it.                      *)
(***************************************************************************)

\* The list of process r is s.
LEMMA ListHolds ==
  ASSUME NEW T, NEW P \in ProcTables(T), NEW r \in Procs, NEW s \in Seq(FlowEvents(T)),
         NEW kind, NEW p, NEW k, NEW o, InList(WithList(P, r, s), kind, p, k, o)
  PROVE  \/ p # r /\ InList(P, kind, p, k, o)
         \/ p = r /\ kind \in {"IOREQ_EVENT", "IO_ACCESS_ARRIVE"} /\ Has(s, {kind}, k, o)
<1> DEFINE R == WithList(P, r, s)
<1>1. /\ \A x \in Procs : x = r => R[x].events = s
      /\ \A x \in Procs : x # r => R[x] = P[x]
  BY ListChanged
<1> HIDE DEF R
<1>2. p \in Procs /\ kind \in {"IOREQ_EVENT", "IO_ACCESS_ARRIVE"} /\ Has(R[p].events, {kind}, k, o)
  BY DEF InList, R
<1> QED BY <1>1, <1>2 DEF InList

LEMMA FlowTakenHolds ==
  ASSUME NEW T, Typed(T), NEW c, InProc(c, T), NEW l, l = Tail(FlowList(c)),
         NEW kind, NEW p, NEW k, NEW o, InList(WithList(procs, cpus[c].procp, l), kind, p, k, o)
  PROVE  /\ InList(procs, kind, p, k, o)
         /\ p = cpus[c].procp => k # Len(FlowList(c)) - 1
<1> DEFINE r == cpus[c].procp
           s == FlowList(c)
<1>1. r \in Procs /\ s \in Seq(FlowEvents(T)) /\ s # <<>> /\ s = procs[r].events /\ l \in Seq(FlowEvents(T))
  BY FlowTail DEF InProc, EndsIn, FlowList
<1>2. procs \in ProcTables(T)
  BY DEF Typed
<1>3. \/ p # r /\ InList(procs, kind, p, k, o)
      \/ p = r /\ kind \in {"IOREQ_EVENT", "IO_ACCESS_ARRIVE"} /\ Has(l, {kind}, k, o)
  <2>1. InList(WithList(procs, r, l), kind, p, k, o)
    OBVIOUS
  <2> HIDE DEF r, s
  <2> QED BY <1>1, <1>2, <2>1, ListHolds
<1>4. Has(l, {kind}, k, o) => Has(s, {kind}, k, o) /\ k # Len(s) - 1
  BY <1>1, HasTail
<1> QED BY <1>1, <1>3, <1>4 DEF InList

\* The event that is taken, if it carries a request
LEMMA FlowHead ==
  ASSUME NEW T, NEW c, InProc(c, T), Head(FlowList(c)).type \in {"IOREQ_EVENT", "IO_ACCESS_ARRIVE"}
  PROVE  InList(procs, Head(FlowList(c)).type, cpus[c].procp, Len(FlowList(c)) - 1, Head(FlowList(c)).arg)
<1> DEFINE s == FlowList(c)
           type == Head(s).type
<1>1. cpus[c].procp \in Procs /\ s \in Seq(FlowEvents(T)) /\ s # <<>> /\ s = procs[cpus[c].procp].events
  BY DEF InProc, EndsIn, FlowList
<1>2. Has(s, {type}, Len(s) - 1, Head(s).arg)
  BY <1>1, HasTail
<1> QED BY <1>1, <1>2 DEF InList

LEMMA IntrTakenHolds ==
  ASSUME NEW T, Typed(T), NEW c, InIntr(c), Head(TopList(c)).type # "INTEND_EVENT",
         NEW l, l = Tail(TopList(c)),
         NEW kind, NEW p, NEW k, NEW o, InIntrs(SetTop(cpus[c].intrs, l), kind, p, k, o)
  PROVE  /\ InIntrs(cpus[1].intrs, kind, p, k, o)
         /\ kind = "interrupt" /\ ~(p = Len(cpus[1].intrs) - 1 /\ k = Len(TopList(c)) - 1)
<1> DEFINE a == cpus[c].intrs
           s == TopList(c)
<1>1. c = 1 /\ a # <<>> /\ s \in Seq(IntrEvents) /\ s # <<>> /\ a[1] \in Intrs
  BY DEF InIntr, EndsIn
<1>2. a \in Seq(Intrs) /\ s = a[1].events
  <2>1. 1 \in Cpus
    BY ConfigParts
  <2>2. cpus[1] \in CpuRecords
    BY <2>1 DEF Typed
  <2> QED BY <1>1, <2>2 DEF CpuRecords, TopList, InIntr
<1>3. a[1].cause # "CLOCK" /\ l \in Seq(IntrEvents)
  BY <1>1, NotOfTheClock
<1>4. /\ kind = "interrupt"
      /\ \/ InIntrs(a, kind, p, k, o) /\ p # Len(a) - 1
         \/ p = Len(a) - 1 /\ Has(l, Bearing(a[1].cause), k, o)
  <2> HIDE DEF a
  <2> QED BY <1>1, <1>2, <1>3, IntrsSetTop DEF a
<1>5. CASE InIntrs(a, kind, p, k, o) /\ p # Len(a) - 1
  BY <1>1, <1>4, <1>5
<1>6. CASE p = Len(a) - 1 /\ Has(l, Bearing(a[1].cause), k, o)
  <2>1. Has(s, Bearing(a[1].cause), k, o) /\ k # Len(s) - 1
    BY <1>1, <1>6, HasTail
  <2>2. Len(a) \in Nat /\ Len(a) >= 1 /\ Len(a) - (Len(a) - 1) = 1 /\ p \in 0..Len(a) - 1
    BY <1>1, <1>2, <1>6
  <2>3. At(a, p) = a[1]
    BY <1>6, <2>2 DEF At
  <2>4. InIntrs(a, kind, p, k, o)
    BY <1>2, <1>4, <2>1, <2>2, <2>3 DEF InIntrs
  <2> QED BY <1>1, <1>4, <2>1, <2>4
<1> QED BY <1>4, <1>5, <1>6

\* The last part of pf_handle_cpu_event moves no request.
LEMMA ContinueGives ==
  ASSUME NEW T, Typed(T), NEW c \in Cpus, NEW w \in CpuRecords, NEW P, NEW q \in Agendas(QueueEvents),
         NEW stops, NEW bad, Continue(c, CpuChanged(c, w), P, q, stops, bad),
         NEW b, c = 1 => b = w.intrs, c # 1 => b = cpus[1].intrs
  PROVE  /\ procs' = P /\ cpus'[1].intrs = b
         /\ \A Q, kind, p, k, o : Holds(procs', cpus'[1].intrs, Q, agenda', kind, p, k, o)
                                     => Holds(P, b, Q, q, kind, p, k, o)
         /\ \A o, cause : AtMostOnce(q, Interrupt(o, cause)) => AtMostOnce(agenda', Interrupt(o, cause))
<1> DEFINE next == Chain(w, P)
           idle == w.intrs = <<>> /\ w.procp = Nobody
           st   == IF next = <<>> THEN "CPU_IDLE" ELSE "CPU_IDLE_WORK"
           C    == CpuChanged(c, w)
<1>0. C[c] = w /\ cpus \in [Cpus -> CpuRecords] /\ 1 \in Cpus
  <2>1. 1 \in Cpus /\ cpus \in [Cpus -> CpuRecords]
    BY ConfigParts DEF Typed
  <2> QED BY <2>1 DEF CpuChanged
<1> HIDE DEF C
<1>1. /\ procs' = P
      /\ cpus' = [cpus EXCEPT ![c] = IF ~idle THEN w ELSE [w EXCEPT !.state = st]]
      /\ agenda' = IF idle /\ next = <<>> THEN q ELSE Put(q, CpuEvent(c), NextDelay(next))
  <2>1. Continue(c, C, P, q, stops, bad)
    BY DEF C
  <2> QED BY <1>0, <2>1 DEF Continue
<1> HIDE DEF st, next
<1>2. [w EXCEPT !.state = st].intrs = w.intrs
  BY DEF CpuRecords
<1>3. cpus'[1].intrs = b
  <2> DEFINE v == [w EXCEPT !.state = st]
  <2>1. v.intrs = w.intrs
    BY <1>2
  <2> HIDE DEF v
  <2>2. cpus' = [cpus EXCEPT ![c] = IF ~idle THEN w ELSE v]
    BY <1>1 DEF v
  <2>3. CASE c = 1
    <3>1. cpus'[1] = IF ~idle THEN w ELSE v
      BY <1>0, <2>2, <2>3
    <3> QED BY <2>1, <2>3, <3>1
  <2>4. CASE c # 1
    <3>1. cpus'[1] = cpus[1]
      BY <1>0, <2>2, <2>4
    <3> QED BY <2>4, <3>1
  <2> QED BY <2>3, <2>4
<1>4. \A o, cause : Interrupt(o, cause) # CpuEvent(c)
  BY DEF Interrupt, CpuEvent
<1>5. CpuEvent(c) \in QueueEvents
  BY DEF QueueEvents
<1>6. /\ \A o, cause : Pending(agenda', Interrupt(o, cause)) => Pending(q, Interrupt(o, cause))
      /\ \A o, cause : AtMostOnce(q, Interrupt(o, cause)) => AtMostOnce(agenda', Interrupt(o, cause))
  <2>1. CASE idle /\ next = <<>>
    BY <1>1, <2>1
  <2>2. CASE ~(idle /\ next = <<>>)
    <3>1. agenda' = Put(q, CpuEvent(c), NextDelay(next))
      BY <1>1, <2>2
    <3>2. /\ \A x : Pending(agenda', x) <=> (x = CpuEvent(c) \/ Pending(q, x))
          /\ \A x : AtMostOnce(q, x) /\ (x # CpuEvent(c) \/ ~Pending(q, x)) => AtMostOnce(agenda', x)
      BY <1>5, <3>1, PutFacts
    <3> QED BY <1>4, <3>2
  <2> QED BY <2>1, <2>2
<1> QED BY <1>1, <1>3, <1>6 DEF Holds, InAgenda

(***************************************************************************)
(* How the requests move.                                                   *)
(***************************************************************************)

\* Only request o moves, to place kind, p, k.
LEMMA OneMoves ==
  ASSUME NEW P, NEW a, NEW Q, NEW q, NEW L, NEW n, NEW P2, NEW a2, NEW Q2, NEW q2, NEW L2, NEW n2,
         Custody(P, a, Q, q, L, n),
         \A o : Made(n, o) => Made(n2, o),
         \A o \in Int, cause \in Causes : AtMostOnce(q2, Interrupt(o, cause)),
         \A o : (\E x \in L : x.opid = o) => \E x \in L2 : x.opid = o,
         NEW o1 \in Int, NEW kind0, NEW p0, NEW k0, Holds(P, a, Q, q, kind0, p0, k0, o1),
         NEW kind1, NEW p1, NEW k1, kind1 # "IOREQ_EVENT" => \E x \in L2 : x.opid = o1,
         \A kind, p, k, o : Holds(P2, a2, Q2, q2, kind, p, k, o) =>
            \/ Holds(P, a, Q, q, kind, p, k, o) /\ ~(o = o1 /\ kind = kind0 /\ p = p0 /\ k = k0)
            \/ o = o1 /\ kind = kind1 /\ p = p1 /\ k = k1
  PROVE  Custody(P2, a2, Q2, q2, L2, n2)
<1>1. /\ Made(n2, o1)
      /\ \A kind, p, k : Holds(P, a, Q, q, kind, p, k, o1) => kind = kind0 /\ p = p0 /\ k = k0
  BY DEF Custody
<1>2. ASSUME NEW o \in Int
      PROVE  \/ /\ \A kind, p, k : Holds(P2, a2, Q2, q2, kind, p, k, o) => Holds(P, a, Q, q, kind, p, k, o)
                /\ (\E x \in L : x.opid = o) => \E x \in L2 : x.opid = o
             \/ \E kind, p, k :
                   /\ \A kind2, p2, k2 : Holds(P2, a2, Q2, q2, kind2, p2, k2, o) => kind2 = kind /\ p2 = p /\ k2 = k
                   /\ kind # "IOREQ_EVENT" => \E x \in L2 : x.opid = o
                   /\ Made(n2, o)
             \/ \A kind, p, k : ~Holds(P2, a2, Q2, q2, kind, p, k, o)
  <2>1. CASE o = o1
    <3>1. \A kind2, p2, k2 : Holds(P2, a2, Q2, q2, kind2, p2, k2, o) => kind2 = kind1 /\ p2 = p1 /\ k2 = k1
      BY <1>1, <2>1
    <3> QED BY <1>1, <2>1, <3>1
  <2>2. CASE o # o1
    BY <2>2
  <2> QED BY <2>1, <2>2
<1> QED BY <1>2, CustodyMoves

\* Request o1, which was not made before, appears in one place.
LEMMA OneAppears ==
  ASSUME NEW P, NEW a, NEW Q, NEW q, NEW L, NEW n, NEW P2, NEW a2, NEW Q2, NEW q2, NEW L2, NEW n2,
         Custody(P, a, Q, q, L, n),
         \A o : Made(n, o) => Made(n2, o),
         \A o \in Int, cause \in Causes : AtMostOnce(q2, Interrupt(o, cause)),
         \A o : (\E x \in L : x.opid = o) => \E x \in L2 : x.opid = o,
         NEW o1 \in Int, ~Made(n, o1), Made(n2, o1), NEW p1, NEW k1,
         \A kind, p, k, o : Holds(P2, a2, Q2, q2, kind, p, k, o) =>
            \/ Holds(P, a, Q, q, kind, p, k, o)
            \/ o = o1 /\ kind = "IOREQ_EVENT" /\ p = p1 /\ k = k1
  PROVE  Custody(P2, a2, Q2, q2, L2, n2)
<1>1. \A kind, p, k : ~Holds(P, a, Q, q, kind, p, k, o1)
  BY DEF Custody
<1>2. ASSUME NEW o \in Int, NEW kind, NEW p, NEW k, Holds(P2, a2, Q2, q2, kind, p, k, o)
      PROVE  /\ kind # "IOREQ_EVENT" => \E x \in L2 : x.opid = o
             /\ Made(n2, o)
             /\ \A kind2, p2, k2 : Holds(P2, a2, Q2, q2, kind2, p2, k2, o) => kind2 = kind /\ p2 = p /\ k2 = k
  <2>1. CASE o = o1
    BY <1>1, <1>2, <2>1
  <2>2. CASE o # o1
    <3>1. Holds(P, a, Q, q, kind, p, k, o)
      BY <1>2, <2>2
    <3>2. /\ kind # "IOREQ_EVENT" => \E x \in L : x.opid = o
          /\ Made(n, o)
          /\ \A kind2, p2, k2 : Holds(P, a, Q, q, kind2, p2, k2, o) => kind2 = kind /\ p2 = p /\ k2 = k
      BY <3>1 DEF Custody
    <3> QED BY <2>2, <3>2
  <2> QED BY <2>1, <2>2
<1> QED BY <1>2 DEF Custody

LEMMA MadeMore ==
  ASSUME NEW n \in Int, NEW n2 \in Int, n <= n2
  PROVE  \A o : Made(n, o) => Made(n2, o)
<1>1. 0..n \subseteq 0..n2
  OBVIOUS
<1> QED BY <1>1 DEF Made

LEMMA SameLists ==
  ASSUME NEW P, NEW R, \A p \in Procs : R[p].events = P[p].events
  PROVE  \A kind, p, k, o : InList(R, kind, p, k, o) <=> InList(P, kind, p, k, o)
BY DEF InList

\* Nothing moves, but for what the last part of pf_handle_cpu_event does.
LEMMA Unmoved ==
  ASSUME NEW T, Typed(T), NEW c \in Cpus, NEW w \in CpuRecords, NEW P, NEW q \in Agendas(QueueEvents),
         NEW stops, NEW bad, Continue(c, CpuChanged(c, w), P, q, stops, bad), Now(q),
         NEW b, c = 1 => b = w.intrs, c # 1 => b = cpus[1].intrs,
         \A kind, p, k, o : InList(P, kind, p, k, o) => InList(procs, kind, p, k, o),
         \A kind, p, k, o : InIntrs(b, kind, p, k, o) => InIntrs(cpus[1].intrs, kind, p, k, o),
         queue' = queue, synthio_iocnt' = synthio_iocnt,
         \A o : (\E x \in pendiolist : x.opid = o) => \E x \in pendiolist' : x.opid = o
  PROVE  NowNext
<1>1. /\ \A Q, kind, p, k, o : Holds(procs', cpus'[1].intrs, Q, agenda', kind, p, k, o)
                                     => Holds(P, b, Q, q, kind, p, k, o)
      /\ \A o, cause : AtMostOnce(q, Interrupt(o, cause)) => AtMostOnce(agenda', Interrupt(o, cause))
  BY ContinueGives
<1>2. \A kind, p, k, o : Holds(procs', cpus'[1].intrs, queue', agenda', kind, p, k, o)
                           => Holds(procs, cpus[1].intrs, queue, q, kind, p, k, o)
  BY <1>1 DEF Holds
<1>3. \A o \in Int, cause \in Causes : AtMostOnce(agenda', Interrupt(o, cause))
  BY <1>1 DEF Now, Custody
<1> QED BY <1>2, <1>3, CustodyMoves DEF Now, NowNext

LEMMA CauseNames ==
  ASSUME NEW T, Typed(T)
  PROVE  /\ Causes \subseteq {"DISCONNECT", "RECONNECT", "COMPLETION"}
         /\ Head(config.causes) \in Causes
         /\ \A i \in DOMAIN config.causes : config.causes[i] \in Causes
<1>1. config.causes \in {<<"COMPLETION">>, <<"DISCONNECT", "RECONNECT", "COMPLETION">>}
  BY ConfigParts
<1> QED BY <1>1 DEF Causes

\* The lists P and the interrupts b are what they were, but for what was at
\* place kind0, p0, k0.
Left(P, b, kind0, p0, k0) ==
    /\ \A kind, p, k, o : InList(P, kind, p, k, o) =>
          InList(procs, kind, p, k, o) /\ ~(kind = kind0 /\ p = p0 /\ k = k0)
    /\ \A kind, p, k, o : InIntrs(b, kind, p, k, o) =>
          InIntrs(cpus[1].intrs, kind, p, k, o) /\ ~(kind = kind0 /\ p = p0 /\ k = k0)

\* A request moves from a list to the device that is to interrupt for it.
LEMMA ToTheDevice ==
  ASSUME NEW T, Typed(T), NEW c \in Cpus, NEW q \in Agendas(QueueEvents), Now(q),
         NEW w \in CpuRecords, NEW P, NEW o1 \in Int, NEW cause \in Causes, NEW r,
         r = Put(q, Interrupt(o1, cause), 1), Continue(c, CpuChanged(c, w), P, r, FALSE, FALSE),
         NEW b, c = 1 => b = w.intrs, c # 1 => b = cpus[1].intrs,
         NEW kind0 \in {"interrupt", "IO_ACCESS_ARRIVE"}, NEW p0, NEW k1,
         Holds(procs, cpus[1].intrs, queue, q, kind0, p0, k1, o1),
         Left(P, b, kind0, p0, k1),
         queue' = queue, synthio_iocnt' = synthio_iocnt, pendiolist' = pendiolist
  PROVE  NowNext
<1>1. /\ r \in Agendas(QueueEvents)
      /\ \A x : Pending(r, x) <=> (x = Interrupt(o1, cause) \/ Pending(q, x))
      /\ \A x : AtMostOnce(q, x) /\ (x # Interrupt(o1, cause) \/ ~Pending(q, x)) => AtMostOnce(r, x)
  <2>1. Interrupt(o1, cause) \in QueueEvents
    BY InterruptIsEvent
  <2> QED BY <2>1, PutFacts
<1>2. /\ \A Q, kind, p, k, o : Holds(procs', cpus'[1].intrs, Q, agenda', kind, p, k, o)
                                     => Holds(P, b, Q, r, kind, p, k, o)
      /\ \A o, x : AtMostOnce(r, Interrupt(o, x)) => AtMostOnce(agenda', Interrupt(o, x))
  BY <1>1, ContinueGives, ZenonT(60)
<1>3. ~Pending(q, Interrupt(o1, cause)) /\ \E x \in pendiolist : x.opid = o1
  <2>1. /\ Pending(q, Interrupt(o1, cause)) => Holds(procs, cpus[1].intrs, queue, q, cause, 0, 0, o1)
        /\ cause \notin {"interrupt", "IO_ACCESS_ARRIVE"}
    BY CauseNames DEF Holds, InAgenda
  <2> QED BY <2>1 DEF Now, Custody
<1>4. \A o \in Int, x \in Causes : AtMostOnce(agenda', Interrupt(o, x))
  BY <1>1, <1>2, <1>3 DEF Now, Custody
<1>5. \A kind, p, k, o : Holds(procs', cpus'[1].intrs, queue', agenda', kind, p, k, o) =>
          \/ Holds(procs, cpus[1].intrs, queue, q, kind, p, k, o) /\ ~(o = o1 /\ kind = kind0 /\ p = p0 /\ k = k1)
          \/ o = o1 /\ kind = cause /\ p = 0 /\ k = 0
  <2> SUFFICES ASSUME NEW kind, NEW p, NEW k, NEW o, Holds(procs', cpus'[1].intrs, queue', agenda', kind, p, k, o)
               PROVE  \/ /\ Holds(procs, cpus[1].intrs, queue, q, kind, p, k, o)
                         /\ ~(o = o1 /\ kind = kind0 /\ p = p0 /\ k = k1)
                      \/ o = o1 /\ kind = cause /\ p = 0 /\ k = 0
    OBVIOUS
  <2>1. InList(P, kind, p, k, o) \/ InIntrs(b, kind, p, k, o) \/ InQueue(queue, kind, p, k, o) \/ InAgenda(r, kind, p, k, o)
    BY <1>2 DEF Holds
  <2>2. CASE InList(P, kind, p, k, o)
    BY <2>2 DEF Holds, Left
  <2>3. CASE InIntrs(b, kind, p, k, o)
    BY <2>3 DEF Holds, Left
  <2>4. CASE InQueue(queue, kind, p, k, o)
    BY <2>4 DEF Holds, InQueue
  <2>5. CASE InAgenda(r, kind, p, k, o)
    <3>1. kind \in Causes /\ p = 0 /\ k = 0 /\ kind # kind0
          /\ (Interrupt(o, kind) = Interrupt(o1, cause) \/ Pending(q, Interrupt(o, kind)))
      BY <1>1, <2>5, CauseNames DEF InAgenda
    <3>2. Interrupt(o, kind) = Interrupt(o1, cause) => o = o1 /\ kind = cause
      BY DEF Interrupt
    <3> QED BY <3>1, <3>2 DEF Holds, InAgenda
  <2> QED BY <2>1, <2>2, <2>3, <2>4, <2>5
<1>6. /\ Custody(procs, cpus[1].intrs, queue, q, pendiolist, synthio_iocnt)
      /\ cause # "IOREQ_EVENT" => \E x \in pendiolist' : x.opid = o1
      /\ \A o : Made(synthio_iocnt, o) => Made(synthio_iocnt', o)
      /\ \A o : (\E x \in pendiolist : x.opid = o) => \E x \in pendiolist' : x.opid = o
  BY <1>3 DEF Now
<1>7. Custody(procs', cpus'[1].intrs, queue', agenda', pendiolist', synthio_iocnt')
  BY <1>4, <1>5, <1>6, OneMoves
<1> QED BY <1>7 DEF NowNext

\* The event on top of the interrupts that is taken
LEMMA TopLeaves ==
  ASSUME NEW T, NEW c, NEW q, Before(T, c, q), InIntr(c), Head(TopList(c)).type # "INTEND_EVENT",
         NEW l, l = Tail(TopList(c)), NEW w, w = WithTop(cpus[c], l),
         NEW p0, p0 = Len(cpus[1].intrs) - 1, NEW k0, k0 = Len(TopList(c)) - 1,
         NEW o1, o1 = Head(TopList(c)).arg
  PROVE  /\ c = 1 /\ w \in CpuRecords
         /\ WithChain(c, cpus, Tail(Chain(cpus[c], procs))) = CpuChanged(c, w)
         /\ ProcWithChain(c, cpus, procs, Tail(Chain(cpus[c], procs))) = procs
         /\ \A kind, p, k, o : InIntrs(w.intrs, kind, p, k, o) => InIntrs(cpus[1].intrs, kind, p, k, o)
         /\ Left(procs, w.intrs, "interrupt", p0, k0)
         /\ Head(TopList(c)).type \in Bearing(cpus[1].intrs[1].cause) =>
               \A q2 : Holds(procs, cpus[1].intrs, queue, q2, "interrupt", p0, k0, o1)
<1>0. Typed(T) /\ c \in Cpus /\ c = 1
  BY BeforeParts DEF InIntr
<1>1. /\ WithChain(c, cpus, Tail(Chain(cpus[c], procs))) = CpuChanged(c, w)
      /\ ProcWithChain(c, cpus, procs, Tail(Chain(cpus[c], procs))) = procs
      /\ w \in CpuRecords /\ w.intrs = SetTop(cpus[c].intrs, l)
  BY IntrTaken
<1>2. \A kind, p, k, o : InIntrs(SetTop(cpus[c].intrs, l), kind, p, k, o) =>
         /\ InIntrs(cpus[1].intrs, kind, p, k, o)
         /\ kind = "interrupt" /\ ~(p = p0 /\ k = k0)
  BY <1>0, IntrTakenHolds
<1>3. /\ cpus[1].intrs \in Seq(Intrs) /\ cpus[1].intrs # <<>> /\ TopList(c) = cpus[1].intrs[1].events
      /\ TopList(c) \in Seq(IntrEvents) /\ TopList(c) # <<>>
  BY <1>0 DEF InIntr, TopList, EndsIn, Typed, CpuRecords
<1>4. Head(TopList(c)).type \in Bearing(cpus[1].intrs[1].cause) =>
         InIntrs(cpus[1].intrs, "interrupt", p0, k0, o1)
  BY <1>3, IntrsHead
<1>5. Left(procs, w.intrs, "interrupt", p0, k0)
  BY <1>1, <1>2 DEF Left, InList
<1>6. Head(TopList(c)).type \in Bearing(cpus[1].intrs[1].cause) =>
         \A q2 : Holds(procs, cpus[1].intrs, queue, q2, "interrupt", p0, k0, o1)
  BY <1>4 DEF Holds
<1> QED BY <1>0, <1>1, <1>2, <1>5, <1>6

\* The event of a process that is taken
LEMMA FlowLeaves ==
  ASSUME NEW T, Typed(T), NEW c, InProc(c, T), NEW kind0 \in {"IOREQ_EVENT", "IO_ACCESS_ARRIVE"},
         Head(FlowList(c)).type = kind0,
         NEW P, P = WithList(procs, cpus[c].procp, Tail(FlowList(c))),
         NEW p0, p0 = cpus[c].procp, NEW k0, k0 = Len(FlowList(c)) - 1, NEW o1, o1 = Head(FlowList(c)).arg
  PROVE  /\ Left(P, cpus[1].intrs, kind0, p0, k0)
         /\ \A q : Holds(procs, cpus[1].intrs, queue, q, kind0, p0, k0, o1)
<1>1. \A kind, p, k, o : InList(P, kind, p, k, o) => InList(procs, kind, p, k, o) /\ ~(p = p0 /\ k = k0)
  BY FlowTakenHolds
<1>2. InList(procs, kind0, p0, k0, o1)
  BY FlowHead
<1>3. Left(P, cpus[1].intrs, kind0, p0, k0)
  BY <1>1 DEF Left, InIntrs
<1> QED BY <1>2, <1>3 DEF Holds

\* pf_handle_io_internal_event: the access moves from its list to the device.
LEMMA AccessMoves ==
  ASSUME NEW T, NEW c, NEW q, Before(T, c, q), Now(q), Handled(c, q, "IO_ACCESS_ARRIVE", HandleAccess)
  PROVE  NowNext
<1> DEFINE k == cpus[c]
           chain == Chain(k, procs)
           o1 == Head(chain).arg
           r == Scheduled(q, o1)
           cause == Head(config.causes)
<1>0. /\ Typed(T) /\ Running /\ ~stop_sim /\ c \in Cpus /\ q \in Agendas(QueueEvents) /\ OthersGood(c, q)
  BY BeforeParts
<1>1. /\ chain # <<>> /\ Head(chain).type = "IO_ACCESS_ARRIVE"
      /\ Continue(c, WithChain(c, cpus, Tail(chain)), ProcWithChain(c, cpus, procs, Tail(chain)), r, FALSE, FALSE)
      /\ queue' = queue /\ synthio_iocnt' = synthio_iocnt /\ pendiolist' = pendiolist
  BY DEF Handled, HandleAccess
<1>2. InIntr(c) \/ InProc(c, T) \/ InIdle(c)
  BY <1>0, <1>1, Modes
<1>3. cause \in Causes
  BY <1>0, CauseNames
<1>4. r = Put(q, Interrupt(o1, cause), 1)
  BY DEF Scheduled
<1>5. CASE InIntr(c)
  <2> DEFINE w == WithTop(k, Tail(TopList(c)))
             p0 == Len(cpus[1].intrs) - 1
             k0 == Len(TopList(c)) - 1
  <2>1. /\ chain = TopList(c) /\ Head(TopList(c)).type = "IO_ACCESS_ARRIVE" /\ o1 \in Int
        /\ Head(TopList(c)).type \in Bearing(cpus[1].intrs[1].cause)
        /\ Head(TopList(c)).type # "INTEND_EVENT"
    BY <1>1, <1>5 DEF InIntr, IntrEvents, Bearing
  <2>2. /\ c = 1 /\ w \in CpuRecords
        /\ WithChain(c, cpus, Tail(chain)) = CpuChanged(c, w) /\ ProcWithChain(c, cpus, procs, Tail(chain)) = procs
        /\ Left(procs, w.intrs, "interrupt", p0, k0)
        /\ Head(TopList(c)).type \in Bearing(cpus[1].intrs[1].cause) =>
              Holds(procs, cpus[1].intrs, queue, q, "interrupt", p0, k0, o1)
    <3>1. Head(TopList(c)).type # "INTEND_EVENT" /\ o1 = Head(TopList(c)).arg
      BY <2>1
    <3> QED BY <1>5, <3>1, TopLeaves
  <2> HIDE DEF w, p0, k0, o1, r, chain, cause
  <2>3. Continue(c, CpuChanged(c, w), procs, r, FALSE, FALSE)
    BY <1>1, <2>2
  <2> QED BY <1>0, <1>1, <1>3, <1>4, <2>1, <2>2, <2>3, ToTheDevice
<1>6. CASE InProc(c, T)
  <2> DEFINE P == WithList(procs, k.procp, Tail(FlowList(c)))
             p0 == k.procp
             k0 == Len(FlowList(c)) - 1
  <2>1. /\ chain = FlowList(c) /\ Head(FlowList(c)).type = "IO_ACCESS_ARRIVE" /\ o1 \in Int
        /\ Head(FlowList(c)).arg = o1 /\ (c = 1 => cpus[1].intrs = k.intrs)
    BY <1>1, <1>6 DEF InProc, FlowEvents
  <2>2. /\ WithChain(c, cpus, Tail(chain)) = CpuChanged(c, k) /\ ProcWithChain(c, cpus, procs, Tail(chain)) = P
        /\ k \in CpuRecords
    BY <1>6, <2>1, FlowTaken
  <2>3. /\ Left(P, cpus[1].intrs, "IO_ACCESS_ARRIVE", p0, k0)
        /\ Holds(procs, cpus[1].intrs, queue, q, "IO_ACCESS_ARRIVE", p0, k0, o1)
    BY <1>0, <1>6, <2>1, FlowLeaves
  <2> HIDE DEF P, p0, k0, o1, r, chain, cause
  <2>4. Continue(c, CpuChanged(c, k), P, r, FALSE, FALSE)
    BY <1>1, <2>2
  <2> QED BY <1>0, <1>1, <1>3, <1>4, <2>1, <2>2, <2>3, <2>4, ToTheDevice
<1>7. CASE InIdle(c)
  BY <1>1, <1>7 DEF InIdle, IdleEvents
<1> QED BY <1>2, <1>5, <1>6, <1>7

\* Events are put before the list of process x.
LEMMA PutBefore ==
  ASSUME NEW T, NEW P \in ProcTables(T), NEW R, NEW x \in Procs, NEW u \in Seq(FlowEvents(T)),
         R[x].events = u \o P[x].events, \A y \in Procs : y # x => R[y].events = P[y].events,
         NEW kind, NEW p, NEW k, NEW o, InList(R, kind, p, k, o)
  PROVE  \/ InList(P, kind, p, k, o)
         \/ /\ kind \in {"IOREQ_EVENT", "IO_ACCESS_ARRIVE"} /\ p = x
            /\ \E i \in DOMAIN u : u[i].type = kind /\ u[i].arg = o /\ k = Len(P[x].events) + Len(u) - i
<1> DEFINE s == P[x].events
<1>1. s \in Seq(FlowEvents(T))
  BY ProcRecordParts DEF ProcTables
<1>2. kind \in {"IOREQ_EVENT", "IO_ACCESS_ARRIVE"} /\ p \in Procs /\ Has(R[p].events, {kind}, k, o)
  BY DEF InList
<1>3. CASE p # x
  BY <1>2, <1>3 DEF InList
<1>4. CASE p = x
  <2>1. Has(u \o s, {kind}, k, o)
    BY <1>2, <1>4
  <2> DEFINE E == FlowEvents(T)
             types == {kind}
  <2>2. s \in Seq(E) /\ u \in Seq(E) /\ Has(u \o s, types, k, o)
    BY <1>1, <2>1
  <2> HIDE DEF s, E, types
  <2>3. Has(s, types, k, o) \/ \E i \in DOMAIN u : u[i].type \in types /\ u[i].arg = o /\ k = Len(s) + Len(u) - i
    BY <2>2, HasPrefix
  <2> QED BY <1>2, <1>4, <2>3 DEF InList, s, types
<1> QED BY <1>3, <1>4

LEMMA CSwitchMovesNothing ==
  ASSUME NEW T, NEW c, NEW q, Before(T, c, q), config' = config, Now(q),
         NEW k \in CpuRecords, k.intrs = <<>>, cpus[c].intrs = <<>>, NEW P \in ProcTables(T),
         \A p \in Procs : EndsIn(P[p].events, "SYNTHIO_EVENT"),
         \A p \in Procs : P[p].chan = procs[p].chan,
         \A kind, p, n, o : InList(P, kind, p, n, o) => InList(procs, kind, p, n, o),
         NEW ev, ev.arg \in Procs \cup {Nobody},
         HandleCSwitch(c, CpuChanged(c, k), P, q, ev)
  PROVE  NowNext
<1>1. SwitchGoesOn(T, c, q, k, P, ev)
  BY CSwitchGoesOn
<1>2. PICK i \in Seq(IdleEvents), R \in ProcTables(T) :
         /\ Continue(c, CpuChanged(c, Switched(k, ev.arg, i)), R, q, FALSE, FALSE)
         /\ \A p \in Procs : EndsIn(R[p].events, "SYNTHIO_EVENT") /\ R[p].chan = procs[p].chan
                            /\ R[p].events = P[p].events
         /\ pf_dispq' \in Seq(Procs)
         /\ pf_dispq' # <<>> => pf_dispq # <<>> /\ (ev.arg # Nobody \/ i # <<>>)
  BY <1>1 DEF SwitchGoesOn
<1> DEFINE w == Switched(k, ev.arg, i)
<1>3. w \in CpuRecords /\ w.intrs = k.intrs
  BY SwitchedFacts
<1>4. queue' = queue /\ synthio_iocnt' = synthio_iocnt /\ pendiolist' = pendiolist
  BY DEF HandleCSwitch
<1>5. Typed(T) /\ c \in Cpus /\ q \in Agendas(QueueEvents)
  BY BeforeParts
<1>6. \A kind, p, n, o : InList(R, kind, p, n, o) => InList(procs, kind, p, n, o)
  BY <1>2, SameLists
<1>7. Continue(c, CpuChanged(c, w), R, q, FALSE, FALSE)
  BY <1>2
<1> HIDE DEF w
<1>8. c = 1 => cpus[1].intrs = w.intrs
  BY <1>3
<1> QED BY <1>3, <1>4, <1>5, <1>6, <1>7, <1>8, Unmoved, ZenonT(120)

\* pf_handle_cswitch_event
LEMMA CSwitchMoves ==
  ASSUME NEW T, NEW c, NEW q, Before(T, c, q), Now(q), Handled(c, q, "CSWITCH_EVENT", HandleCSwitch)
  PROVE  NowNext
<1> DEFINE k == cpus[c]
           chain == Chain(k, procs)
<1>0. /\ Typed(T) /\ Running /\ ~stop_sim /\ c \in Cpus
      /\ \A p \in Procs : EndsIn(procs[p].events, "SYNTHIO_EVENT")
  BY BeforeParts
<1>1. /\ chain # <<>> /\ Head(chain).type = "CSWITCH_EVENT" /\ config' = config
      /\ HandleCSwitch(c, WithChain(c, cpus, Tail(chain)), ProcWithChain(c, cpus, procs, Tail(chain)),
                       q, Head(chain))
  BY DEF Handled
<1>2. InIntr(c) \/ InProc(c, T) \/ InIdle(c)
  BY <1>0, <1>1, Modes
<1>3. CASE InIntr(c)
  BY <1>1, <1>3 DEF InIntr, IntrEvents, IntrTypes
<1>4. CASE InProc(c, T)
  <2> DEFINE l == Tail(FlowList(c))
             P == WithList(procs, k.procp, l)
  <2>1. chain = FlowList(c) /\ k.intrs = <<>> /\ Head(chain) \in FlowEvents(T)
    BY <1>4 DEF InProc
  <2>2. Head(chain).arg \in Procs \cup {Nobody}
    BY <1>1, <2>1 DEF FlowEvents
  <2>3. /\ WithChain(c, cpus, Tail(chain)) = CpuChanged(c, k) /\ ProcWithChain(c, cpus, procs, Tail(chain)) = P
        /\ P \in ProcTables(T)
        /\ \A p \in Procs : EndsIn(P[p].events, "SYNTHIO_EVENT")
        /\ \A p \in Procs : P[p].chan = procs[p].chan
        /\ k \in CpuRecords
    BY <1>1, <1>4, <2>1, FlowTaken
  <2>4. HandleCSwitch(c, CpuChanged(c, k), P, q, Head(chain))
    BY <1>1, <2>3
  <2>5. \A kind, p, n, o : InList(P, kind, p, n, o) => InList(procs, kind, p, n, o)
    BY <1>0, <1>4, FlowTakenHolds
  <2> HIDE DEF P, chain
  <2> QED BY <1>1, <2>1, <2>2, <2>3, <2>4, <2>5, CSwitchMovesNothing
<1>5. CASE InIdle(c)
  <2> DEFINE n == [k EXCEPT !.idleevents = Tail(k.idleevents)]
  <2>1. /\ chain = k.idleevents /\ k.intrs = <<>> /\ Head(chain) \in IdleEvents
        /\ WithChain(c, cpus, Tail(chain)) = CpuChanged(c, n) /\ ProcWithChain(c, cpus, procs, Tail(chain)) = procs
        /\ k.idleevents \in Seq(IdleEvents) /\ k.idleevents # <<>>
    BY <1>5 DEF InIdle
  <2>2. Head(chain).arg \in Procs \cup {Nobody}
    BY <2>1 DEF IdleEvents
  <2>3. k \in CpuRecords /\ procs \in ProcTables(T)
    BY <1>0 DEF Typed
  <2>4. Tail(k.idleevents) \in Seq(IdleEvents)
    BY <2>1
  <2>5. n \in CpuRecords /\ n.intrs = <<>>
    BY <2>1, <2>3, <2>4 DEF CpuRecords
  <2>6. HandleCSwitch(c, CpuChanged(c, n), procs, q, Head(chain))
    BY <1>1, <2>1
  <2> HIDE DEF n, chain
  <2> QED BY <1>0, <1>1, <2>1, <2>2, <2>3, <2>5, <2>6, CSwitchMovesNothing
<1> QED BY <1>2, <1>3, <1>4, <1>5

\* pf_handle_sleep_event
LEMMA SleepMoves ==
  ASSUME NEW T, NEW c, NEW q, Before(T, c, q), Now(q), Handled(c, q, "SLEEP_EVENT", HandleSleep)
  PROVE  NowNext
<1> DEFINE k == cpus[c]
           chain == Chain(k, procs)
           l == Tail(FlowList(c))
           P == WithList(procs, k.procp, l)
           ev == Head(chain)
           x == k.procp
<1>0. /\ Typed(T) /\ c \in Cpus /\ q \in Agendas(QueueEvents)
  BY BeforeParts
<1>1. /\ chain # <<>> /\ Head(chain).type = "SLEEP_EVENT" /\ config' = config
      /\ HandleSleep(c, WithChain(c, cpus, Tail(chain)), ProcWithChain(c, cpus, procs, Tail(chain)), q, ev)
  BY DEF Handled
<1>2. /\ InProc(c, T) /\ chain = FlowList(c) /\ ev.arg \in Int /\ k.intrs = <<>> /\ x \in Procs /\ x # Nobody
      /\ Head(FlowList(c)).type # "SYNTHIO_EVENT"
  BY <1>1, FlowOnly
<1>3. /\ WithChain(c, cpus, Tail(chain)) = CpuChanged(c, k) /\ ProcWithChain(c, cpus, procs, Tail(chain)) = P
      /\ P \in ProcTables(T) /\ k \in CpuRecords
      /\ \A o \in Procs : EndsIn(P[o].events, "SYNTHIO_EVENT")
  BY <1>2, FlowTaken
<1>4. HandleSleep(c, CpuChanged(c, k), P, q, ev) /\ CpuChanged(c, k)[c] = k
  BY <1>0, <1>1, <1>3, CpuChangedFacts
<1>5. \A kind, p, n, o : InList(P, kind, p, n, o) => InList(procs, kind, p, n, o)
  BY <1>0, <1>2, FlowTakenHolds
<1>6. pendiolist \in SUBSET IoRecords
  BY <1>0 DEF Typed
<1> HIDE DEF P, ev, chain, l
<1>7. synthio_iocnt' = synthio_iocnt /\ queue' = queue
  BY <1>4 DEF HandleSleep
<1>8. c = 1 => cpus[1].intrs = k.intrs
  OBVIOUS
<1>9. CASE \E y \in pendiolist : y.opid = ev.arg
  <2> DEFINE R == Asleep(P, x, ev.arg)
             u == <<CSwitch(NextProc)>>
  <2>1. /\ pendiolist' = Wanted(ev.arg)
        /\ Continue(c, CpuChanged(c, k), R, q, FALSE, FALSE)
    BY <1>4, <1>9 DEF HandleSleep
  <2>2. /\ R[x].events = u \o P[x].events
        /\ \A o \in Procs : o # x => R[o].events = P[o].events
    <3> DEFINE a == ev.arg
    <3>1. a \in Int
      BY <1>2
    <3> HIDE DEF a, x
    <3>2. /\ \A o \in Procs : o = x => Asleep(P, x, a)[o].events = <<CSwitch(NextProc)>> \o P[o].events
          /\ \A o \in Procs : o # x => Asleep(P, x, a)[o].events = P[o].events
      BY <1>0, <1>2, <1>3, <3>1, AsleepFacts
    <3> QED BY <1>2, <3>2 DEF a
  <2>3. u \in Seq(FlowEvents(T)) /\ DOMAIN u = {1} /\ u[1].type = "CSWITCH_EVENT"
    <3>1. CSwitch(NextProc) \in FlowEvents(T)
      <4>1. NextProc \in Procs \cup {Nobody} /\ 0 \in T
        BY <1>0, NextProcFacts DEF Typed
      <4>2. NextProc \in Int
        BY <4>1, ProcsAreNumbers DEF Nobody
      <4>3. CSwitch(NextProc) = [type |-> "CSWITCH_EVENT", time |-> 0, arg |-> NextProc]
        BY DEF CSwitch, Event
      <4> QED BY <4>1, <4>2, <4>3 DEF FlowEvents, FlowTypes
    <3>2. CSwitch(NextProc).type = "CSWITCH_EVENT"
      BY DEF CSwitch, Event
    <3> QED BY <3>1, <3>2
  <2> HIDE DEF R, u
  <2>4. ASSUME NEW kind, NEW p, NEW n, NEW o, InList(R, kind, p, n, o)
        PROVE  InList(P, kind, p, n, o)
    <3>1. \/ InList(P, kind, p, n, o)
          \/ /\ kind \in {"IOREQ_EVENT", "IO_ACCESS_ARRIVE"} /\ p = x
             /\ \E i \in DOMAIN u : u[i].type = kind /\ u[i].arg = o /\ n = Len(P[x].events) + Len(u) - i
      <4> HIDE DEF x
      <4>1. /\ P \in ProcTables(T) /\ x \in Procs /\ u \in Seq(FlowEvents(T)) /\ R[x].events = u \o P[x].events
            /\ \A y \in Procs : y # x => R[y].events = P[y].events
        BY <1>2, <1>3, <2>2, <2>3
      <4> QED BY <2>4, <4>1, PutBefore
    <3> QED BY <2>3, <3>1
  <2>5. \A kind, p, n, o : InList(R, kind, p, n, o) => InList(procs, kind, p, n, o)
    BY <1>5, <2>4
  <2>6. \A o : (\E y \in pendiolist : y.opid = o) => \E y \in pendiolist' : y.opid = o
    <3> SUFFICES ASSUME NEW o, NEW y \in pendiolist, y.opid = o PROVE \E z \in pendiolist' : z.opid = o
      OBVIOUS
    <3>1. [y EXCEPT !.wanted = @ \/ y.opid = ev.arg].opid = o
      BY <1>6 DEF IoRecords
    <3>2. [y EXCEPT !.wanted = @ \/ y.opid = ev.arg] \in pendiolist'
      BY <2>1 DEF Wanted
    <3> QED BY <3>1, <3>2
  <2> QED BY <1>0, <1>3, <1>7, <1>8, <2>1, <2>5, <2>6, Unmoved, ZenonT(120)
<1>10. CASE ~\E y \in pendiolist : y.opid = ev.arg
  <2>1. pendiolist' = pendiolist /\ Continue(c, CpuChanged(c, k), P, q, FALSE, FALSE)
    BY <1>4, <1>10 DEF HandleSleep
  <2> QED BY <1>0, <1>3, <1>5, <1>7, <1>8, <2>1, Unmoved
<1> QED BY <1>9, <1>10

\* pf_handle_wakeup_event
LEMMA WakeupMoves ==
  ASSUME NEW T, NEW c, NEW q, Before(T, c, q), Now(q), Handled(c, q, "WAKEUP_EVENT", HandleWakeup)
  PROVE  NowNext
<1> DEFINE k == cpus[c]
           chain == Chain(k, procs)
           ev == Head(chain)
           l == Tail(TopList(c))
           w == WithTop(k, l)
           woken == Selected(sleepqueue, SleepersOn(procs, ev.arg))
           R == Woken(procs, woken)
<1>0. /\ Typed(T) /\ c \in Cpus /\ q \in Agendas(QueueEvents)
  BY BeforeParts
<1>1. /\ chain # <<>> /\ Head(chain).type = "WAKEUP_EVENT"
      /\ HandleWakeup(c, WithChain(c, cpus, Tail(chain)), ProcWithChain(c, cpus, procs, Tail(chain)), q, ev)
  BY DEF Handled
<1>2. InIntr(c) /\ chain = TopList(c) /\ Head(TopList(c)).type # "INTEND_EVENT"
  BY <1>1, IntrOnly
<1>3. /\ c = 1 /\ w \in CpuRecords
      /\ WithChain(c, cpus, Tail(chain)) = CpuChanged(c, w) /\ ProcWithChain(c, cpus, procs, Tail(chain)) = procs
      /\ \A kind, p, n, o : InIntrs(w.intrs, kind, p, n, o) => InIntrs(cpus[1].intrs, kind, p, n, o)
  BY <1>2, TopLeaves
<1>4. HandleWakeup(c, CpuChanged(c, w), procs, q, ev)
  BY <1>1, <1>3
<1> HIDE DEF w
<1>5. /\ Continue(c, CpuChanged(c, w), R, q, FALSE, FALSE)
      /\ queue' = queue /\ synthio_iocnt' = synthio_iocnt /\ pendiolist' = pendiolist
  BY <1>4 DEF HandleWakeup
<1>6. \A o \in Procs : R[o].events = procs[o].events
  <2>1. procs \in ProcTables(T) /\ sleepqueue \in Seq(Procs)
    BY <1>0 DEF Typed
  <2>2. woken \in Seq(Procs)
    <3>1. SleepersOn(procs, ev.arg) \in SUBSET DOMAIN sleepqueue
      BY DEF SleepersOn
    <3> QED BY <2>1, <3>1, SelectedFacts
  <2> HIDE DEF woken
  <2> QED BY <2>1, <2>2, WokenFacts
<1> HIDE DEF R
<1>7. \A kind, p, n, o : InList(R, kind, p, n, o) => InList(procs, kind, p, n, o)
  BY <1>6, SameLists
<1> QED BY <1>0, <1>3, <1>5, <1>7, Unmoved

\* pf_handle_intend_event
LEMMA IntendMoves ==
  ASSUME NEW T, NEW c, NEW q, Before(T, c, q), Now(q), Handled(c, q, "INTEND_EVENT", HandleIntend)
  PROVE  NowNext
<1> DEFINE k == cpus[c]
           chain == Chain(k, procs)
<1>0. /\ Typed(T) /\ Running /\ c \in Cpus /\ q \in Agendas(QueueEvents) /\ k \in CpuRecords
  BY BeforeParts
<1>1. /\ chain # <<>> /\ Head(chain).type = "INTEND_EVENT"
      /\ queue' = queue /\ synthio_iocnt' = synthio_iocnt /\ pendiolist' = pendiolist
  BY DEF Handled, HandleIntend
<1>2. InIntr(c) /\ c = 1 /\ Head(TopList(c)).type = "INTEND_EVENT"
  BY <1>1, IntrOnly
<1>3. IntendsOn(T, c, q)
  BY IntendGoesOn
<1>4. PICK i \in Seq(IdleEvents), R \in ProcTables(T), stops \in BOOLEAN :
          /\ Continue(c, CpuChanged(c, Returned(cpus[c], i)), R, q, stops, FALSE)
          /\ i = cpus[c].idleevents \/ (Tail(cpus[c].intrs) = <<>> /\ cpus[c].procp = Nobody)
          /\ \A p \in Procs : EndsIn(R[p].events, "SYNTHIO_EVENT") /\ R[p].chan = procs[p].chan
                            /\ R[p].events = procs[p].events
          /\ pf_dispq' \in Seq(Procs)
          /\ pf_dispq' # <<>> => ~(Tail(cpus[c].intrs) = <<>> /\ cpus[c].procp = Nobody) \/ i # <<>>
  BY <1>3 DEF IntendsOn
<1> DEFINE w == Returned(k, i)
<1>5. w \in CpuRecords /\ w.intrs = Tail(k.intrs)
  BY <1>0, <1>2, <1>4, ReturnedFacts
<1>6. Continue(c, CpuChanged(c, w), R, q, stops, FALSE)
  BY <1>4
<1> HIDE DEF w
<1>7. \A kind, p, n, o : InList(R, kind, p, n, o) => InList(procs, kind, p, n, o)
  BY <1>4, SameLists
<1>8. \A kind, p, n, o : InIntrs(w.intrs, kind, p, n, o) => InIntrs(cpus[1].intrs, kind, p, n, o)
  <2>1. k.intrs \in Seq(Intrs) /\ k.intrs # <<>>
    BY <1>0, <1>2 DEF CpuRecords, InIntr
  <2> DEFINE a == k.intrs
  <2> HIDE DEF a
  <2>2. \A kind, p, n, o : InIntrs(Tail(a), kind, p, n, o) => InIntrs(a, kind, p, n, o)
    BY <2>1, IntrsTail DEF a
  <2> QED BY <1>2, <1>5, <2>2 DEF a
<1>9. CASE stops = TRUE
  <2>1. Continue(c, CpuChanged(c, w), R, q, TRUE, FALSE)
    BY <1>6, <1>9
  <2> QED BY <1>0, <1>1, <1>2, <1>5, <1>7, <1>8, <2>1, Unmoved
<1>10. CASE stops = FALSE
  <2>1. Continue(c, CpuChanged(c, w), R, q, FALSE, FALSE)
    BY <1>6, <1>10
  <2> QED BY <1>0, <1>1, <1>2, <1>5, <1>7, <1>8, <2>1, Unmoved
<1> QED BY <1>9, <1>10

\* iodriver_respond_to_device: the device goes on to its next interrupt, or has
\* had its last.
LEMMA RespondMoves ==
  ASSUME NEW T, NEW c, NEW q, Before(T, c, q), Now(q), Handled(c, q, "IO_RESPOND_TO_DEVICE", HandleRespond)
  PROVE  NowNext
<1> DEFINE k == cpus[c]
           chain == Chain(k, procs)
           o1 == Head(chain).arg
           C == WithChain(c, cpus, Tail(chain))
           cause == Head(C[c].intrs).cause
           next == IF config.consttime \/ cause = "COMPLETION" THEN q ELSE Put(q, Interrupt(o1, NextCause(cause)), 1)
           l == Tail(TopList(c))
           w == WithTop(k, l)
           p0 == Len(cpus[1].intrs) - 1
           k1 == Len(TopList(c)) - 1
<1>0. /\ Typed(T) /\ c \in Cpus /\ q \in Agendas(QueueEvents)
  BY BeforeParts
<1>1. /\ chain # <<>> /\ Head(chain).type = "IO_RESPOND_TO_DEVICE"
      /\ HandleRespond(c, C, ProcWithChain(c, cpus, procs, Tail(chain)), q, Head(chain))
  BY DEF Handled
<1>2. /\ InIntr(c) /\ chain = TopList(c) /\ o1 \in Int /\ c = 1
      /\ Head(TopList(c)).type = "IO_RESPOND_TO_DEVICE"
  BY <1>1, IntrOnly
<1>3. /\ w \in CpuRecords /\ C = CpuChanged(c, w) /\ ProcWithChain(c, cpus, procs, Tail(chain)) = procs
      /\ \A kind, p, n, o : InIntrs(w.intrs, kind, p, n, o) => InIntrs(cpus[1].intrs, kind, p, n, o)
      /\ Left(procs, w.intrs, "interrupt", p0, k1)
      /\ Head(TopList(c)).type \in Bearing(cpus[1].intrs[1].cause) =>
            Holds(procs, cpus[1].intrs, queue, q, "interrupt", p0, k1, o1)
  <2>1. Head(TopList(c)).type # "INTEND_EVENT"
    BY <1>2
  <2> QED BY <1>2, <2>1, TopLeaves
<1>4. cause = cpus[1].intrs[1].cause /\ cause \in Causes
  BY <1>2, TopCause
<1>5. /\ Continue(c, C, ProcWithChain(c, cpus, procs, Tail(chain)), next, FALSE, FALSE)
      /\ queue' = queue /\ synthio_iocnt' = synthio_iocnt /\ pendiolist' = pendiolist
  BY <1>1 DEF HandleRespond, NextCause
<1> HIDE DEF cause
<1>6. Continue(c, CpuChanged(c, w), procs, next, FALSE, FALSE)
  BY <1>3, <1>5
<1> HIDE DEF w, C
<1>7. CASE config.consttime \/ cause = "COMPLETION"
  <2>1. Continue(c, CpuChanged(c, w), procs, q, FALSE, FALSE)
    BY <1>6, <1>7
  <2> QED BY <1>0, <1>2, <1>3, <1>5, <2>1, Unmoved
<1>8. CASE ~(config.consttime \/ cause = "COMPLETION")
  <2>1. Continue(c, CpuChanged(c, w), procs, next, FALSE, FALSE) /\ next = Put(q, Interrupt(o1, NextCause(cause)), 1)
    BY <1>6, <1>8
  <2>2. NextCause(cause) \in Causes
    BY <1>0, <1>4, <1>8, NextCauseFacts
  <2> HIDE DEF p0, k1, o1
  <2>3. Holds(procs, cpus[1].intrs, queue, q, "interrupt", p0, k1, o1)
    <3>1. Head(TopList(c)).type \in Bearing(cpus[1].intrs[1].cause)
      BY <1>2, <1>4, <1>8 DEF Bearing
    <3> QED BY <1>3, <3>1
  <2> HIDE DEF next
  <2> QED BY <1>0, <1>2, <1>3, <1>5, <2>1, <2>2, <2>3, ToTheDevice
<1> QED BY <1>7, <1>8


\* What is handed out leaves the queue.
LEMMA HandedOutLeaves ==
  ASSUME NEW T, Typed(T), NEW d \in Devices, NEW W \in SUBSET Int, NEW h \in HandedOut(d, W)
  PROVE  \/ h[2] = <<>> /\ h[1].waiting = W
         \/ \E o \in W : h[2] = <<Access(o)>> /\ h[1].waiting = W \ {o}
<1>1. queue[d] \in [waiting : SUBSET Int, out : SUBSET Int]
  BY DEF Typed
<1>2. CASE queue[d].out = {} /\ W # {}
  BY <1>2 DEF HandedOut
<1>3. CASE ~(queue[d].out = {} /\ W # {})
  <2> DEFINE r == [queue[d] EXCEPT !.waiting = W]
  <2>1. h = <<r, <<>>>>
    BY <1>3 DEF HandedOut
  <2>2. r.waiting = W
    BY <1>1
  <2> QED BY <2>1, <2>2
<1> QED BY <1>2, <1>3

\* The request of the process is put in the queue of device d.
LEMMA IntoTheQueue ==
  ASSUME NEW T, Typed(T), NEW q, Now(q), NEW P, NEW d \in Devices, NEW o1 \in Int, NEW p0, NEW k0,
         Left(P, cpus[1].intrs, "IOREQ_EVENT", p0, k0),
         Holds(procs, cpus[1].intrs, queue, q, "IOREQ_EVENT", p0, k0, o1),
         NEW W, W = queue[d].waiting \cup {o1}, NEW L, L = pendiolist \cup {Pend(p0, o1)}
  PROVE  Custody(P, cpus[1].intrs, [queue EXCEPT ![d].waiting = W], q, L, synthio_iocnt)
<1> DEFINE Q == [queue EXCEPT ![d].waiting = W]
           a == cpus[1].intrs
<1>1. queue \in [Devices -> [waiting : SUBSET Int, out : SUBSET Int]]
  BY DEF Typed
<1>2. Q[d].waiting = W /\ \A e \in Devices : e # d => Q[e] = queue[e]
  BY <1>1
<1> HIDE DEF Q
<1>3. Pend(p0, o1).opid = o1
  BY DEF Pend
<1>4. (\E x \in L : x.opid = o1) /\ \A o : (\E x \in pendiolist : x.opid = o) => \E x \in L : x.opid = o
  BY <1>3
<1>5. ASSUME NEW kind, NEW p, NEW k, NEW o, Holds(P, a, Q, q, kind, p, k, o)
      PROVE  \/ /\ Holds(procs, a, queue, q, kind, p, k, o)
                /\ ~(o = o1 /\ kind = "IOREQ_EVENT" /\ p = p0 /\ k = k0)
             \/ o = o1 /\ kind = "queue" /\ p = d /\ k = 0
  <2>1. CASE InList(P, kind, p, k, o)
    BY <2>1 DEF Left, Holds
  <2>2. CASE InIntrs(a, kind, p, k, o)
    BY <2>2 DEF Left, Holds
  <2>3. CASE InQueue(Q, kind, p, k, o)
    <3>1. kind = "queue" /\ p \in Devices /\ k = 0 /\ o \in Q[p].waiting
      BY <2>3 DEF InQueue
    <3>2. CASE p # d
      BY <1>2, <3>1, <3>2 DEF InQueue, Holds
    <3>3. CASE p = d
      BY <1>2, <3>1, <3>3 DEF InQueue, Holds
    <3> QED BY <3>2, <3>3
  <2>4. CASE InAgenda(q, kind, p, k, o)
    BY <2>4, CauseNames DEF InAgenda, Holds
  <2> QED BY <1>5, <2>1, <2>2, <2>3, <2>4 DEF Holds
<1>6. \A o \in Int, cause \in Causes : AtMostOnce(q, Interrupt(o, cause))
  BY DEF Now, Custody
<1>7. Custody(procs, a, queue, q, pendiolist, synthio_iocnt)
  BY DEF Now
<1> HIDE DEF a
<1>8. /\ \A o : Made(synthio_iocnt, o) => Made(synthio_iocnt, o)
      /\ "queue" # "IOREQ_EVENT" => \E x \in L : x.opid = o1
      /\ \A o : (\E x \in pendiolist : x.opid = o) => \E x \in L : x.opid = o
      /\ Holds(procs, a, queue, q, "IOREQ_EVENT", p0, k0, o1)
  BY <1>4 DEF a
<1>9. Custody(P, a, Q, q, L, synthio_iocnt)
  BY <1>5, <1>6, <1>7, <1>8, OneMoves, SMTT(60)
<1> QED BY <1>9 DEF Q, a

\* The lists P2 and the interrupts a2 are the lists P and the interrupts a, with
\* request o1 at place kind1, p1, k1.
Gained(P, a, P2, a2, kind1, p1, k1, o1) ==
    /\ \A kind, p, k, o : InList(P2, kind, p, k, o) =>
          InList(P, kind, p, k, o) \/ (kind = kind1 /\ p = p1 /\ k = k1 /\ o = o1)
    /\ \A kind, p, k, o : InIntrs(a2, kind, p, k, o) =>
          InIntrs(a, kind, p, k, o) \/ (kind = kind1 /\ p = p1 /\ k = k1 /\ o = o1)

\* A request goes from the queue of device d to place kind1, p1, k1.
LEMMA OutOfTheQueue ==
  ASSUME NEW T, Typed(T), NEW P, NEW a, NEW Q, NEW q \in Agendas(QueueEvents),
         Custody(P, a, Q, q, pendiolist', synthio_iocnt), synthio_iocnt' = synthio_iocnt,
         NEW c \in Cpus, NEW w \in CpuRecords, NEW R, Continue(c, CpuChanged(c, w), R, q, FALSE, FALSE),
         NEW b, c = 1 => b = w.intrs, c # 1 => b = cpus[1].intrs,
         NEW d \in Devices, NEW o1 \in Int, o1 \in Q[d].waiting,
         NEW kind1 \in {"IO_ACCESS_ARRIVE", "interrupt"}, NEW p1, NEW k1,
         Gained(P, a, R, b, kind1, p1, k1, o1),
         \A e \in Devices : queue'[e].waiting \subseteq Q[e].waiting, o1 \notin queue'[d].waiting
  PROVE  NowNext
<1>1. Holds(P, a, Q, q, "queue", d, 0, o1)
  BY DEF Holds, InQueue
<1>2. \E x \in pendiolist' : x.opid = o1
  BY <1>1 DEF Custody
<1>3. /\ \A kind, p, k, o : Holds(procs', cpus'[1].intrs, queue', agenda', kind, p, k, o)
                              => Holds(R, b, queue', q, kind, p, k, o)
      /\ \A o, cause : AtMostOnce(q, Interrupt(o, cause)) => AtMostOnce(agenda', Interrupt(o, cause))
  BY ContinueGives, ZenonT(60)
<1>4. \A o \in Int, cause \in Causes : AtMostOnce(agenda', Interrupt(o, cause))
  BY <1>3 DEF Custody
<1>5. ASSUME NEW kind, NEW p, NEW k, NEW o, Holds(procs', cpus'[1].intrs, queue', agenda', kind, p, k, o)
      PROVE  \/ /\ Holds(P, a, Q, q, kind, p, k, o)
                /\ ~(o = o1 /\ kind = "queue" /\ p = d /\ k = 0)
             \/ o = o1 /\ kind = kind1 /\ p = p1 /\ k = k1
  <2>0. InList(R, kind, p, k, o) \/ InIntrs(b, kind, p, k, o) \/ InQueue(queue', kind, p, k, o) \/ InAgenda(q, kind, p, k, o)
    BY <1>3, <1>5 DEF Holds
  <2>1. CASE InList(R, kind, p, k, o)
    <3>1. InList(P, kind, p, k, o) \/ (kind = kind1 /\ p = p1 /\ k = k1 /\ o = o1)
      BY <2>1 DEF Gained
    <3> QED BY <3>1 DEF Holds, InList
  <2>2. CASE InIntrs(b, kind, p, k, o)
    <3>1. InIntrs(a, kind, p, k, o) \/ (kind = kind1 /\ p = p1 /\ k = k1 /\ o = o1)
      BY <2>2 DEF Gained
    <3> QED BY <3>1 DEF Holds, InIntrs
  <2>3. CASE InQueue(queue', kind, p, k, o)
    BY <2>3 DEF Holds, InQueue
  <2>4. CASE InAgenda(q, kind, p, k, o)
    BY <2>4, CauseNames DEF InAgenda, Holds
  <2> QED BY <2>0, <2>1, <2>2, <2>3, <2>4
<1>6. /\ \A o : Made(synthio_iocnt, o) => Made(synthio_iocnt', o)
      /\ kind1 # "IOREQ_EVENT" => \E x \in pendiolist' : x.opid = o1
      /\ \A o : (\E x \in pendiolist' : x.opid = o) => \E x \in pendiolist' : x.opid = o
  BY <1>2
<1>7. Custody(procs', cpus'[1].intrs, queue', agenda', pendiolist', synthio_iocnt')
  BY <1>1, <1>4, <1>5, <1>6, OneMoves, SMTT(60)
<1> QED BY <1>7 DEF NowNext

\* pf_handle_ioreq_event, iodriver_request: the request goes to the queue of its
\* device, and one of the queue, perhaps the same, to the list of the process.
LEMMA IoreqMoves ==
  ASSUME NEW T, NEW c, NEW q, Before(T, c, q), Now(q), Handled(c, q, "IOREQ_EVENT", HandleIoreq)
  PROVE  NowNext
<1> DEFINE k == cpus[c]
           chain == Chain(k, procs)
           x == k.procp
           l == Tail(FlowList(c))
           P == WithList(procs, x, l)
           d == gens[x].devno
           o1 == Head(chain).arg
           W == queue[d].waiting \cup {o1}
           k0 == Len(FlowList(c)) - 1
           a == cpus[1].intrs
           Q == [queue EXCEPT ![d].waiting = W]
<1>0. /\ Typed(T) /\ c \in Cpus /\ q \in Agendas(QueueEvents)
  BY BeforeParts
<1>1. /\ chain # <<>> /\ Head(chain).type = "IOREQ_EVENT"
      /\ HandleIoreq(c, WithChain(c, cpus, Tail(chain)), ProcWithChain(c, cpus, procs, Tail(chain)), q, Head(chain))
  BY DEF Handled
<1>2. /\ InProc(c, T) /\ chain = FlowList(c) /\ o1 \in Int /\ k.intrs = <<>> /\ x \in Procs
      /\ Head(FlowList(c)).type = "IOREQ_EVENT" /\ Head(FlowList(c)).type # "SYNTHIO_EVENT"
      /\ o1 = Head(FlowList(c)).arg
  BY <1>1, FlowOnly
<1>3. /\ WithChain(c, cpus, Tail(chain)) = CpuChanged(c, k) /\ ProcWithChain(c, cpus, procs, Tail(chain)) = P
      /\ P \in ProcTables(T) /\ k \in CpuRecords /\ CpuChanged(c, k)[c] = k
      /\ l \in Seq(FlowEvents(T))
  BY <1>0, <1>2, FlowTaken, FlowTail, CpuChangedFacts
<1>4. /\ Left(P, a, "IOREQ_EVENT", x, k0)
      /\ Holds(procs, a, queue, q, "IOREQ_EVENT", x, k0, o1)
  BY <1>0, <1>2, FlowLeaves
<1>5. HandleIoreq(c, CpuChanged(c, k), P, q, Head(chain)) /\ CpuChanged(c, k)[c].procp = x
  BY <1>1, <1>3
<1>6. procs \in ProcTables(T) /\ queue \in [Devices -> [waiting : SUBSET Int, out : SUBSET Int]] /\ d \in Devices
  BY <1>0, <1>2, PendFacts DEF Typed
<1> HIDE DEF l, chain
<1>7. /\ \A u : [P EXCEPT ![x].events = u] = WithList(procs, x, u)
      /\ P[x].events = l
  BY <1>2, <1>6, ListChangedAgain
<1> HIDE DEF P
<1>8. PICK h \in HandedOut(d, W) :
         /\ queue' = [queue EXCEPT ![d] = h[1]]
         /\ Continue(c, CpuChanged(c, k), [P EXCEPT ![x].events = h[2] \o @], q, FALSE, FALSE)
  BY <1>5 DEF HandleIoreq
<1>9. pendiolist' = pendiolist \cup {Pend(x, o1)} /\ synthio_iocnt' = synthio_iocnt
  BY <1>5 DEF HandleIoreq
<1>10. W \in SUBSET Int
  BY <1>2, <1>6
<1> HIDE DEF x, d, a, k0, o1
<1>11. Custody(P, a, Q, q, pendiolist', synthio_iocnt)
  <2>1. Custody(P, a, [queue EXCEPT ![d].waiting = W], q, pendiolist', synthio_iocnt)
    BY <1>0, <1>2, <1>4, <1>6, <1>9, IntoTheQueue DEF a
  <2> QED BY <2>1
<1>12. Q[d].waiting = W /\ \A e \in Devices : e # d => Q[e] = queue[e]
  BY <1>6
<1> HIDE DEF W, Q
<1>13. /\ queue'[d].waiting = h[1].waiting /\ \A e \in Devices : e # d => queue'[e] = queue[e]
  BY <1>6, <1>8
<1> DEFINE u == h[2]
           R == WithList(procs, x, u \o l)
<1>14. Continue(c, CpuChanged(c, k), R, q, FALSE, FALSE)
  BY <1>7, <1>8
<1>15. /\ \A kind, p, n, o : Holds(procs', cpus'[1].intrs, queue', agenda', kind, p, n, o)
                               => Holds(R, a, queue', q, kind, p, n, o)
       /\ \A o, cause : AtMostOnce(q, Interrupt(o, cause)) => AtMostOnce(agenda', Interrupt(o, cause))
  <2>1. (c = 1 => a = k.intrs) /\ (c # 1 => a = cpus[1].intrs)
    BY DEF a
  <2> HIDE DEF R
  <2> QED BY <1>0, <1>3, <1>14, <2>1, ContinueGives
<1>16. \A o \in Int, cause \in Causes : AtMostOnce(agenda', Interrupt(o, cause))
  BY <1>15 DEF Now, Custody
<1>17. \/ u = <<>> /\ h[1].waiting = W
       \/ \E o \in W : u = <<Access(o)>> /\ h[1].waiting = W \ {o}
  BY <1>0, <1>6, <1>10, HandedOutLeaves
<1> HIDE DEF R, u
<1>18. CASE u = <<>> /\ h[1].waiting = W
  <2>1. \A e \in Devices : queue'[e].waiting = Q[e].waiting
    BY <1>12, <1>13, <1>18
  <2>2. R = P
    <3>1. u \o l = l
      BY <1>3, <1>18
    <3> QED BY <1>2, <3>1 DEF R, P
  <2>3. \A kind, p, n, o : Holds(procs', cpus'[1].intrs, queue', agenda', kind, p, n, o)
                               => Holds(P, a, Q, q, kind, p, n, o)
    BY <1>15, <2>1, <2>2 DEF Holds, InQueue
  <2> QED BY <1>9, <1>11, <1>16, <2>3, CustodyMoves DEF NowNext
<1>19. CASE \E o \in W : u = <<Access(o)>> /\ h[1].waiting = W \ {o}
  <2>1. PICK o2 \in W : u = <<Access(o2)>> /\ h[1].waiting = W \ {o2}
    BY <1>19
  <2>2. /\ o2 \in Int /\ o2 \in Q[d].waiting /\ o2 \notin queue'[d].waiting
        /\ \A e \in Devices : queue'[e].waiting \subseteq Q[e].waiting
    BY <1>10, <1>12, <1>13, <2>1
  <2>3. /\ u \in Seq(FlowEvents(T)) /\ DOMAIN u = {1} /\ Len(u) = 1 /\ u[1] = Access(o2)
    <3>1. Access(o2) \in FlowEvents(T)
      BY <1>0, <2>2 DEF Access, Event, FlowEvents, FlowTypes, Typed
    <3> QED BY <2>1, <3>1
  <2>4. /\ P \in ProcTables(T) /\ R[x].events = u \o P[x].events
        /\ \A y \in Procs : y # x => R[y].events = P[y].events
    <3> DEFINE s == u \o l
    <3>1. s \in Seq(FlowEvents(T)) /\ x \in Procs /\ procs \in ProcTables(T)
      BY <1>2, <1>3, <1>6, <2>3 DEF x
    <3> HIDE DEF s
    <3>2. /\ \A y \in Procs : y = x => WithList(procs, x, s)[y].events = s
          /\ \A y \in Procs : y # x => WithList(procs, x, s)[y] = procs[y]
      BY <3>1, ListChanged
    <3>3. \A y \in Procs : y # x => P[y] = procs[y]
      BY <1>3, <1>6, <3>1, ListChanged DEF P
    <3> QED BY <1>3, <1>7, <3>1, <3>2, <3>3 DEF R, s
  <2> DEFINE k1 == Len(P[x].events)
  <2>5. ASSUME NEW kind, NEW p, NEW n, NEW o, InList(R, kind, p, n, o)
        PROVE  InList(P, kind, p, n, o) \/ (kind = "IO_ACCESS_ARRIVE" /\ p = x /\ n = k1 /\ o = o2)
    <3>1. \/ InList(P, kind, p, n, o)
          \/ /\ kind \in {"IOREQ_EVENT", "IO_ACCESS_ARRIVE"} /\ p = x
             /\ \E i \in DOMAIN u : u[i].type = kind /\ u[i].arg = o /\ n = Len(P[x].events) + Len(u) - i
      <4>1. /\ P \in ProcTables(T) /\ x \in Procs /\ u \in Seq(FlowEvents(T)) /\ R[x].events = u \o P[x].events
            /\ \A y \in Procs : y # x => R[y].events = P[y].events
        BY <1>2, <2>3, <2>4 DEF x
      <4> QED BY <2>5, <4>1, PutBefore
    <3>2. Access(o2).type = "IO_ACCESS_ARRIVE" /\ Access(o2).arg = o2
      BY DEF Access, Event
    <3>3. k1 \in Nat
      BY <1>3, <1>7
    <3> QED BY <2>3, <3>1, <3>2, <3>3
  <2> HIDE DEF k1
  <2>6. Gained(P, a, R, a, "IO_ACCESS_ARRIVE", x, k1, o2)
    BY <2>5 DEF Gained
  <2>7. /\ \A e \in Devices : queue'[e].waiting \subseteq Q[e].waiting
        /\ o2 \in Int /\ o2 \in Q[d].waiting /\ o2 \notin queue'[d].waiting /\ d \in Devices
    BY <1>6, <2>2 DEF d
  <2>8. (c = 1 => a = k.intrs) /\ (c # 1 => a = cpus[1].intrs)
    BY DEF a
  <2> QED BY <1>0, <1>3, <1>9, <1>11, <1>14, <2>6, <2>7, <2>8, OutOfTheQueue
<1> QED BY <1>17, <1>18, <1>19


\* The list of the interrupt on top is given once more.
LEMMA SetTopTwice ==
  ASSUME NEW a \in Seq(Intrs), a # <<>>, NEW s, NEW l
  PROVE  SetTop(SetTop(a, l), s) = SetTop(a, s)
<1> DEFINE x == a[1]
           y == [x EXCEPT !.events = l]
           z == [x EXCEPT !.events = s]
           b == [a EXCEPT ![1] = y]
<1>1. 1 \in DOMAIN a
  OBVIOUS
<1>2. [y EXCEPT !.events = s] = z
  OBVIOUS
<1>3. SetTop(a, l) = b /\ SetTop(a, s) = [a EXCEPT ![1] = z]
  BY DEF SetTop
<1> HIDE DEF z, y, x
<1>4. b[1] = y
  BY <1>1
<1>5. SetTop(b, s) = [b EXCEPT ![1] = [b[1] EXCEPT !.events = s]]
  BY DEF SetTop
<1>6. SetTop(b, s) = [b EXCEPT ![1] = z]
  BY <1>2, <1>4, <1>5
<1>7. [b EXCEPT ![1] = z] = [a EXCEPT ![1] = z]
  BY <1>1
<1> QED BY <1>3, <1>6, <1>7

\* Events are put before the list of the interrupt on top.
LEMMA TopGains ==
  ASSUME NEW a \in Seq(Intrs), a # <<>>, NEW l, l = a[1].events, l \in Seq(IntrEvents), a[1].cause # "CLOCK",
         NEW u \in Seq(IntrEvents), NEW kind, NEW p, NEW k, NEW o, InIntrs(SetTop(a, u \o l), kind, p, k, o)
  PROVE  /\ kind = "interrupt"
         /\ \/ InIntrs(a, kind, p, k, o)
            \/ /\ p = Len(a) - 1
               /\ \E i \in DOMAIN u : u[i].type \in Bearing(a[1].cause) /\ u[i].arg = o /\ k = Len(l) + Len(u) - i
<1> DEFINE s == u \o l
           B == Bearing(a[1].cause)
<1>1. s \in Seq(IntrEvents) /\ InIntrs(SetTop(a, s), kind, p, k, o)
  OBVIOUS
<1> HIDE DEF s
<1>2. /\ kind = "interrupt"
      /\ \/ InIntrs(a, kind, p, k, o) /\ p # Len(a) - 1
         \/ p = Len(a) - 1 /\ Has(s, B, k, o)
  BY <1>1, IntrsSetTop
<1>3. CASE InIntrs(a, kind, p, k, o)
  BY <1>2, <1>3
<1>4. CASE p = Len(a) - 1 /\ Has(s, B, k, o)
  <2> HIDE DEF B
  <2>1. Has(l, B, k, o) \/ \E i \in DOMAIN u : u[i].type \in B /\ u[i].arg = o /\ k = Len(l) + Len(u) - i
    <3>1. Has(u \o l, B, k, o)
      BY <1>4 DEF s
    <3> DEFINE E == IntrEvents
    <3>2. u \in Seq(E) /\ l \in Seq(E)
      OBVIOUS
    <3> HIDE DEF E
    <3> QED BY <3>1, <3>2, HasPrefix
  <2>2. Len(a) \in Nat /\ Len(a) >= 1 /\ Len(a) - (Len(a) - 1) = 1 /\ Len(a) - 1 \in 0..Len(a) - 1
    OBVIOUS
  <2>3. At(a, p) = a[1]
    BY <1>4, <2>2 DEF At
  <2>4. Has(l, B, k, o) => InIntrs(a, kind, p, k, o)
    BY <1>2, <1>4, <2>2, <2>3 DEF InIntrs, B
  <2> QED BY <1>2, <1>4, <2>1, <2>4 DEF B
<1> QED BY <1>2, <1>3, <1>4

\* A request that is done is nowhere.
LEMMA DoneIsGone ==
  ASSUME NEW T, Typed(T), NEW q, Now(q), NEW b, NEW p0, NEW k0, NEW o1 \in Int, Left(procs, b, "interrupt", p0, k0),
         Holds(procs, cpus[1].intrs, queue, q, "interrupt", p0, k0, o1)
  PROVE  /\ Custody(procs, b, queue, q, pendiolist \ Answered(o1), synthio_iocnt)
         /\ Answered(o1) # {}
<1>1. /\ \A kind, p, k : Holds(procs, cpus[1].intrs, queue, q, kind, p, k, o1) => kind = "interrupt" /\ p = p0 /\ k = k0
      /\ \E x \in pendiolist : x.opid = o1
  BY DEF Now, Custody
<1>2. ASSUME NEW kind, NEW p, NEW k, NEW o, Holds(procs, b, queue, q, kind, p, k, o)
      PROVE  Holds(procs, cpus[1].intrs, queue, q, kind, p, k, o) /\ o # o1
  <2>1. Holds(procs, cpus[1].intrs, queue, q, kind, p, k, o)
    BY <1>2 DEF Left, Holds
  <2>2. CASE o = o1
    <3>1. kind = "interrupt" /\ p = p0 /\ k = k0
      BY <1>1, <2>1, <2>2
    <3>2. ~InIntrs(b, kind, p, k, o)
      BY <3>1 DEF Left
    <3> QED BY <1>2, <3>1, <3>2, CauseNames DEF Holds, InList, InQueue, InAgenda
  <2> QED BY <2>1, <2>2
<1>3. ASSUME NEW o \in Int
      PROVE  \/ /\ \A kind, p, k : Holds(procs, b, queue, q, kind, p, k, o)
                                     => Holds(procs, cpus[1].intrs, queue, q, kind, p, k, o)
                /\ (\E x \in pendiolist : x.opid = o) => \E x \in pendiolist \ Answered(o1) : x.opid = o
             \/ \A kind, p, k : ~Holds(procs, b, queue, q, kind, p, k, o)
  BY <1>2 DEF Answered
<1>4. /\ Custody(procs, cpus[1].intrs, queue, q, pendiolist, synthio_iocnt)
      /\ \A o \in Int, cause \in Causes : AtMostOnce(q, Interrupt(o, cause))
      /\ \A o : Made(synthio_iocnt, o) => Made(synthio_iocnt, o)
  BY DEF Now, Custody
<1>5. Custody(procs, b, queue, q, pendiolist \ Answered(o1), synthio_iocnt)
  BY <1>3, <1>4, CustodyMoves
<1> QED BY <1>1, <1>5 DEF Answered


\* What iodriver_add_to_intrp_eventlist puts before the list
RelistedAs(next, o, l) ==
    \E u \in Seq(IntrEvents) :
        /\ Relisted(next, WakeupFor(o), l) = u \o l
        /\ \A i \in DOMAIN u : u[i].type # "WAKEUP_EVENT" => i = 1 /\ next # <<>> /\ u[i].arg = next[1]

LEMMA RelistedWith ==
  ASSUME NEW W \in SUBSET Int, NEW next \in NextOut(W), NEW o \in Int, NEW l \in Seq(IntrEvents)
  PROVE  RelistedAs(next, o, l) /\ (next = <<>> \/ \E o2 \in W : next = <<o2>>)
<1>1. next = <<>> \/ \E o2 \in W : next = <<o2>>
  <2>1. CASE W = {}
    BY <2>1 DEF NextOut
  <2>2. CASE W # {}
    BY <2>2 DEF NextOut
  <2> QED BY <2>1, <2>2
<1> DEFINE first == [i \in DOMAIN next |-> Access(next[i])]
           wakeup == WakeupFor(o)
<1>2. /\ first \in Seq(IntrEvents)
      /\ \A i \in DOMAIN first : i = 1 /\ next # <<>> /\ first[i].arg = next[1]
  <2>1. CASE next = <<>>
    BY <2>1
  <2>2. CASE \E o2 \in W : next = <<o2>>
    <3>1. PICK o2 \in W : next = <<o2>>
      BY <2>2
    <3>2. /\ Len(next) \in Nat /\ DOMAIN next = 1..Len(next) /\ Len(next) = 1 /\ next[1] = o2 /\ next # <<>>
      BY <3>1
    <3>3. Access(o2) \in IntrEvents /\ Access(o2).arg = o2
      BY DEF Access, Event, IntrEvents, IntrTypes
    <3>4. /\ first \in [1..Len(next) -> IntrEvents] /\ first[1] = Access(o2)
          /\ \A i \in DOMAIN first : i = 1
      BY <3>2, <3>3
    <3>5. first \in Seq(IntrEvents)
      BY <3>2, <3>4
    <3> HIDE DEF first
    <3> QED BY <3>2, <3>3, <3>4, <3>5
  <2> QED BY <1>1, <2>1, <2>2
<1>3. /\ wakeup \in Seq(IntrEvents)
      /\ \A i \in DOMAIN wakeup : wakeup[i].type = "WAKEUP_EVENT"
  <2> DEFINE e == Event("WAKEUP_EVENT", 0, o)
  <2>1. e \in IntrEvents /\ e.type = "WAKEUP_EVENT"
    BY DEF Event, IntrEvents, IntrTypes
  <2>2. wakeup = <<e>> \/ wakeup = <<>>
    BY DEF WakeupFor
  <2> HIDE DEF wakeup, e
  <2>3. CASE wakeup = <<e>>
    BY <2>1, <2>3
  <2>4. CASE wakeup = <<>>
    BY <2>4
  <2> QED BY <2>2, <2>3, <2>4
<1>4. Relisted(next, wakeup, l) = (first \o wakeup) \o l
  BY DEF Relisted
<1> HIDE DEF first, wakeup
<1> DEFINE u == first \o wakeup
<1>5. u \in Seq(IntrEvents)
  BY <1>2, <1>3
<1>6. ASSUME NEW i \in DOMAIN u, u[i].type # "WAKEUP_EVENT"
      PROVE  i = 1 /\ next # <<>> /\ u[i].arg = next[1]
  <2> DEFINE m == Len(first)
             n == Len(wakeup)
  <2>1. /\ m \in Nat /\ n \in Nat /\ DOMAIN first = 1..m /\ DOMAIN wakeup = 1..n /\ DOMAIN u = 1..m + n
        /\ \A j \in 1..m + n : u[j] = IF j <= m THEN first[j] ELSE wakeup[j - m]
    BY <1>2, <1>3
  <2> HIDE DEF u, m, n
  <2>2. CASE i <= m
    <3>1. i \in DOMAIN first /\ u[i] = first[i]
      BY <2>1, <2>2
    <3> QED BY <1>2, <3>1
  <2>3. CASE ~(i <= m)
    <3>1. i - m \in DOMAIN wakeup /\ u[i] = wakeup[i - m]
      BY <2>1, <2>3
    <3> QED BY <1>3, <1>6, <3>1
  <2> QED BY <2>2, <2>3
<1>7. Relisted(next, wakeup, l) = u \o l
  BY <1>4
<1> HIDE DEF u
<1>8. RelistedAs(next, o, l)
  BY <1>5, <1>6, <1>7 DEF RelistedAs, wakeup
<1> QED BY <1>1, <1>8

\* pf_handle_io_internal_event: iodriver_access_complete and pf_io_done_notify
\* take the request, which is pending, and the next of its queue takes its place.
LEMMA AccessCompleteMoves ==
  ASSUME NEW T, NEW c, NEW q, Before(T, c, q), Now(q),
         Handled(c, q, "IO_ACCESS_COMPLETE", HandleAccessComplete)
  PROVE  NowNext /\ ~fault'
<1> DEFINE k == cpus[c]
           o1 == Head(TopList(c)).arg
           l == Tail(TopList(c))
           X == Answered(o1)
           W == UNION {queue[x.devno].waiting : x \in X}
           w0 == WithTop(k, l)
           p0 == Len(cpus[1].intrs) - 1
           k0 == Len(TopList(c)) - 1
<1>0. /\ Typed(T) /\ c \in Cpus /\ q \in Agendas(QueueEvents)
  BY BeforeParts
<1>1. /\ InIntr(c) /\ c = 1 /\ Head(TopList(c)).type = "IO_ACCESS_COMPLETE" /\ o1 \in Int
      /\ k.intrs # <<>> /\ k.intrs[1].cause # "CLOCK"
      /\ l \in Seq(IntrEvents) /\ CompletesOn(c, q, o1, l)
  BY CompletionGoesOn
<1>2. Head(TopList(c)).type \in Bearing(cpus[1].intrs[1].cause) /\ Head(TopList(c)).type # "INTEND_EVENT"
  BY <1>1 DEF Bearing
<1>3. /\ w0 \in CpuRecords
      /\ Left(procs, w0.intrs, "interrupt", p0, k0)
      /\ Head(TopList(c)).type \in Bearing(cpus[1].intrs[1].cause) =>
            Holds(procs, cpus[1].intrs, queue, q, "interrupt", p0, k0, o1)
  BY <1>1, <1>2, TopLeaves
<1> DEFINE b0 == w0.intrs
<1>4. /\ Custody(procs, b0, queue, q, pendiolist \ X, synthio_iocnt) /\ X # {}
  <2> HIDE DEF w0, p0, k0, o1
  <2> QED BY <1>0, <1>1, <1>2, <1>3, DoneIsGone
<1>5. ~fault'
  BY <1>4, AccessCompleteKeeps DEF Answered
<1>6. k \in CpuRecords /\ k.intrs \in Seq(Intrs) /\ k.intrs[1] \in Intrs
  BY <1>0, <1>1 DEF Typed, CpuRecords
<1>7. /\ b0 = SetTop(k.intrs, l) /\ Len(b0) = Len(cpus[1].intrs) /\ b0 \in Seq(Intrs) /\ b0 # <<>>
      /\ b0[1].events = l /\ b0[1].cause # "CLOCK"
  <2> DEFINE a == k.intrs
  <2>1. b0 = SetTop(a, l)
    BY <1>6 DEF CpuRecords, WithTop
  <2>2. /\ SetTop(a, l) \in Seq(Intrs) /\ SetTop(a, l) # <<>> /\ Len(SetTop(a, l)) = Len(a)
        /\ SetTop(a, l)[1] = [a[1] EXCEPT !.events = l]
    <3> HIDE DEF l
    <3> QED BY <1>1, <1>6, SetTopFacts
  <2>3. [a[1] EXCEPT !.events = l].events = l /\ [a[1] EXCEPT !.events = l].cause = a[1].cause
    BY <1>6 DEF Intrs
  <2> HIDE DEF a, b0, l
  <2> QED BY <1>1, <2>1, <2>2, <2>3 DEF a
<1> HIDE DEF l, o1, w0
<1>8. PICK next \in NextOut(W) :
         /\ pendiolist' = pendiolist \ X
         /\ queue' = [d \in Devices |-> IF \E x \in X : x.devno = d
                           THEN [waiting |-> queue[d].waiting \ ToSet(next),
                                 out |-> (queue[d].out \ {o1}) \cup ToSet(next)]
                           ELSE queue[d]]
         /\ Continue(c, CpuChanged(c, WithTop(k, Relisted(next, WakeupFor(o1), l))), procs, q, FALSE, X = {})
         /\ synthio_iocnt' = synthio_iocnt
  BY <1>1, Zenon DEF CompletesOn
<1>9. /\ queue \in [Devices -> [waiting : SUBSET Int, out : SUBSET Int]]
      /\ \A x \in X : x \in pendiolist /\ x.devno \in Devices
      /\ W \in SUBSET Int
  BY <1>0 DEF Typed, IoRecords, Answered
<1>10. RelistedAs(next, o1, l) /\ (next = <<>> \/ \E o2 \in W : next = <<o2>>)
  <2> HIDE DEF W
  <2> QED BY <1>1, <1>8, <1>9, RelistedWith
<1>11. PICK u \in Seq(IntrEvents) :
         /\ Relisted(next, WakeupFor(o1), l) = u \o l
         /\ \A i \in DOMAIN u : u[i].type # "WAKEUP_EVENT" => i = 1 /\ next # <<>> /\ u[i].arg = next[1]
  BY <1>10 DEF RelistedAs
<1> DEFINE s == u \o l
           w == WithTop(k, s)
           b == w.intrs
           k1 == Len(l) + Len(u) - 1
<1>12. Continue(c, CpuChanged(c, w), procs, q, FALSE, FALSE)
  <2>1. Continue(c, CpuChanged(c, w), procs, q, FALSE, X = {})
    BY <1>8, <1>11
  <2> HIDE DEF w
  <2>2. (X = {}) = FALSE
    BY <1>4
  <2> QED BY <2>1, <2>2
<1>13. w \in CpuRecords /\ b = SetTop(b0, u \o l)
  <2> DEFINE a == k.intrs
  <2>1. s \in Seq(IntrEvents)
    BY <1>1
  <2> HIDE DEF s
  <2>2. SetTop(a, s) \in Seq(Intrs)
    BY <1>1, <1>6, <2>1, SetTopFacts
  <2>3. w \in CpuRecords /\ b = SetTop(a, s)
    BY <1>6, <2>2 DEF CpuRecords, WithTop
  <2>4. SetTop(b0, s) = SetTop(a, s)
    BY <1>1, <1>6, <1>7, SetTopTwice
  <2> QED BY <2>3, <2>4 DEF s
<1> HIDE DEF w
<1>14. ASSUME NEW kind, NEW p, NEW n, NEW o, InIntrs(b, kind, p, n, o)
       PROVE  \/ InIntrs(b0, kind, p, n, o)
              \/ next # <<>> /\ o = next[1] /\ kind = "interrupt" /\ p = p0 /\ n = k1
  <2>1. InIntrs(SetTop(b0, u \o l), kind, p, n, o)
    BY <1>13, <1>14
  <2> DEFINE B == Bearing(b0[1].cause)
  <2>2. /\ kind = "interrupt"
        /\ \/ InIntrs(b0, kind, p, n, o)
           \/ /\ p = Len(b0) - 1
              /\ \E i \in DOMAIN u : u[i].type \in B /\ u[i].arg = o /\ n = Len(l) + Len(u) - i
    <3>1. /\ b0 \in Seq(Intrs) /\ b0 # <<>> /\ l = b0[1].events /\ b0[1].cause # "CLOCK"
          /\ l \in Seq(IntrEvents) /\ u \in Seq(IntrEvents)
      BY <1>1, <1>7, <1>11
    <3> HIDE DEF b0
    <3> QED BY <2>1, <3>1, TopGains
  <2>3. "WAKEUP_EVENT" \notin B
    BY DEF Bearing
  <2> HIDE DEF B
  <2> QED BY <1>7, <1>11, <2>2, <2>3
<1> HIDE DEF b, b0, p0, k1
<1>15. CASE next = <<>>
  <2>1. ToSet(next) = {}
    BY <1>15 DEF ToSet
  <2>2. \A e \in Devices : queue'[e].waiting \subseteq queue[e].waiting
    BY <1>8, <1>9, <2>1
  <2>3. /\ \A kind, p, n, o : Holds(procs', cpus'[1].intrs, queue', agenda', kind, p, n, o)
                               => Holds(procs, b, queue', q, kind, p, n, o)
        /\ \A o, cause : AtMostOnce(q, Interrupt(o, cause)) => AtMostOnce(agenda', Interrupt(o, cause))
    <3>1. (c = 1 => b = w.intrs) /\ (c # 1 => b = cpus[1].intrs)
      BY <1>1 DEF b
    <3> QED BY <1>0, <1>12, <1>13, <3>1, ContinueGives, ZenonT(240)
  <2>4. \A kind, p, n, o : Holds(procs', cpus'[1].intrs, queue', agenda', kind, p, n, o)
                               => Holds(procs, b0, queue, q, kind, p, n, o)
    BY <1>14, <1>15, <2>2, <2>3 DEF Holds, InQueue
  <2>5. \A o \in Int, cause \in Causes : AtMostOnce(agenda', Interrupt(o, cause))
    BY <2>3 DEF Now, Custody
  <2> QED BY <1>4, <1>5, <1>8, <2>4, <2>5, CustodyMoves DEF NowNext
<1>16. CASE \E o2 \in W : next = <<o2>>
  <2>1. PICK o2 \in W : next = <<o2>>
    BY <1>16
  <2>2. PICK x \in X : o2 \in queue[x.devno].waiting
    BY <2>1
  <2> DEFINE d == x.devno
  <2>3. next[1] = o2 /\ next # <<>> /\ ToSet(next) = {o2}
    BY <2>1 DEF ToSet
  <2>4. /\ d \in Devices /\ o2 \in Int /\ o2 \in queue[d].waiting
        /\ queue'[d].waiting = queue[d].waiting \ {o2}
        /\ \A e \in Devices : queue'[e].waiting \subseteq queue[e].waiting
    BY <1>8, <1>9, <2>1, <2>2, <2>3
  <2> HIDE DEF d
  <2>5. Gained(procs, b0, procs, b, "interrupt", p0, k1, o2)
    BY <1>14, <2>3 DEF Gained
  <2>6. (c = 1 => b = w.intrs) /\ (c # 1 => b = cpus[1].intrs) /\ o2 \notin queue'[d].waiting
    BY <1>1, <2>4 DEF b
  <2>7. Custody(procs, b0, queue, q, pendiolist', synthio_iocnt)
    BY <1>4, <1>8
  <2>8. w \in CpuRecords /\ synthio_iocnt' = synthio_iocnt
    BY <1>8, <1>13
  <2>9. NowNext
    BY <1>0, <1>12, <2>4, <2>5, <2>6, <2>7, <2>8, OutOfTheQueue, ZenonT(90)
  <2> QED BY <1>5, <2>9
<1> QED BY <1>10, <1>15, <1>16


(***************************************************************************)
(* New requests.                                                            *)
(***************************************************************************)
Requests == {"IOREQ_EVENT", "IO_ACCESS_ARRIVE"}

\* The list has request o to issue, at place k, and no other.
OneRequest(s, o, k) ==
    \A kind \in Requests : \A k2, o2 : Has(s, {kind}, k2, o2) => kind = "IOREQ_EVENT" /\ k2 = k /\ o2 = o

LEMMA AppendedRequests ==
  ASSUME NEW T, NEW listed \in Seq(LimitEvents(T)), NEW over \in 0..Len(listed), NEW o, NEW think, NEW class,
         NEW s, s = Appended(<<Synthio>>, listed, over, o, think, class)
  PROVE  \E k : OneRequest(s, o, k)
<1> DEFINE first == SubSeq(listed, 1, over)
           req   == Event("IOREQ_EVENT", think - When(listed, over), o)
           x     == Event("SLEEP_EVENT", 0, o)
           sleep == IF class = "CRITICAL" THEN <<x>> ELSE <<>>
           E     == LimitEvents(T) \cup {x, Synthio}
           S     == E \cup {req}
           r     == <<req>>
           e     == <<Synthio>>
<1>1. first \in Seq(E)
  <2>1. first \in Seq(LimitEvents(T))
    BY SubSeqParts
  <2> HIDE DEF first, x
  <2> QED BY <2>1
<1>2. req.type = "IOREQ_EVENT" /\ req.arg = o
  BY DEF Event
<1>3. \A y \in E : y.type \notin Requests
  BY DEF LimitEvents, Event, Synthio, Requests
<1>4. s = ((first \o r) \o sleep) \o e
  BY DEF Appended
<1>5. x \in E /\ Synthio \in E /\ E \subseteq S /\ req \in S
  OBVIOUS
<1> HIDE DEF first, req, x, E, S
<1>6. sleep \in Seq(E) /\ e \in Seq(E) /\ r \in Seq(S) /\ Len(r) = 1 /\ r[1] = req
  BY <1>5
<1> HIDE DEF sleep, r, e
<1> DEFINE u == first \o r
           v == sleep \o e
           m == Len(first)
<1>7. v \in Seq(E) /\ v \in Seq(S) /\ first \in Seq(S) /\ sleep \in Seq(S) /\ e \in Seq(S)
  <2>1. v \in Seq(E)
    BY <1>6
  <2> HIDE DEF v
  <2> QED BY <1>1, <1>5, <1>6, <2>1
<1>8. u \in Seq(S) /\ m \in Nat /\ Len(u) = m + 1 /\ u[m + 1] = req /\ \A i \in 1..m : u[i].type \notin Requests
  <2>0. first \in Seq(S) /\ r \in Seq(S) /\ Len(r) = 1
    BY <1>6, <1>7
  <2>1. m \in Nat /\ u \in Seq(S) /\ Len(u) = m + 1
    <3>1. /\ u \in Seq(S) /\ Len(u) = Len(first) + Len(r)
          /\ \A i \in 1..Len(first) + Len(r) : u[i] = IF i <= Len(first) THEN first[i] ELSE r[i - Len(first)]
      BY <2>0, ConcatProperties
    <3>2. Len(first) \in Nat
      BY <2>0
    <3> QED BY <2>0, <3>1, <3>2
  <2>2. \A i \in 1..m : u[i] = first[i]
    BY <2>0
  <2>3. u[m + 1] = r[1]
    <3>1. \A i \in 1..Len(first) + Len(r) : u[i] = IF i <= Len(first) THEN first[i] ELSE r[i - Len(first)]
      BY <2>0, ConcatProperties
    <3>2. m \in Nat /\ m + 1 \in 1..m + Len(r) /\ ~(m + 1 <= m) /\ (m + 1) - m = 1
      BY <2>0, <2>1
    <3> HIDE DEF u
    <3> QED BY <3>1, <3>2
  <2>4. \A i \in 1..m : first[i] \in E
    BY <1>1
  <2> HIDE DEF u, m
  <2>5. \A i \in 1..m : u[i].type \notin Requests
    BY <1>3, <2>2, <2>4
  <2>6. u[m + 1] = req
    BY <1>6, <2>3
  <2> QED BY <2>1, <2>5, <2>6
<1>9. s = u \o v
  <2>1. u \in Seq(S) /\ sleep \in Seq(S) /\ e \in Seq(S)
    BY <1>7, <1>8
  <2>2. (u \o sleep) \o e = u \o (sleep \o e)
    <3> HIDE DEF u
    <3> QED BY <2>1, SMTT(30)
  <2> QED BY <1>4, <2>2
<1> HIDE DEF u, v
<1> DEFINE k == Len(v)
<1>10. ASSUME NEW kind \in Requests, NEW k2, NEW o2, Has(s, {kind}, k2, o2)
       PROVE  kind = "IOREQ_EVENT" /\ k2 = k /\ o2 = o
  <2> DEFINE types == {kind}
  <2>1. Has(u \o v, types, k2, o2)
    BY <1>9, <1>10
  <2> HIDE DEF types
  <2>2. Has(v, types, k2, o2) \/ \E i \in DOMAIN u : u[i].type \in types /\ u[i].arg = o2 /\ k2 = Len(v) + Len(u) - i
    <3>1. u \in Seq(S) /\ v \in Seq(S) /\ Has(u \o v, types, k2, o2)
      BY <1>7, <1>8, <2>1
    <3> QED BY <3>1, HasPrefix
  <2>3. ~Has(v, types, k2, o2)
    <3> SUFFICES ASSUME Has(v, types, k2, o2) PROVE FALSE
      OBVIOUS
    <3>1. k2 \in 0..Len(v) - 1 /\ v[Len(v) - k2].type = kind
      BY DEF Has, At, types
    <3>2. Len(v) - k2 \in DOMAIN v
      BY <1>7, <3>1
    <3>3. v[Len(v) - k2] \in E
      BY <1>7, <3>2
    <3> QED BY <1>3, <3>1, <3>3
  <2>4. PICK i \in DOMAIN u : u[i].type = kind /\ u[i].arg = o2 /\ k2 = Len(v) + Len(u) - i
    BY <2>2, <2>3 DEF types
  <2>5. i = m + 1
    <3>1. i \in 1..m + 1
      BY <1>8
    <3> QED BY <1>8, <2>4, <3>1
  <2>6. Len(v) \in Nat
    BY <1>7
  <2> QED BY <1>2, <1>8, <2>4, <2>5, <2>6
<1> HIDE DEF k
<1>11. OneRequest(s, o, k)
  BY <1>10 DEF OneRequest
<1> QED BY <1>11

\* The number of the next request of a process is new.
LEMMA OpidIsNew ==
  ASSUME NEW T, Typed(T), NEW p \in Procs, NEW n, n = synthio_iocnt + 1, n < config.endiocnt
  PROVE  ~Made(synthio_iocnt, Opid(p, n)) /\ Made(n, Opid(p, n)) /\ Opid(p, n) \in Int
<1>1. synthio_iocnt \in Nat /\ config.endiocnt \in Nat /\ n \in Nat
  BY ConfigParts DEF Typed
<1>2. ASSUME NEW p2 \in Procs, NEW m \in 0..synthio_iocnt, m < config.endiocnt, Opid(p, n) = Opid(p2, m)
      PROVE  FALSE
  <2> DEFINE E == config.endiocnt
             x == p - 1
             y == p2 - 1
  <2>1. x \in Int /\ y \in Int
    BY ProcsAreNumbers
  <2>2. E * x + n = E * y + m
    BY <1>2 DEF Opid
  <2>3. E \in Nat /\ m \in Nat /\ n \in Nat /\ n < E /\ m < E /\ m < n
    BY <1>1, <1>2
  <2> HIDE DEF E, x, y
  <2> DEFINE d == y - x
  <2>4. d \in Int /\ E * d = n - m
    BY <2>1, <2>2, <2>3
  <2> HIDE DEF d
  <2>5. CASE d <= 0
    <3>1. E * d <= 0
      BY <2>3, <2>4, <2>5
    <3> QED BY <2>3, <2>4, <3>1
  <2>6. CASE d >= 1
    <3>1. E * d >= E
      BY <2>3, <2>4, <2>6
    <3> QED BY <2>3, <2>4, <3>1
  <2> QED BY <2>4, <2>5, <2>6
<1>3. ~Made(synthio_iocnt, Opid(p, n))
  BY <1>2 DEF Made
<1>4. Made(n, Opid(p, n))
  BY <1>1 DEF Made
<1> QED BY <1>1, <1>3, <1>4, OpidIsNumber


\* A generator makes a request, or none when it made its last.
LEMMA SynthioMoves ==
  ASSUME NEW T, NEW c, NEW q, Before(T, c, q), Now(q), Handled(c, q, "SYNTHIO_EVENT", HandleSynthio)
  PROVE  NowNext
<1> DEFINE x == cpus[c].procp
           a == cpus[1].intrs
           n == synthio_iocnt + 1
           o1 == Opid(x, n)
<1>1. GeneratesOn(c, q)
  BY GeneratorGoesOn
<1>2. PICK U, s, stops :
       /\ Before(U, c, q) /\ InProc(c, U)
       /\ s \in Seq(FlowEvents(U))
       /\ pendiolist' = pendiolist /\ queue' = queue /\ synthio_iocnt' = synthio_iocnt + 1
       /\ ~stops => synthio_iocnt' < config.endiocnt
       /\ Continue(c, CpuChanged(c, cpus[c]), WithList(procs, cpus[c].procp, s), q, stops, FALSE)
       /\ \/ s = <<Synthio>>
          \/ /\ ~stops
             /\ \E listed, over, think, class :
                   /\ listed \in Seq(LimitEvents(U)) /\ over \in 0..Len(listed)
                   /\ s = Appended(<<Synthio>>, listed, over, Opid(cpus[c].procp, synthio_iocnt + 1), think, class)
  BY <1>1, Zenon DEF GeneratesOn
<1> DEFINE R == WithList(procs, x, s)
<1>3. /\ Typed(U) /\ c \in Cpus /\ q \in Agendas(QueueEvents) /\ procs \in ProcTables(U) /\ cpus[c] \in CpuRecords
  BY <1>2, BeforeParts, CpuChangedFacts DEF Typed
<1>4. x \in Procs /\ x # Nobody
  BY <1>2 DEF InProc
<1>5. /\ \A kind, p, k, o : Holds(procs', cpus'[1].intrs, queue', agenda', kind, p, k, o)
                               => Holds(R, a, queue, q, kind, p, k, o)
      /\ \A o, cause : AtMostOnce(q, Interrupt(o, cause)) => AtMostOnce(agenda', Interrupt(o, cause))
  <2> DEFINE w == cpus[c]
             bad == FALSE
  <2>1. /\ (c = 1 => a = w.intrs) /\ (c # 1 => a = cpus[1].intrs)
        /\ Continue(c, CpuChanged(c, w), R, q, stops, bad) /\ w \in CpuRecords
    BY <1>2, <1>3
  <2> HIDE DEF R, w, bad, a
  <2>2. /\ \A Q, kind, p, k, o : Holds(procs', cpus'[1].intrs, Q, agenda', kind, p, k, o)
                                     => Holds(R, a, Q, q, kind, p, k, o)
        /\ \A o, cause : AtMostOnce(q, Interrupt(o, cause)) => AtMostOnce(agenda', Interrupt(o, cause))
    BY <1>3, <2>1, ContinueGives
  <2> QED BY <1>2, <2>2
<1>6. \A o \in Int, cause \in Causes : AtMostOnce(agenda', Interrupt(o, cause))
  BY <1>5 DEF Now, Custody
<1>7. \A kind, p, k, o : InList(R, kind, p, k, o) =>
          \/ InList(procs, kind, p, k, o)
          \/ p = x /\ kind \in Requests /\ Has(s, {kind}, k, o)
  <2> SUFFICES ASSUME NEW kind, NEW p, NEW k, NEW o, InList(R, kind, p, k, o)
               PROVE  \/ InList(procs, kind, p, k, o)
                      \/ p = x /\ kind \in Requests /\ Has(s, {kind}, k, o)
    OBVIOUS
  <2>1. InList(WithList(procs, x, s), kind, p, k, o) /\ procs \in ProcTables(U) /\ x \in Procs /\ s \in Seq(FlowEvents(U))
    BY <1>2, <1>3, <1>4
  <2> HIDE DEF x, R
  <2>2. \/ p # x /\ InList(procs, kind, p, k, o)
        \/ p = x /\ kind \in {"IOREQ_EVENT", "IO_ACCESS_ARRIVE"} /\ Has(s, {kind}, k, o)
    BY <2>1, ListHolds
  <2> QED BY <2>2 DEF Requests
<1>8. /\ \A o : Made(synthio_iocnt, o) => Made(synthio_iocnt', o)
      /\ synthio_iocnt \in Int
  <2>1. synthio_iocnt \in Nat
    BY <1>3, ConfigParts DEF Typed
  <2> QED BY <1>2, <2>1, MadeMore
<1> HIDE DEF R, a, x
<1>9. CASE s = <<Synthio>>
  <2>1. ASSUME NEW kind \in Requests, NEW k, NEW o, Has(s, {kind}, k, o)
        PROVE  FALSE
    <3>1. k = 0 /\ At(s, k) = Synthio
      BY <1>9, <2>1 DEF Has, At
    <3>2. Synthio.type = kind
      BY <2>1, <3>1 DEF Has
    <3> QED BY <3>2 DEF Synthio, Event, Requests
  <2>2. \A kind, p, k, o : Holds(procs', cpus'[1].intrs, queue', agenda', kind, p, k, o)
                              => Holds(procs, a, queue, q, kind, p, k, o)
    BY <1>5, <1>7, <2>1, ZenonT(120) DEF Holds
  <2> QED BY <1>2, <1>6, <1>8, <2>2, CustodyMoves DEF Now, NowNext, a
<1>10. CASE ~stops /\ \E listed, over, think, class :
                   /\ listed \in Seq(LimitEvents(U)) /\ over \in 0..Len(listed)
                   /\ s = Appended(<<Synthio>>, listed, over, Opid(cpus[c].procp, synthio_iocnt + 1), think, class)
  <2>1. /\ ~Made(synthio_iocnt, o1) /\ Made(n, o1) /\ o1 \in Int
    BY <1>2, <1>3, <1>4, <1>10, OpidIsNew
  <2>2. PICK k1 : OneRequest(s, o1, k1)
    <3>1. PICK listed, over, think, class :
                   /\ listed \in Seq(LimitEvents(U)) /\ over \in 0..Len(listed)
                   /\ s = Appended(<<Synthio>>, listed, over, o1, think, class)
      BY <1>10 DEF x
    <3> HIDE DEF o1
    <3> QED BY <3>1, AppendedRequests
  <2> HIDE DEF o1
  <2>3. \A kind, p, k, o : p = x /\ kind \in Requests /\ Has(s, {kind}, k, o)
                                => o = o1 /\ kind = "IOREQ_EVENT" /\ p = x /\ k = k1
    BY <2>2 DEF OneRequest
  <2>4. \A kind, p, k, o : Holds(procs', cpus'[1].intrs, queue', agenda', kind, p, k, o) =>
          \/ Holds(procs, a, queue, q, kind, p, k, o)
          \/ o = o1 /\ kind = "IOREQ_EVENT" /\ p = x /\ k = k1
    <3> SUFFICES ASSUME NEW kind, NEW p, NEW k, NEW o, Holds(procs', cpus'[1].intrs, queue', agenda', kind, p, k, o)
                 PROVE  \/ Holds(procs, a, queue, q, kind, p, k, o)
                        \/ o = o1 /\ kind = "IOREQ_EVENT" /\ p = x /\ k = k1
      OBVIOUS
    <3>1. Holds(R, a, queue, q, kind, p, k, o)
      BY <1>5
    <3>2. CASE InList(R, kind, p, k, o)
      BY <1>7, <2>3, <3>2 DEF Holds
    <3>3. CASE ~InList(R, kind, p, k, o)
      BY <3>1, <3>3 DEF Holds
    <3> QED BY <3>2, <3>3
  <2>5. Custody(procs, a, queue, q, pendiolist, synthio_iocnt)
    BY DEF Now, a
  <2>6. Made(synthio_iocnt', o1) /\ pendiolist' = pendiolist
    BY <1>2, <2>1
  <2>7. Custody(procs', cpus'[1].intrs, queue', agenda', pendiolist', synthio_iocnt')
    BY <1>6, <1>8, <2>1, <2>4, <2>5, <2>6, OneAppears
  <2> QED BY <2>7 DEF NowNext
<1> QED BY <1>2, <1>9, <1>10



(***************************************************************************)
(* Interrupts.                                                              *)
(***************************************************************************)
LEMMA RetimedHolds ==
  ASSUME NEW T, procs \in ProcTables(T), NEW P, SameEvents(P), NEW kind, NEW p, NEW k, NEW o, InList(P, kind, p, k, o)
  PROVE  InList(procs, kind, p, k, o)
<1> DEFINE s == procs[p].events
           l == P[p].events
           types == {kind}
<1>1. p \in Procs /\ kind \in {"IOREQ_EVENT", "IO_ACCESS_ARRIVE"} /\ Has(l, types, k, o)
  BY DEF InList
<1>2. s \in Seq(FlowEvents(T)) /\ TimeChanged(s, l)
  BY <1>1, ProcRecordParts DEF SameEvents, ProcTables
<1> HIDE DEF s, l, types
<1>3. Has(s, types, k, o)
  <2>1. CASE l = s
    BY <1>1, <2>1
  <2>2. CASE s # <<>> /\ \E t : l = [s EXCEPT ![1] = [s[1] EXCEPT !.time = t]]
    <3>1. PICK t : l = [s EXCEPT ![1] = [s[1] EXCEPT !.time = t]]
      BY <2>2
    <3> DEFINE e == [s[1] EXCEPT !.time = t]
    <3>2. e.type = s[1].type /\ e.arg = s[1].arg
      <4>1. s[1] \in FlowEvents(T)
        BY <1>2, <2>2
      <4> QED BY <4>1 DEF FlowEvents
    <3>3. Has([s EXCEPT ![1] = e], types, k, o)
      BY <1>1, <3>1
    <3>4. e = [s[1] EXCEPT !.time = t]
      OBVIOUS
    <3> HIDE DEF e
    <3> QED BY <1>2, <2>2, <3>2, <3>3, <3>4, HasTime
  <2> QED BY <1>2, <2>1, <2>2 DEF TimeChanged
<1> QED BY <1>1, <1>3 DEF InList, s, types

LEMMA RearmedHolds ==
  ASSUME NEW T, Typed(T), NEW q \in Agendas(QueueEvents), GoodEvent(1, cpus[1], q), NEW more
  PROVE  /\ \A o, cause : Pending(Rearmed(q, more), Interrupt(o, cause)) => Pending(q, Interrupt(o, cause))
         /\ \A o, cause : AtMostOnce(q, Interrupt(o, cause)) => AtMostOnce(Rearmed(q, more), Interrupt(o, cause))
<1> DEFINE e == CpuEvent(1)
           a == Quieted(q)
           r == Rearmed(q, more)
           k == cpus[1]
<1>1. (Pending(q, e) <=> k.state # "CPU_IDLE") /\ AtMostOnce(q, e)
  BY DEF GoodEvent
<1> HIDE DEF e, k
<1>2. /\ a \in Agendas(QueueEvents)
      /\ \A x : Pending(a, x) => Pending(q, x)
      /\ \A x : AtMostOnce(q, x) => AtMostOnce(a, x)
  <2>1. CASE k.state # "CPU_IDLE"
    <3>1. a = Cancel(q, e)
      BY <2>1 DEF Quieted, k, e
    <3>2. /\ Cancel(q, e) \in Agendas(QueueEvents)
          /\ \A x : Pending(Cancel(q, e), x) <=> (x # e /\ Pending(q, x))
          /\ \A x : AtMostOnce(q, x) => AtMostOnce(Cancel(q, e), x)
      BY <1>1, <2>1, CancelFacts
    <3> HIDE DEF a
    <3> QED BY <3>1, <3>2
  <2>2. CASE k.state = "CPU_IDLE"
    <3>1. a = q
      BY <2>2 DEF Quieted, k
    <3> HIDE DEF a
    <3> QED BY <3>1
  <2> QED BY <2>1, <2>2
<1>3. r = a \/ r = Put(a, ClockInterrupt, 1)
  BY DEF Rearmed
<1> HIDE DEF a
<1>4. ClockInterrupt \in QueueEvents /\ \A o, cause : Interrupt(o, cause) # ClockInterrupt
  BY DEF QueueEvents, ClockInterrupt, Interrupt
<1>5. /\ \A x : Pending(Put(a, ClockInterrupt, 1), x) <=> (x = ClockInterrupt \/ Pending(a, x))
      /\ \A x : AtMostOnce(a, x) /\ (x # ClockInterrupt \/ ~Pending(a, x)) => AtMostOnce(Put(a, ClockInterrupt, 1), x)
  BY <1>2, <1>4, PutFacts
<1> HIDE DEF r
<1>6. /\ \A o, cause : Pending(r, Interrupt(o, cause)) => Pending(q, Interrupt(o, cause))
      /\ \A o, cause : AtMostOnce(q, Interrupt(o, cause)) => AtMostOnce(r, Interrupt(o, cause))
  BY <1>2, <1>3, <1>4, <1>5
<1> QED BY <1>6 DEF r

\* An interrupt moves nothing but what it brings.
InterruptBrings(q, intr) ==
    /\ \A kind, p, k, o : Holds(procs', cpus'[1].intrs, queue', agenda', kind, p, k, o) =>
          \/ Holds(procs, cpus[1].intrs, queue, q, kind, p, k, o)
          \/ kind = "interrupt" /\ p = Len(cpus[1].intrs) /\ Has(intr.events, Bearing(intr.cause), k, o)
    /\ \A o, cause : AtMostOnce(q, Interrupt(o, cause)) => AtMostOnce(agenda', Interrupt(o, cause))
    /\ pendiolist' = pendiolist /\ synthio_iocnt' = synthio_iocnt

LEMMA InterruptHolds ==
  ASSUME NEW T, Typed(T), Running, ~stop_sim,
         NEW q \in Agendas(QueueEvents), \A d \in Cpus : GoodEvent(d, cpus[d], q),
         NEW intr \in Intrs, EndsIn(intr.events, "INTEND_EVENT"), NEW more,
         Interrupted(q, intr, more)
  PROVE  InterruptBrings(q, intr)
<1> DEFINE k == cpus[1]
           a == k.intrs
           r == Rearmed(q, more)
           rec == [intr EXCEPT !.oldstate = k.state]
           b == <<rec>> \o a
<1>0. /\ 1 \in Cpus /\ k \in CpuRecords /\ procs \in ProcTables(T) /\ GoodEvent(1, k, q)
  BY ConfigParts DEF Typed
<1>1. PICK i, P : InterruptedTo(T, q, intr, more, i, P)
  BY InterruptGoesOn DEF InterruptsOn
<1> DEFINE w == Taken(k, i, intr)
<1>2. /\ P \in ProcTables(T) /\ SameEvents(P) /\ w \in CpuRecords
      /\ r \in Agendas(QueueEvents)
      /\ Continue(1, CpuChanged(1, w), P, r, FALSE, FALSE)
      /\ pendiolist' = pendiolist /\ synthio_iocnt' = synthio_iocnt /\ queue' = queue
  BY <1>1 DEF InterruptedTo
<1>3. w.intrs = b
  BY DEF Taken
<1>4. rec \in Intrs /\ rec.events = intr.events /\ rec.cause = intr.cause /\ a \in Seq(Intrs)
  <2>1. k.state \in CpuStates /\ a \in Seq(Intrs)
    BY <1>0, CpuRecordParts
  <2> HIDE DEF k
  <2> QED BY <2>1 DEF Intrs
<1> HIDE DEF w, rec
<1>5. /\ \A kind, p, n, o : Holds(procs', cpus'[1].intrs, queue', agenda', kind, p, n, o)
                               => Holds(P, b, queue, r, kind, p, n, o)
      /\ \A o, cause : AtMostOnce(r, Interrupt(o, cause)) => AtMostOnce(agenda', Interrupt(o, cause))
  <2> DEFINE bad == FALSE
             c == 1
  <2>1. /\ c \in Cpus /\ (c = 1 => b = w.intrs) /\ (c # 1 => b = cpus[1].intrs)
        /\ Continue(c, CpuChanged(c, w), P, r, bad, bad)
    BY <1>0, <1>2, <1>3
  <2> HIDE DEF bad, c, r, b
  <2>2. /\ \A Q, kind, p, n, o : Holds(procs', cpus'[1].intrs, Q, agenda', kind, p, n, o)
                                     => Holds(P, b, Q, r, kind, p, n, o)
        /\ \A o, cause : AtMostOnce(r, Interrupt(o, cause)) => AtMostOnce(agenda', Interrupt(o, cause))
    BY <1>2, <2>1, ContinueGives
  <2> QED BY <1>2, <2>2
<1>6. /\ \A o, cause : Pending(r, Interrupt(o, cause)) => Pending(q, Interrupt(o, cause))
      /\ \A o, cause : AtMostOnce(q, Interrupt(o, cause)) => AtMostOnce(r, Interrupt(o, cause))
  <2> HIDE DEF r
  <2>1. GoodEvent(1, cpus[1], q)
    BY <1>0
  <2> QED BY <2>1, RearmedHolds DEF r
<1> HIDE DEF r
<1>7. ASSUME NEW kind, NEW p, NEW n, NEW o, Holds(P, b, queue, r, kind, p, n, o)
      PROVE  \/ Holds(procs, a, queue, q, kind, p, n, o)
             \/ kind = "interrupt" /\ p = Len(a) /\ Has(intr.events, Bearing(intr.cause), n, o)
  <2>1. CASE InList(P, kind, p, n, o)
    <3>1. InList(procs, kind, p, n, o)
      BY <1>0, <1>2, <2>1, RetimedHolds
    <3> QED BY <3>1 DEF Holds
  <2>2. CASE InIntrs(b, kind, p, n, o)
    <3> HIDE DEF a
    <3>1. \/ InIntrs(a, kind, p, n, o)
          \/ kind = "interrupt" /\ p = Len(a) /\ Has(rec.events, Bearing(rec.cause), n, o)
      BY <1>4, <2>2, IntrsPushed
    <3> QED BY <1>4, <3>1 DEF Holds
  <2>3. CASE InQueue(queue, kind, p, n, o)
    BY <2>3 DEF Holds
  <2>4. CASE InAgenda(r, kind, p, n, o)
    BY <1>6, <2>4 DEF Holds, InAgenda
  <2> QED BY <1>7, <2>1, <2>2, <2>3, <2>4 DEF Holds
<1> HIDE DEF b
<1> QED BY <1>2, <1>5, <1>6, <1>7 DEF InterruptBrings


LEMMA ClockMoves ==
  ASSUME NEW T, Typed(T), Running, ~stop_sim,
         NEW q \in Agendas(QueueEvents), \A d \in Cpus : GoodEvent(d, cpus[d], q), Now(q), ClockIntr(q)
  PROVE  NowNext
<1> DEFINE s == <<Intend>>
           intr == Intr("CLOCK", s)
           more == {ClockInterrupt}
           a == cpus[1].intrs
<1>1. InterruptBrings(q, intr)
  <2>1. intr \in Intrs /\ EndsIn(intr.events, "INTEND_EVENT")
    BY ClockIntrIsIntr
  <2>2. Interrupted(q, intr, more)
    BY DEF ClockIntr
  <2> HIDE DEF intr, more
  <2> QED BY <2>1, <2>2, InterruptHolds
<1>2. intr.events = s /\ intr.cause = "CLOCK"
  BY DEF Intr
<1>3. \A k, o : ~Has(s, Bearing("CLOCK"), k, o)
  <2> SUFFICES ASSUME NEW k, NEW o, Has(s, Bearing("CLOCK"), k, o) PROVE FALSE
    OBVIOUS
  <2>1. At(s, k) = Intend
    BY DEF Has, At
  <2> QED BY <2>1 DEF Has, Bearing, Intend, Event
<1> HIDE DEF intr, s
<1>4. \A kind, p, k, o : Holds(procs', cpus'[1].intrs, queue', agenda', kind, p, k, o)
                            => Holds(procs, a, queue, q, kind, p, k, o)
  BY <1>1, <1>2, <1>3 DEF InterruptBrings
<1>5. \A o \in Int, cause \in Causes : AtMostOnce(agenda', Interrupt(o, cause))
  BY <1>1 DEF InterruptBrings, Now, Custody
<1>6. pendiolist' = pendiolist /\ synthio_iocnt' = synthio_iocnt
  BY <1>1 DEF InterruptBrings
<1> QED BY <1>4, <1>5, <1>6, CustodyMoves DEF Now, NowNext

\* The list of the interrupt of a device carries its request once: in its
\* response, or in its completion if there is no interrupt to follow.
LEMMA IoIntrBears ==
  ASSUME NEW e, NEW k, NEW o, Has(IoIntrEvents(e), Bearing(e.cause), k, o)
  PROVE  k = 1 /\ o = e.arg
<1> DEFINE s == IoIntrEvents(e)
           respond == Event("IO_RESPOND_TO_DEVICE", 0, e.arg)
           complete == Event("IO_ACCESS_COMPLETE", 0, e.arg)
<1>1. CASE e.cause = "COMPLETION"
  <2>1. s = <<respond>> \o <<complete>> \o <<Intend>>
    BY <1>1 DEF IoIntrEvents
  <2>2. Len(s) = 3 /\ s[1] = respond /\ s[2] = complete /\ s[3] = Intend
    BY <2>1
  <2> HIDE DEF s
  <2>3. k \in 0..2 /\ s[3 - k].type \in Bearing(e.cause) /\ s[3 - k].arg = o
    BY <2>2 DEF Has, At, s
  <2>4. respond.type \notin Bearing(e.cause) /\ Intend.type \notin Bearing(e.cause) /\ complete.arg = e.arg
    BY <1>1 DEF Bearing, Intend, Event
  <2>5. k = 0 \/ k = 1 \/ k = 2
    BY <2>3
  <2> HIDE DEF respond, complete
  <2> QED BY <2>2, <2>3, <2>4, <2>5
<1>2. CASE e.cause # "COMPLETION"
  <2>1. s = <<respond>> \o <<>> \o <<Intend>>
    BY <1>2 DEF IoIntrEvents
  <2>2. Len(s) = 2 /\ s[1] = respond /\ s[2] = Intend
    BY <2>1
  <2> HIDE DEF s
  <2>3. k \in 0..1 /\ s[2 - k].type \in Bearing(e.cause) /\ s[2 - k].arg = o
    BY <2>2 DEF Has, At, s
  <2>4. Intend.type \notin Bearing(e.cause) /\ respond.arg = e.arg
    BY DEF Bearing, Intend, Event
  <2>5. k = 0 \/ k = 1
    BY <2>3
  <2> HIDE DEF respond
  <2> QED BY <2>2, <2>3, <2>4, <2>5
<1> QED BY <1>1, <1>2

LEMMA IoIntrMoves ==
  ASSUME NEW T, Typed(T), Running, ~stop_sim,
         NEW t \in Agendas(QueueEvents), Now(t), NEW e, e \in QueueEvents, e.type = "IO_INTERRUPT", Pending(t, e),
         NEW q \in Agendas(QueueEvents), \A d \in Cpus : GoodEvent(d, cpus[d], q),
         \A x : Pending(q, x) => Pending(t, x), AtMostOnce(t, e) => ~Pending(q, e),
         \A x : AtMostOnce(t, x) => AtMostOnce(q, x),
         IoIntr(e, q)
  PROVE  NowNext
<1> DEFINE intr == Intr(e.cause, IoIntrEvents(e))
           o1 == e.arg
           cause == e.cause
           a == cpus[1].intrs
           more == {}
<1>0. o1 \in Int /\ cause \in Causes /\ e = Interrupt(o1, cause)
  <2>1. ClockInterrupt.type # "IO_INTERRUPT" /\ \A c \in Cpus : CpuEvent(c).type # "IO_INTERRUPT"
    BY DEF CpuEvent, ClockInterrupt
  <2>2. e \in [type : {"IO_INTERRUPT"}, arg : Int, cause : Causes]
    BY <2>1 DEF QueueEvents
  <2> QED BY <2>2 DEF Interrupt
<1>1. InterruptBrings(q, intr)
  <2>1. intr \in Intrs /\ EndsIn(intr.events, "INTEND_EVENT")
    BY <1>0, IoIntrIsIntr
  <2>2. Interrupted(q, intr, more)
    BY DEF IoIntr
  <2> HIDE DEF intr, more
  <2> QED BY <2>1, <2>2, InterruptHolds
<1>2. intr.events = IoIntrEvents(e) /\ intr.cause = cause
  BY DEF Intr
<1> HIDE DEF intr
<1>3. \A k, o : Has(intr.events, Bearing(intr.cause), k, o) => k = 1 /\ o = o1
  BY <1>2, IoIntrBears
<1> HIDE DEF o1, cause
<1>4. Holds(procs, a, queue, t, cause, 0, 0, o1) /\ cause \notin {"interrupt", "IOREQ_EVENT", "IO_ACCESS_ARRIVE", "queue"}
  BY <1>0, CauseNames DEF Holds, InAgenda
<1>5. ~Pending(q, e)
  BY <1>0 DEF Now, Custody
<1>6. \E x \in pendiolist : x.opid = o1
  BY <1>0, <1>4 DEF Now, Custody, a
<1>7. ASSUME NEW kind, NEW p, NEW k, NEW o, Holds(procs', cpus'[1].intrs, queue', agenda', kind, p, k, o)
      PROVE  \/ Holds(procs, a, queue, t, kind, p, k, o) /\ ~(o = o1 /\ kind = cause /\ p = 0 /\ k = 0)
             \/ o = o1 /\ kind = "interrupt" /\ p = Len(a) /\ k = 1
  <2>1. \/ Holds(procs, a, queue, q, kind, p, k, o)
        \/ kind = "interrupt" /\ p = Len(a) /\ Has(intr.events, Bearing(intr.cause), k, o)
    BY <1>1, <1>7 DEF InterruptBrings
  <2>2. CASE InAgenda(q, kind, p, k, o)
    BY <1>0, <1>5, <2>2 DEF Holds, InAgenda
  <2>3. CASE Holds(procs, a, queue, q, kind, p, k, o) /\ ~InAgenda(q, kind, p, k, o)
    BY <1>4, <2>3 DEF Holds, InList, InIntrs, InQueue
  <2>4. CASE kind = "interrupt" /\ p = Len(a) /\ Has(intr.events, Bearing(intr.cause), k, o)
    BY <1>3, <2>4
  <2> QED BY <2>1, <2>2, <2>3, <2>4
<1>8. \A o \in Int, x \in Causes : AtMostOnce(agenda', Interrupt(o, x))
  BY <1>1 DEF InterruptBrings, Now, Custody
<1>9. pendiolist' = pendiolist /\ synthio_iocnt' = synthio_iocnt
  BY <1>1 DEF InterruptBrings
<1> DEFINE kind1 == "interrupt"
           p1 == Len(a)
           k1 == 1
           z == 0
<1>10. /\ Custody(procs, a, queue, t, pendiolist, synthio_iocnt)
       /\ kind1 # "IOREQ_EVENT" => \E x \in pendiolist' : x.opid = o1
       /\ \A o : Made(synthio_iocnt, o) => Made(synthio_iocnt', o)
       /\ \A o : (\E x \in pendiolist : x.opid = o) => \E x \in pendiolist' : x.opid = o
       /\ o1 \in Int
       /\ Holds(procs, a, queue, t, cause, z, z, o1)
       /\ \A kind, p, k, o : Holds(procs', cpus'[1].intrs, queue', agenda', kind, p, k, o) =>
             \/ Holds(procs, a, queue, t, kind, p, k, o) /\ ~(o = o1 /\ kind = cause /\ p = z /\ k = z)
             \/ o = o1 /\ kind = kind1 /\ p = p1 /\ k = k1
  BY <1>0, <1>4, <1>6, <1>7, <1>9 DEF Now, o1
<1> HIDE DEF a, kind1, p1, k1, z
<1>11. Custody(procs', cpus'[1].intrs, queue', agenda', pendiolist', synthio_iocnt')
  <2> DEFINE P2 == procs'
             a2 == cpus'[1].intrs
             Q2 == queue'
             q2 == agenda'
             L2 == pendiolist'
             n2 == synthio_iocnt'
  <2>1. /\ Custody(procs, a, queue, t, pendiolist, synthio_iocnt)
        /\ kind1 # "IOREQ_EVENT" => \E x \in L2 : x.opid = o1
        /\ o1 \in Int
        /\ Holds(procs, a, queue, t, cause, z, z, o1)
    BY <1>10
  <2>2. \A o : Made(synthio_iocnt, o) => Made(n2, o)
    BY <1>10
  <2>3. \A o : (\E x \in pendiolist : x.opid = o) => \E x \in L2 : x.opid = o
    BY <1>10
  <2>4. \A kind, p, k, o : Holds(P2, a2, Q2, q2, kind, p, k, o) =>
             \/ Holds(procs, a, queue, t, kind, p, k, o) /\ ~(o = o1 /\ kind = cause /\ p = z /\ k = z)
             \/ o = o1 /\ kind = kind1 /\ p = p1 /\ k = k1
    BY <1>10
  <2>5. \A o \in Int, x \in Causes : AtMostOnce(q2, Interrupt(o, x))
    BY <1>8
  <2> HIDE DEF P2, a2, Q2, q2, L2, n2
  <2>6. Custody(P2, a2, Q2, q2, L2, n2)
    BY <2>1, <2>2, <2>3, <2>4, <2>5, OneMoves
  <2> QED BY <2>6 DEF P2, a2, Q2, q2, L2, n2
<1> QED BY <1>11 DEF NowNext



(***************************************************************************)
(* The main loop.                                                           *)
(***************************************************************************)

\* What is under way in the agenda, but for interrupts that are gone
LEMMA FewerPending ==
  ASSUME NEW q, NEW q2, Now(q), \A x : Pending(q2, x) => Pending(q, x), \A x : AtMostOnce(q, x) => AtMostOnce(q2, x)
  PROVE  Now(q2)
<1> DEFINE a == cpus[1].intrs
<1>1. \A kind, p, k, o : Holds(procs, a, queue, q2, kind, p, k, o) => Holds(procs, a, queue, q, kind, p, k, o)
  BY DEF Holds, InAgenda
<1>2. \A o \in Int, cause \in Causes : AtMostOnce(q2, Interrupt(o, cause))
  BY DEF Now, Custody
<1> QED BY <1>1, <1>2 DEF Now, Custody

LEMMA ProcessorMoves ==
  ASSUME NEW T, NEW c, NEW q, Before(T, c, q), Now(q), ProcessorEvent(c, q)
  PROVE  NowNext /\ ~fault'
<1>1. CASE Handled(c, q, "CSWITCH_EVENT", HandleCSwitch)
  BY <1>1, CSwitchMoves, CSwitchKeeps
<1>2. CASE Handled(c, q, "SLEEP_EVENT", HandleSleep)
  BY <1>2, SleepMoves, SleepKeeps
<1>3. CASE Handled(c, q, "WAKEUP_EVENT", HandleWakeup)
  BY <1>3, WakeupMoves, WakeupKeeps
<1>4. CASE Handled(c, q, "SYNTHIO_EVENT", HandleSynthio)
  BY <1>4, SynthioMoves, SynthioKeeps
<1>5. CASE Handled(c, q, "IOREQ_EVENT", HandleIoreq)
  BY <1>5, IoreqMoves, IoreqKeeps
<1>6. CASE Handled(c, q, "IO_ACCESS_ARRIVE", HandleAccess)
  BY <1>6, AccessMoves, AccessKeeps
<1>7. CASE Handled(c, q, "IO_RESPOND_TO_DEVICE", HandleRespond)
  BY <1>7, RespondMoves, RespondKeeps
<1>8. CASE Handled(c, q, "IO_ACCESS_COMPLETE", HandleAccessComplete)
  BY <1>8, AccessCompleteMoves
<1>9. CASE Handled(c, q, "INTEND_EVENT", HandleIntend)
  BY <1>9, IntendMoves, IntendKeeps
<1> QED BY <1>1, <1>2, <1>3, <1>4, <1>5, <1>6, <1>7, <1>8, <1>9 DEF ProcessorEvent

LEMMA TurnMoves ==
  ASSUME NEW T, Typed(T), Running, WorkIsRun, WakeupComes, Now(agenda), NEW events, Turn(events)
  PROVE  NowNext /\ ~fault'
<1>1. PICK t \in Turns(agenda, config.atonce) : Simulate(Head(t.soon), Rest(t))
  BY DEF Turn
<1> DEFINE e == Head(t.soon)
           q == Rest(t)
<1>2. /\ e \in QueueEvents /\ q \in Agendas(QueueEvents)
      /\ \A d \in Cpus : CpuEvent(d) # e => GoodEvent(d, cpus[d], q)
      /\ \A c \in Cpus : CpuEvent(c) = e => OthersGood(c, q)
  BY TakenFromAgenda
<1>3. ~stop_sim
  BY DEF Turn
<1>4. agenda \in Agendas(QueueEvents) /\ config.atonce \in Nat
  BY ConfigParts DEF Typed
<1>5. /\ t \in Agendas(QueueEvents) /\ t.soon # <<>>
      /\ \A x : Pending(t, x) => Pending(agenda, x)
      /\ \A x : AtMostOnce(agenda, x) => AtMostOnce(t, x)
  BY <1>4, TurnFacts
<1>6. /\ Pending(t, e)
      /\ \A x : Pending(q, x) => Pending(t, x)
      /\ AtMostOnce(t, e) => ~Pending(q, e)
      /\ \A x : AtMostOnce(t, x) => AtMostOnce(q, x)
  BY <1>5, RestFacts
<1> HIDE DEF e, q
<1>7. Now(t)
  BY <1>5, FewerPending
<1>8. Now(q)
  BY <1>6, <1>7, FewerPending
<1>9. Simulate(e, q)
  BY <1>1 DEF e, q
<1>10. CASE e.type = "CPU_EVENT" /\ ProcessorEvent(e.arg, q)
  <2>0. e.type = "CPU_EVENT" /\ ClockInterrupt.type = "CLOCK_INTERRUPT"
    BY <1>10 DEF ClockInterrupt
  <2>1. PICK c \in Cpus : e = CpuEvent(c)
    BY <1>2, <2>0 DEF QueueEvents
  <2>2. Before(T, c, q)
    BY <1>2, <1>3, <2>1 DEF Before
  <2>3. ProcessorEvent(c, q)
    BY <1>10, <2>1 DEF CpuEvent
  <2> QED BY <1>8, <2>2, <2>3, ProcessorMoves
<1>11. CASE e.type = "IO_INTERRUPT" /\ IoIntr(e, q)
  <2>0. \A d \in Cpus : CpuEvent(d).type = "CPU_EVENT"
    BY DEF CpuEvent
  <2>1. \A d \in Cpus : CpuEvent(d) # e
    BY <1>11, <2>0
  <2>2. \A d \in Cpus : GoodEvent(d, cpus[d], q)
    BY <1>2, <2>1
  <2>3. NowNext
    BY <1>2, <1>3, <1>5, <1>6, <1>7, <1>11, <2>2, IoIntrMoves
  <2>4. e.arg \in Int /\ e.cause \in Causes
    <3>1. ClockInterrupt.type # "IO_INTERRUPT"
      BY DEF ClockInterrupt
    <3> QED BY <1>2, <1>11, <2>1, <3>1 DEF QueueEvents
  <2> DEFINE intr == Intr(e.cause, IoIntrEvents(e))
  <2>5. intr \in Intrs /\ EndsIn(intr.events, "INTEND_EVENT")
    BY <2>4, IoIntrIsIntr
  <2>6. Interrupted(q, intr, {})
    BY <1>11 DEF IoIntr
  <2> HIDE DEF intr
  <2>7. ~fault'
    BY <1>2, <1>3, <2>2, <2>5, <2>6, InterruptedKeeps
  <2> QED BY <2>3, <2>7
<1>12. CASE e.type = "CLOCK_INTERRUPT" /\ ClockIntr(q)
  <2>0. \A d \in Cpus : CpuEvent(d).type = "CPU_EVENT"
    BY DEF CpuEvent
  <2>1. \A d \in Cpus : CpuEvent(d) # e
    BY <1>12, <2>0
  <2>2. \A d \in Cpus : GoodEvent(d, cpus[d], q)
    BY <1>2, <2>1
  <2>3. NowNext
    BY <1>2, <1>3, <1>8, <1>12, <2>2, ClockMoves
  <2> DEFINE intr == Intr("CLOCK", <<Intend>>)
             more == {ClockInterrupt}
  <2>4. intr \in Intrs /\ EndsIn(intr.events, "INTEND_EVENT")
    BY ClockIntrIsIntr
  <2>5. Interrupted(q, intr, more)
    BY <1>12 DEF ClockIntr
  <2> HIDE DEF intr, more
  <2>6. ~fault'
    BY <1>2, <1>3, <2>2, <2>4, <2>5, InterruptedKeeps
  <2> QED BY <2>3, <2>6
<1> QED BY <1>9, <1>10, <1>11, <1>12 DEF Simulate

LEMMA SamePlaces ==
  ASSUME config' = config, NEW P, NEW a, NEW Q, NEW q, NEW L, NEW n
  PROVE  Custody(P, a, Q, q, L, n)' <=> Custody(P, a, Q, q, L, n)
<1>1. Devices' = Devices /\ Causes' = Causes
  BY DEF Devices, Causes
<1>2. \A o : Made(n, o)' <=> Made(n, o)
  BY DEF Made, Opid
<1>3. \A kind, p, k, o : Holds(P, a, Q, q, kind, p, k, o)' <=> Holds(P, a, Q, q, kind, p, k, o)
  BY <1>1 DEF Holds, InList, InIntrs, InQueue, InAgenda, Has, At, Bearing
<1> QED BY <1>1, <1>2, <1>3 DEF Custody

\* Each request is in one place, and it is pending when its process has issued it.
Placed == Now(agenda)
FaultInv == CoreInv /\ NoFault /\ Placed

LEMMA FaultStep ==
  ASSUME FaultInv, [Next]_vars
  PROVE  FaultInv'
<1>1. CoreInv'
  BY StepKeeps DEF FaultInv
<1>2. CASE UNCHANGED vars
  <2>1. config' = config /\ Placed
    BY <1>2 DEF vars, FaultInv
  <2>2. Custody(procs', cpus'[1].intrs, queue', agenda', pendiolist', synthio_iocnt')
    BY <1>2, <2>1 DEF vars, Placed, Now
  <2>3. Placed'
    BY <2>1, <2>2, SamePlaces DEF Placed, Now
  <2>4. NoFault'
    BY <1>2 DEF vars, FaultInv, NoFault
  <2> QED BY <1>1, <2>3, <2>4 DEF FaultInv
<1>3. ASSUME NEW events, Turn(events)
      PROVE  FaultInv'
  <2>1. PICK T : Typed(T)
    BY DEF FaultInv, CoreInv, BaseInv
  <2>2. NowNext /\ ~fault'
    BY <1>3, <2>1, TurnMoves DEF FaultInv, CoreInv, BaseInv, Placed
  <2>3. config' = config
    BY <1>3, SameConfig
  <2>4. Placed'
    BY <2>2, <2>3, SamePlaces DEF NowNext, Placed, Now
  <2> QED BY <1>1, <2>2, <2>4 DEF FaultInv, NoFault
<1> QED BY <1>2, <1>3 DEF Next, Progress, Tick, FaultInv


\* The first requests of two processes have different numbers.
LEMMA FirstOpids ==
  ASSUME NEW T, Typed(T), NEW p \in Procs, NEW p2 \in Procs, Opid(p, 0) = Opid(p2, 0)
  PROVE  p = p2
<1> DEFINE E == config.endiocnt
           x == p - 1
           y == p2 - 1
<1>1. p \in Int /\ p2 \in Int /\ x \in Int /\ y \in Int
  BY ProcsAreNumbers
<1>2. E * x = E * y /\ E \in Nat /\ E > 0
  <2>1. E \in Nat \ {0}
    BY ConfigParts
  <2>2. E * x + 0 = E * y + 0
    BY DEF Opid
  <2> HIDE DEF E, x, y
  <2> QED BY <1>1, <2>1, <2>2
<1>3. x = y
  <2> HIDE DEF E, x, y
  <2> DEFINE d == y - x
  <2>1. d \in Int /\ E * d = 0
    BY <1>1, <1>2
  <2> HIDE DEF d
  <2>2. ~(d >= 1) /\ ~(d <= -1)
    <3>1. d >= 1 => E * d >= E
      BY <1>2, <2>1
    <3>2. d <= -1 => E * d <= -E
      BY <1>2, <2>1
    <3> QED BY <1>2, <2>1, <3>1, <3>2
  <2>3. d = 0
    BY <2>1, <2>2
  <2> QED BY <1>1, <2>3 DEF d
<1> QED BY <1>1, <1>3

LEMMA FirstPlaced == Init => Placed
<1> SUFFICES ASSUME Init PROVE Placed
  OBVIOUS
<1> DEFINE a == cpus[1].intrs
<1>1. CoreInv /\ FirstRequests
  BY InitGives
<1>2. PICK T : Typed(T)
  BY <1>1 DEF CoreInv, BaseInv
<1>3. 1 \in Cpus /\ config.endiocnt \in Nat \ {0} /\ synthio_iocnt = 0
  BY <1>2, ConfigParts DEF Init
<1>4. a = <<>>
  BY <1>3 DEF Init
<1>5. \A d \in Devices : queue[d].waiting = {}
  BY DEF Init
<1>6. \A o, cause : ~Pending(agenda, Interrupt(o, cause))
  <2>1. \A x : Pending(agenda, x) => x = ClockInterrupt \/ \E c \in Cpus : x = CpuEvent(c)
    BY <1>1 DEF FirstRequests
  <2>2. \A o, cause : Interrupt(o, cause) # ClockInterrupt
    BY DEF Interrupt, ClockInterrupt
  <2>3. \A o, cause : \A c : Interrupt(o, cause) # CpuEvent(c)
    BY DEF Interrupt, CpuEvent
  <2> QED BY <2>1, <2>2, <2>3
<1>7. ASSUME NEW p \in Procs
      PROVE  \E k : OneRequest(procs[p].events, Opid(p, 0), k)
  <2>1. PICK U : \A r \in Procs : \E listed, over, think, class :
          /\ listed \in Seq(LimitEvents(U)) /\ over \in 0..Len(listed)
          /\ procs[r].events = Appended(<<Synthio>>, listed, over, Opid(r, 0), think, class)
    BY <1>1 DEF FirstRequests
  <2>2. PICK listed, over, think, class :
          /\ listed \in Seq(LimitEvents(U)) /\ over \in 0..Len(listed)
          /\ procs[p].events = Appended(<<Synthio>>, listed, over, Opid(p, 0), think, class)
    BY <2>1
  <2> DEFINE o == Opid(p, 0)
             s == procs[p].events
  <2>3. s = Appended(<<Synthio>>, listed, over, o, think, class)
    BY <2>2
  <2> HIDE DEF o, s
  <2>4. \E k : OneRequest(s, o, k)
    BY <2>2, <2>3, AppendedRequests
  <2> QED BY <2>4 DEF o, s
<1> HIDE DEF a
<1>8. ASSUME NEW kind, NEW p, NEW k, NEW o, Holds(procs, a, queue, agenda, kind, p, k, o)
      PROVE  /\ p \in Procs /\ kind = "IOREQ_EVENT" /\ o = Opid(p, 0)
             /\ \A n : OneRequest(procs[p].events, Opid(p, 0), n) => k = n
  <2>1. InList(procs, kind, p, k, o)
    <3>1. ~InIntrs(a, kind, p, k, o)
      BY <1>4 DEF InIntrs
    <3>2. ~InQueue(queue, kind, p, k, o) /\ ~InAgenda(agenda, kind, p, k, o)
      BY <1>5, <1>6 DEF InQueue, InAgenda
    <3> QED BY <1>8, <3>1, <3>2 DEF Holds
  <2>2. p \in Procs /\ kind \in Requests /\ Has(procs[p].events, {kind}, k, o)
    BY <2>1 DEF InList, Requests
  <2>3. \A n : OneRequest(procs[p].events, Opid(p, 0), n) => kind = "IOREQ_EVENT" /\ k = n /\ o = Opid(p, 0)
    BY <2>2 DEF OneRequest
  <2> QED BY <1>7, <2>2, <2>3
<1>9. ASSUME NEW o \in Int, NEW kind, NEW p, NEW k, Holds(procs, a, queue, agenda, kind, p, k, o)
      PROVE  /\ kind # "IOREQ_EVENT" => \E x \in pendiolist : x.opid = o
             /\ Made(synthio_iocnt, o)
             /\ \A kind2, p2, k2 : Holds(procs, a, queue, agenda, kind2, p2, k2, o)
                                      => kind2 = kind /\ p2 = p /\ k2 = k
  <2>1. p \in Procs /\ kind = "IOREQ_EVENT" /\ o = Opid(p, 0)
    BY <1>8, <1>9
  <2>2. PICK n : OneRequest(procs[p].events, Opid(p, 0), n)
    BY <1>7, <2>1
  <2>3. k = n
    BY <1>8, <1>9, <2>2
  <2>4. 0 \in 0..synthio_iocnt /\ 0 < config.endiocnt
    BY <1>3
  <2>5. Made(synthio_iocnt, o)
    BY <2>1, <2>4 DEF Made
  <2>6. ASSUME NEW kind2, NEW p2, NEW k2, Holds(procs, a, queue, agenda, kind2, p2, k2, o)
        PROVE  kind2 = kind /\ p2 = p /\ k2 = k
    <3>1. p2 \in Procs /\ kind2 = "IOREQ_EVENT" /\ o = Opid(p2, 0)
      BY <1>8, <2>6
    <3>2. p2 = p
      BY <1>2, <2>1, <3>1, FirstOpids
    <3>3. k2 = n
      BY <1>8, <2>2, <2>6, <3>2
    <3> QED BY <2>1, <2>3, <3>1, <3>2, <3>3
  <2> QED BY <2>1, <2>5, <2>6
<1>10. \A o \in Int, cause \in Causes : AtMostOnce(agenda, Interrupt(o, cause))
  BY <1>6 DEF AtMostOnce, Pending
<1> QED BY <1>9, <1>10 DEF Placed, Now, Custody, a

(***************************************************************************)
(* The theorem.                                                             *)
(***************************************************************************)

\* No ASSERT of the process-flow simulator fails and no list that must have an
\* event is found empty: a completion finds its request pending, an interrupt
\* does not run out of events before it ends, and the event of a processor that
\* is interrupted is in the queue (pf_io_done_notify, pf_handle_cpu_event,
\* pf_handle_intr_event).
THEOREM NothingFails == Spec => []NoFault
<1>1. Init => FaultInv
  BY InitCore, FirstPlaced DEF FaultInv, NoFault, Init
<1>2. FaultInv /\ [Next]_vars => FaultInv'
  BY FaultStep
<1>3. FaultInv => NoFault
  BY DEF FaultInv
<1> QED BY <1>1, <1>2, <1>3, PTL DEF Spec
=============================================================================
