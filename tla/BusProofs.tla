----------------------------- MODULE BusProofs -----------------------------
(***************************************************************************)
(* The bus keeps its types, has one owner, queues no event twice and        *)
(* implements the lock, for every set of events and both arbitrations.      *)
(***************************************************************************)
EXTENDS Bus, SequenceTheorems, TLAPS

\* What is left of a list without its i-th element.
LEMMA RemoveAtProperties ==
    ASSUME NEW S, NEW q \in Seq(S), NEW i \in DOMAIN q
    PROVE  /\ RemoveAt(q, i) \in Seq(S)
           /\ DOMAIN RemoveAt(q, i) = 1..(Len(q) - 1)
           /\ \A k \in 1..(Len(q) - 1) :
                 RemoveAt(q, i)[k] = IF k < i THEN q[k] ELSE q[k + 1]
<1> DEFINE s == SubSeq(q, 1, i - 1)
           t == SubSeq(q, i + 1, Len(q))
<1>1. /\ Len(q) \in Nat /\ i \in 1..Len(q)
  OBVIOUS
<1>2. /\ s \in Seq(S) /\ Len(s) = i - 1
      /\ \A k \in 1..(i - 1) : s[k] = q[k]
  BY <1>1
<1>3. /\ t \in Seq(S) /\ Len(t) = Len(q) - i
      /\ \A k \in 1..(Len(q) - i) : t[k] = q[i + k]
  BY <1>1
<1>4. RemoveAt(q, i) = s \o t
  BY DEF RemoveAt
<1> HIDE DEF s, t
<1>0. /\ s \o t \in Seq(S) /\ Len(s \o t) = Len(s) + Len(t)
      /\ \A k \in 1..Len(s) + Len(t) :
            (s \o t)[k] = IF k <= Len(s) THEN s[k] ELSE t[k - Len(s)]
  BY <1>2, <1>3, ConcatProperties
<1>5. s \o t \in Seq(S) /\ Len(s \o t) = Len(q) - 1
  BY <1>0, <1>1, <1>2, <1>3
<1>6. \A k \in 1..(Len(q) - 1) : (s \o t)[k] = IF k < i THEN q[k] ELSE q[k + 1]
  <2> TAKE k \in 1..(Len(q) - 1)
  <2>1. (s \o t)[k] = IF k <= Len(s) THEN s[k] ELSE t[k - Len(s)]
    <3>1. Len(s) + Len(t) = Len(q) - 1
      BY <1>1, <1>2, <1>3
    <3> QED BY <1>0, <3>1
  <2>2. CASE k < i
    BY <1>1, <1>2, <2>1, <2>2
  <2>3. CASE ~(k < i)
    <3>1. k - (i - 1) \in 1..(Len(q) - i)
      BY <1>1, <2>3
    <3>2. t[k - (i - 1)] = q[i + (k - (i - 1))]
      BY <1>3, <3>1
    <3> QED BY <1>1, <1>2, <2>1, <2>3, <3>2
  <2> QED BY <2>2, <2>3
<1> QED BY <1>4, <1>5, <1>6

\* The i-th element is gone and the others, all different, stay.
LEMMA RemoveAtDistinct ==
    ASSUME NEW S, NEW q \in Seq(S), NEW i \in DOMAIN q,
           \A j, k \in DOMAIN q : q[j] = q[k] => j = k
    PROVE  LET r == RemoveAt(q, i)
           IN /\ \A j, k \in DOMAIN r : r[j] = r[k] => j = k
              /\ \A j \in DOMAIN r : r[j] # q[i]
              /\ \A j \in DOMAIN r : \E k \in DOMAIN q : r[j] = q[k]
              /\ \A k \in DOMAIN q : k # i => \E j \in DOMAIN r : r[j] = q[k]
<1> DEFINE r == RemoveAt(q, i)
           at(k) == IF k < i THEN k ELSE k + 1
<1>1. Len(q) \in Nat /\ DOMAIN q = 1..Len(q) /\ i \in 1..Len(q)
  OBVIOUS
<1>2. DOMAIN r = 1..(Len(q) - 1) /\ \A k \in DOMAIN r : r[k] = q[at(k)]
  BY RemoveAtProperties
<1>3. \A k \in DOMAIN r : at(k) \in DOMAIN q /\ at(k) # i
  BY <1>1, <1>2
<1>4. \A j, k \in DOMAIN r : at(j) = at(k) => j = k
  BY <1>1, <1>2
<1>5. \A k \in DOMAIN q : k # i => \E j \in DOMAIN r : at(j) = k
  <2> SUFFICES ASSUME NEW k \in DOMAIN q, k # i
               PROVE  \E j \in DOMAIN r : at(j) = k
    OBVIOUS
  <2>1. CASE k < i
    BY <1>1, <1>2, <2>1
  <2>2. CASE k > i
    <3>1. k - 1 \in DOMAIN r /\ at(k - 1) = k
      BY <1>1, <1>2, <2>2
    <3> QED BY <3>1
  <2> QED BY <1>1, <2>1, <2>2
<1> HIDE DEF r, at
<1>6. \A j, k \in DOMAIN r : r[j] = r[k] => j = k
  BY <1>2, <1>3, <1>4
<1>7. \A j \in DOMAIN r : r[j] # q[i]
  BY <1>1, <1>2, <1>3
<1>8. \A j \in DOMAIN r : \E k \in DOMAIN q : r[j] = q[k]
  BY <1>2, <1>3
<1>9. \A k \in DOMAIN q : k # i => \E j \in DOMAIN r : r[j] = q[k]
  BY <1>2, <1>5
<1> QED BY <1>6, <1>7, <1>8, <1>9 DEF r

-----------------------------------------------------------------------------
\* A release, whatever wins, yields a bus of the right type.
LEMMA ReleaseType ==
    ASSUME NEW b, NEW c \in OwnershipRelease(b),
           b \in [arbtype : ArbTypes, state : {"FREE", "OWNED"}, arbwinner : Events \cup {NoEvent},
                  owners : Seq(Events)]
    PROVE  c \in [arbtype : ArbTypes, state : {"FREE", "OWNED"}, arbwinner : Events \cup {NoEvent},
                  owners : Seq(Events)]
<1>1. CASE b.owners = <<>>
  BY <1>1 DEF OwnershipRelease
<1>2. CASE b.owners # <<>>
  <2>1. PICK i \in DOMAIN b.owners :
            c = [b EXCEPT !.arbwinner = b.owners[i], !.owners = RemoveAt(@, i)]
    BY <1>2 DEF OwnershipRelease
  <2>2. b.owners[i] \in Events
    OBVIOUS
  <2>3. RemoveAt(b.owners, i) \in Seq(Events)
    BY RemoveAtProperties
  <2> QED BY <2>1, <2>2, <2>3
<1> QED BY <1>1, <1>2

\* Type correctness of the bus, whatever events ask for it.
THEOREM TypeCorrect == Spec => []TypeOK
<1>1. Init => TypeOK
  <2> SUFFICES ASSUME Init PROVE TypeOK
    OBVIOUS
  <2>1. PICK t \in ArbTypes : bus = FreeBus(t) /\ holder = NoEvent
    BY DEF Init
  <2>2. <<>> \in Seq(Events)
    OBVIOUS
  <2> QED BY <2>1, <2>2 DEF TypeOK, FreeBus
<1>2. TypeOK /\ [Next]_vars => TypeOK'
  <2> SUFFICES ASSUME TypeOK, [Next]_vars PROVE TypeOK'
    OBVIOUS
  <2> USE DEF TypeOK
  <2>1. CASE Granted
    BY <2>1 DEF Granted
  <2>2. CASE Release
    BY <2>2, ReleaseType DEF Release
  <2>3. ASSUME NEW e \in Events, Get(e) PROVE TypeOK'
    <3>1. CASE bus.state = "FREE"
      BY <2>3, <3>1 DEF Get, OwnershipGet
    <3>2. CASE bus.state # "FREE"
      <4>1. Append(bus.owners, e) \in Seq(Events)
        OBVIOUS
      <4>2. bus' = [bus EXCEPT !.owners = Append(bus.owners, e)]
        BY <2>3, <3>2 DEF Get, OwnershipGet
      <4> QED BY <2>3, <4>1, <4>2 DEF Get
    <3> QED BY <3>1, <3>2
  <2>4. ASSUME NEW e \in Events, Leave(e) PROVE TypeOK'
    <3>1. CASE bus.arbwinner = e
      <4>1. [bus EXCEPT !.arbwinner = NoEvent] \in
                [arbtype : ArbTypes, state : {"FREE", "OWNED"}, arbwinner : Events \cup {NoEvent},
                 owners : Seq(Events)]
        OBVIOUS
      <4>2. bus' \in OwnershipRelease([bus EXCEPT !.arbwinner = NoEvent])
        BY <2>4, <3>1 DEF Leave, RemoveFromArbitration
      <4> QED BY <2>4, <4>1, <4>2, ReleaseType DEF Leave
    <3>2. CASE bus.arbwinner # e
      <4>1. PICK i \in DOMAIN bus.owners : bus' = [bus EXCEPT !.owners = RemoveAt(@, i)]
        BY <2>4, <3>2 DEF Leave, RemoveFromArbitration
      <4>2. RemoveAt(bus.owners, i) \in Seq(Events)
        BY RemoveAtProperties
      <4> QED BY <2>4, <4>1, <4>2 DEF Leave
    <3> QED BY <3>1, <3>2
  <2>5. CASE UNCHANGED vars
    BY <2>5 DEF vars
  <2> QED BY <2>1, <2>2, <2>3, <2>4, <2>5 DEF Next
<1> QED BY <1>1, <1>2, PTL DEF Spec

-----------------------------------------------------------------------------
BusType == [arbtype : ArbTypes, state : {"FREE", "OWNED"}, arbwinner : Events \cup {NoEvent},
            owners : Seq(Events)]

Distinct(q) == \A i, j \in DOMAIN q : q[i] = q[j] => i = j

\* What a release does to a bus that has no winner: either nobody waited and
\* it is free, or one of those that waited has won and left the list.
LEMMA ReleaseCases ==
    ASSUME NEW b \in BusType, NEW c \in OwnershipRelease(b), Distinct(b.owners)
    PROVE  \/ /\ b.owners = <<>>
              /\ c = [b EXCEPT !.state = "FREE"]
           \/ /\ b.owners # <<>>
              /\ c.state = b.state
              /\ \E i \in DOMAIN b.owners :
                    /\ Wins(b, i)
                    /\ c.arbwinner = b.owners[i]
                    /\ c.owners = RemoveAt(b.owners, i)
              /\ c.arbwinner \in Events
              /\ Waits(b, c.arbwinner)
              /\ ~Waits(c, c.arbwinner)
              /\ Distinct(c.owners)
              /\ \A e : Waits(c, e) <=> Waits(b, e) /\ e # c.arbwinner
<1>1. CASE b.owners = <<>>
  BY <1>1 DEF OwnershipRelease
<1>2. CASE b.owners # <<>>
  <2>1. PICK i \in DOMAIN b.owners :
            /\ Wins(b, i)
            /\ c = [b EXCEPT !.arbwinner = b.owners[i], !.owners = RemoveAt(@, i)]
    BY <1>2 DEF OwnershipRelease
  <2>2. /\ c.state = b.state /\ c.arbwinner = b.owners[i]
        /\ c.owners = RemoveAt(b.owners, i)
    BY <2>1 DEF BusType
  <2>3. b.owners \in Seq(Events) /\ b.owners[i] \in Events
    BY DEF BusType
  <2> DEFINE r == RemoveAt(b.owners, i)
  <2>4. /\ \A j, k \in DOMAIN r : r[j] = r[k] => j = k
        /\ \A j \in DOMAIN r : r[j] # b.owners[i]
        /\ \A j \in DOMAIN r : \E k \in DOMAIN b.owners : r[j] = b.owners[k]
        /\ \A k \in DOMAIN b.owners : k # i => \E j \in DOMAIN r : r[j] = b.owners[k]
    BY <2>3, RemoveAtDistinct DEF Distinct
  <2> HIDE DEF r
  <2>5. c.owners = r
    BY <2>2 DEF r
  <2>6. Waits(b, c.arbwinner) /\ ~Waits(c, c.arbwinner) /\ Distinct(c.owners)
    BY <2>2, <2>4, <2>5 DEF Waits, Distinct
  <2>7. \A e : Waits(c, e) <=> Waits(b, e) /\ e # c.arbwinner
    BY <2>2, <2>4, <2>5 DEF Waits
  <2> QED BY <1>2, <2>1, <2>2, <2>3, <2>6, <2>7
<1> QED BY <1>1, <1>2

\* BusInv is inductive: ownership and the arbitration need each other.  Who
\* wins an arbitration is new to the owner only because nobody asks twice.
LEMMA InitBusInv == Init => BusInv
<1> SUFFICES ASSUME Init PROVE BusInv
  OBVIOUS
<1>1. PICK t \in ArbTypes : bus = FreeBus(t) /\ holder = NoEvent
  BY DEF Init
<1>2. <<>> \in Seq(Events)
  OBVIOUS
<1>3. TypeOK
  BY <1>1, <1>2 DEF TypeOK, FreeBus
<1>4. ExclusiveOwnership /\ AsksOnce
  BY <1>1 DEF ExclusiveOwnership, AsksOnce, FreeBus, Waits
<1> QED BY <1>3, <1>4 DEF BusInv

\* A release by whoever has the bus, or in the name of the winner that
\* withdraws, leaves the invariant true.
LEMMA ReleaseBusInv ==
    ASSUME NEW b \in BusType, NEW c \in OwnershipRelease(b),
           Distinct(b.owners), b.state = "OWNED", b.arbwinner = NoEvent,
           ~Waits(b, NoEvent)
    PROVE  /\ c \in BusType
           /\ c.state = "FREE" <=> c.arbwinner = NoEvent
           /\ c.state = "FREE" => c.owners = <<>>
           /\ Distinct(c.owners) /\ ~Waits(c, c.arbwinner) /\ ~Waits(c, NoEvent)
<1>1. c \in BusType
  BY ReleaseType DEF BusType
<1>2. CASE b.owners = <<>> /\ c = [b EXCEPT !.state = "FREE"]
  BY <1>1, <1>2 DEF BusType, Distinct, Waits
<1>3. CASE /\ b.owners # <<>> /\ c.state = b.state
           /\ c.arbwinner \in Events /\ ~Waits(c, c.arbwinner)
           /\ Distinct(c.owners)
           /\ \A e : Waits(c, e) <=> Waits(b, e) /\ e # c.arbwinner
  BY <1>1, <1>3, BusAssumption
<1> QED BY <1>2, <1>3, ReleaseCases

LEMMA NextBusInv == BusInv /\ [Next]_vars => BusInv'
<1> SUFFICES ASSUME BusInv, [Next]_vars PROVE BusInv'
  OBVIOUS
<1>0. /\ bus \in BusType /\ holder \in Events \cup {NoEvent}
      /\ Distinct(bus.owners) /\ ~Waits(bus, NoEvent)
  BY BusAssumption DEF BusInv, TypeOK, AsksOnce, BusType, Distinct, Waits
<1> USE DEF BusInv
<1>1. CASE Granted
  <2>1. /\ bus'.state = bus.state /\ bus'.owners = bus.owners
        /\ bus'.arbwinner = NoEvent /\ holder' = bus.arbwinner
        /\ bus' \in BusType
    BY <1>0, <1>1 DEF Granted, BusType
  <2>2. TypeOK'
    BY <1>0, <1>1, <2>1 DEF TypeOK, BusType, Granted
  <2>3. ExclusiveOwnership'
    BY <1>1, <2>1 DEF ExclusiveOwnership, Granted
  <2>4. AsksOnce'
    BY <1>0, <2>1 DEF AsksOnce, Waits, Distinct
  <2> QED BY <2>2, <2>3, <2>4
<1>2. CASE Release
  <2>1. bus.state = "OWNED" /\ bus.arbwinner = NoEvent
    BY <1>0, <1>2 DEF Release, ExclusiveOwnership, BusType
  <2>2. /\ bus' \in BusType
        /\ bus'.state = "FREE" <=> bus'.arbwinner = NoEvent
        /\ bus'.state = "FREE" => bus'.owners = <<>>
        /\ Distinct(bus'.owners) /\ ~Waits(bus', bus'.arbwinner) /\ ~Waits(bus', NoEvent)
    BY <1>0, <1>2, <2>1, ReleaseBusInv DEF Release
  <2>3. holder' = NoEvent
    BY <1>2 DEF Release
  <2> QED BY <2>2, <2>3 DEF TypeOK, ExclusiveOwnership, AsksOnce, BusType, Distinct
<1>3. ASSUME NEW e \in Events, Get(e) PROVE BusInv'
  <2>1. /\ holder' = holder /\ e # bus.arbwinner /\ e # holder /\ ~Waits(bus, e)
    BY <1>3 DEF Get, Involved
  <2>2. CASE bus.state = "FREE"
    <3>1. /\ bus'.state = "OWNED" /\ bus'.arbwinner = e /\ bus'.owners = bus.owners
          /\ bus' \in BusType
      BY <1>0, <1>3, <2>2 DEF Get, OwnershipGet, BusType
    <3> QED BY <1>0, <2>1, <2>2, <3>1, BusAssumption
            DEF TypeOK, ExclusiveOwnership, AsksOnce, BusType, Waits, Distinct
  <2>3. CASE bus.state # "FREE"
    <3>1. /\ bus'.state = bus.state /\ bus'.arbwinner = bus.arbwinner
          /\ bus'.owners = Append(bus.owners, e)
          /\ bus.owners \in Seq(Events)
          /\ bus' \in BusType
      <4>1. Append(bus.owners, e) \in Seq(Events)
        BY <1>0 DEF BusType
      <4>2. bus' = [bus EXCEPT !.owners = Append(bus.owners, e)]
        BY <1>3, <2>3 DEF Get, OwnershipGet
      <4> QED BY <1>0, <4>1, <4>2 DEF BusType
    <3>2. \A i \in DOMAIN Append(bus.owners, e) :
             \/ i = Len(bus.owners) + 1 /\ Append(bus.owners, e)[i] = e
             \/ i \in DOMAIN bus.owners /\ Append(bus.owners, e)[i] = bus.owners[i]
      BY <3>1
    <3>3. AsksOnce'
      BY <1>0, <2>1, <3>1, <3>2 DEF AsksOnce, Waits, Distinct
    <3> QED BY <1>0, <2>1, <2>3, <3>1, <3>3 DEF TypeOK, ExclusiveOwnership, BusType
  <2> QED BY <2>2, <2>3
<1>4. ASSUME NEW e \in Events, Leave(e) PROVE BusInv'
  <2>1. holder' = holder
    BY <1>4 DEF Leave
  <2>2. CASE bus.arbwinner = e
    <3> DEFINE b == [bus EXCEPT !.arbwinner = NoEvent]
    <3>1. /\ b \in BusType /\ b.state = bus.state /\ b.owners = bus.owners
          /\ b.arbwinner = NoEvent
      BY <1>0 DEF BusType
    <3>2. bus' \in OwnershipRelease(b)
      BY <1>4, <2>2 DEF Leave, RemoveFromArbitration
    <3> HIDE DEF b
    <3>3. b.state = "OWNED" /\ holder = NoEvent
      BY <2>2, <3>1, BusAssumption DEF ExclusiveOwnership, BusType
    <3>4. ~Waits(b, NoEvent) /\ Distinct(b.owners)
      BY <1>0, <3>1 DEF Waits
    <3>5. /\ bus' \in BusType
          /\ bus'.state = "FREE" <=> bus'.arbwinner = NoEvent
          /\ bus'.state = "FREE" => bus'.owners = <<>>
          /\ Distinct(bus'.owners) /\ ~Waits(bus', bus'.arbwinner) /\ ~Waits(bus', NoEvent)
      BY <3>1, <3>2, <3>3, <3>4, ReleaseBusInv
    <3> QED BY <2>1, <3>3, <3>5 DEF TypeOK, ExclusiveOwnership, AsksOnce, BusType, Distinct
  <2>3. CASE bus.arbwinner # e
    <3>1. PICK i \in DOMAIN bus.owners :
             /\ bus.owners[i] = e
             /\ bus' = [bus EXCEPT !.owners = RemoveAt(@, i)]
      BY <1>4, <2>3 DEF Leave, RemoveFromArbitration
    <3> DEFINE r == RemoveAt(bus.owners, i)
    <3>2. r \in Seq(Events)
      BY <1>0, RemoveAtProperties DEF BusType
    <3>3. /\ \A j, k \in DOMAIN r : r[j] = r[k] => j = k
          /\ \A j \in DOMAIN r : \E k \in DOMAIN bus.owners : r[j] = bus.owners[k]
      BY <1>0, RemoveAtDistinct DEF BusType, Distinct
    <3>4. /\ bus'.state = bus.state /\ bus'.arbwinner = bus.arbwinner /\ bus'.owners = r
      BY <1>0, <3>1 DEF BusType
    <3> HIDE DEF r
    <3>5. bus' \in BusType
      BY <1>0, <3>1, <3>2 DEF BusType, r
    <3>6. AsksOnce'
      BY <2>1, <3>3, <3>4 DEF AsksOnce, Waits
    <3>7. bus.state # "FREE"
      BY <3>1 DEF ExclusiveOwnership
    <3> QED BY <1>0, <2>1, <3>4, <3>5, <3>6, <3>7 DEF TypeOK, ExclusiveOwnership, BusType
  <2> QED BY <2>2, <2>3
<1>5. CASE UNCHANGED vars
  BY <1>5 DEF vars, TypeOK, ExclusiveOwnership, AsksOnce, Waits
<1> QED BY <1>1, <1>2, <1>3, <1>4, <1>5 DEF Next

\* The bus keeps its invariant, whatever events ask for it.
THEOREM BusSafe == Spec => []BusInv
BY InitBusInv, NextBusInv, PTL DEF Spec

\* The bus always has at most one owner, and it is free exactly when it has
\* none and has promised itself to none.
THEOREM OneOwner == Spec => []ExclusiveOwnership
<1>1. BusInv => ExclusiveOwnership
  BY DEF BusInv
<1> QED BY <1>1, InitBusInv, NextBusInv, PTL DEF Spec

\* No event is ever in the arbitration twice.
THEOREM QueuedOnce == Spec => []AsksOnce
<1>1. BusInv => AsksOnce
  BY DEF BusInv
<1> QED BY <1>1, InitBusInv, NextBusInv, PTL DEF Spec

-----------------------------------------------------------------------------
\* Nobody is passed over, except in favour of a higher slot.
THEOREM GrantsInOrder == Spec => GrantOrder
<1> DEFINE Order ==
      \A i, j \in DOMAIN bus.owners :
          /\ bus'.arbwinner = bus.owners[j] /\ bus.arbwinner # bus.owners[j]
          /\ bus'.arbwinner # bus.owners[i]
          => \/ i > j /\ (bus.arbtype = "SLOTPRIORITY_ARB" =>
                            bus.owners[i].slotno <= bus.owners[j].slotno)
             \/ /\ bus.arbtype = "SLOTPRIORITY_ARB"
                /\ bus.owners[i].slotno < bus.owners[j].slotno
<1>1. ASSUME BusInv, [Next]_vars PROVE Order
  <2> USE <1>1
  <2>0. /\ bus \in BusType /\ Distinct(bus.owners) /\ ~Waits(bus, NoEvent)
        /\ bus.owners \in Seq(Events)
    BY BusAssumption DEF BusInv, TypeOK, AsksOnce, BusType, Distinct, Waits
  <2>1. ASSUME NEW b \in BusType, bus' \in OwnershipRelease(b),
               b.owners = bus.owners, b.arbtype = bus.arbtype, b.arbwinner = NoEvent
        PROVE  Order
    <3>1. CASE bus' = [b EXCEPT !.state = "FREE"]
      <4>1. bus'.arbwinner = NoEvent
        BY <2>1, <3>1 DEF BusType
      <4> QED BY <2>0, <4>1 DEF Waits
    <3>2. ASSUME NEW w \in DOMAIN bus.owners,
                 Wins(bus, w), bus'.arbwinner = bus.owners[w]
          PROVE  Order
      <4> SUFFICES ASSUME NEW i \in DOMAIN bus.owners, NEW j \in DOMAIN bus.owners,
                          bus'.arbwinner = bus.owners[j], bus'.arbwinner # bus.owners[i]
                   PROVE  \/ i > j /\ (bus.arbtype = "SLOTPRIORITY_ARB" =>
                                        bus.owners[i].slotno <= bus.owners[j].slotno)
                          \/ /\ bus.arbtype = "SLOTPRIORITY_ARB"
                             /\ bus.owners[i].slotno < bus.owners[j].slotno
        OBVIOUS
      <4>1. j = w
        BY <2>0, <3>2, Zenon DEF Distinct
      <4>2. i # w
        BY <3>2
      <4>3. i \in Int /\ w \in Int /\ i >= 1 /\ (i < w \/ i > w)
        BY <2>0, <4>2
      <4>4. CASE bus.arbtype = "FIFO_ARB"
        <5>1. w = 1
          BY <3>2, <4>4 DEF Wins
        <5> QED BY <4>1, <4>3, <4>4, <5>1
      <4>5. CASE bus.arbtype = "SLOTPRIORITY_ARB"
        <5>1. /\ bus.owners[i].slotno <= bus.owners[w].slotno
              /\ i < w => bus.owners[i].slotno < bus.owners[w].slotno
          BY <3>2, <4>5 DEF Wins
        <5> QED BY <4>1, <4>3, <4>5, <5>1
      <4>6. bus.arbtype \in ArbTypes
        BY <2>0 DEF BusType
      <4> QED BY <4>4, <4>5, <4>6 DEF ArbTypes
    <3>3. \A w \in DOMAIN bus.owners : Wins(b, w) => Wins(bus, w)
      BY <2>1 DEF Wins
    <3> QED BY <2>0, <2>1, <3>1, <3>2, <3>3, ReleaseCases
  <2>2. CASE bus'.arbwinner = bus.arbwinner
    BY <2>2
  <2>3. CASE Granted
    <3>1. bus'.arbwinner = NoEvent
      BY <2>0, <2>3 DEF Granted, BusType
    <3> QED BY <2>0, <3>1 DEF Waits
  <2>4. CASE Release
    <3>1. bus.arbwinner = NoEvent
      BY <2>4 DEF Release, BusInv, ExclusiveOwnership
    <3> QED BY <2>0, <2>1, <2>4, <3>1 DEF Release
  <2>5. ASSUME NEW e \in Events, Get(e) PROVE Order
    <3>1. CASE bus.state = "FREE"
      <4>1. bus.owners = <<>>
        BY <3>1 DEF BusInv, ExclusiveOwnership
      <4> QED BY <4>1
    <3>2. CASE bus.state # "FREE"
      BY <2>0, <2>2, <2>5, <3>2 DEF Get, OwnershipGet, BusType
    <3> QED BY <3>1, <3>2
  <2>6. ASSUME NEW e \in Events, Leave(e) PROVE Order
    <3>1. CASE bus.arbwinner = e
      <4> DEFINE b == [bus EXCEPT !.arbwinner = NoEvent]
      <4>1. b \in BusType /\ b.owners = bus.owners /\ b.arbtype = bus.arbtype /\ b.arbwinner = NoEvent
        BY <2>0 DEF BusType
      <4>2. bus' \in OwnershipRelease(b)
        BY <2>6, <3>1 DEF Leave, RemoveFromArbitration
      <4> HIDE DEF b
      <4> QED BY <2>1, <4>1, <4>2
    <3>2. CASE bus.arbwinner # e
      BY <2>0, <2>2, <2>6, <3>2 DEF Leave, RemoveFromArbitration, BusType
    <3> QED BY <3>1, <3>2
  <2>7. CASE UNCHANGED vars
    BY <2>2, <2>7 DEF vars
  <2> QED BY <2>3, <2>4, <2>5, <2>6, <2>7 DEF Next
<1>2. BusInv /\ [Next]_vars => [Order]_vars
  BY <1>1
<1> QED BY <1>2, InitBusInv, NextBusInv, PTL DEF Spec, GrantOrder

-----------------------------------------------------------------------------
\* The bus implements the lock: an owner from the arbitration on, never two,
\* never none while somebody waits.
THEOREM BusImplementsLock == Spec => ImplementsLock
<1> DEFINE asking == {bus.owners[i] : i \in DOMAIN bus.owners}
           owner  == IF holder # NoEvent THEN holder ELSE bus.arbwinner
<1>1. Init => Lock!LockInit
  BY DEF Init, FreeBus, Lock!LockInit
<1>2. BusInv /\ [Next]_vars => [Lock!LockNext]_(Lock!lockvars)
  <2> SUFFICES ASSUME BusInv, [Next]_vars PROVE Lock!LockNext \/ UNCHANGED Lock!lockvars
    OBVIOUS
  <2>0. /\ bus \in BusType /\ bus' \in BusType
        /\ holder \in Events \cup {NoEvent} /\ holder' \in Events \cup {NoEvent}
        /\ Distinct(bus.owners) /\ ~Waits(bus, NoEvent)
        /\ bus.owners \in Seq(Events)
    BY NextBusInv, BusAssumption DEF BusInv, TypeOK, AsksOnce, BusType, Distinct, Waits
  <2>a. \A e : e \in asking <=> Waits(bus, e)
    BY DEF Waits
  <2>b. \A e : e \in asking' <=> Waits(bus', e)
    BY DEF Waits
  <2> HIDE DEF asking, owner
  <2>c. /\ UNCHANGED <<asking, owner>> => UNCHANGED Lock!lockvars
        /\ (/\ owner # NoEvent
            /\ IF asking = {} THEN owner' = NoEvent /\ UNCHANGED asking
                              ELSE owner' \in asking /\ asking' = asking \ {owner'})
           => Lock!LockNext
        /\ \A e \in Events :
              /\ e \notin asking /\ e # owner
              /\ IF owner = NoEvent THEN owner' = e /\ UNCHANGED asking
                                    ELSE asking' = asking \cup {e} /\ UNCHANGED owner
              => Lock!LockNext
        /\ \A e \in Events :
              e \in asking /\ asking' = asking \ {e} /\ UNCHANGED owner => Lock!LockNext
    BY DEF asking, owner, Lock!lockvars, Lock!LockNext, Lock!Pass, Lock!Ask, Lock!Withdraw
  <2>1. ASSUME NEW b \in BusType, bus' \in OwnershipRelease(b), b.owners = bus.owners,
               b.arbwinner = NoEvent, owner # NoEvent, holder' = NoEvent
        PROVE  Lock!LockNext
    <3>0. \A e : Waits(b, e) <=> Waits(bus, e)
      BY <2>1 DEF Waits
    <3>1. CASE b.owners = <<>> /\ bus' = [b EXCEPT !.state = "FREE"]
      <4>1. bus'.owners = <<>> /\ bus'.arbwinner = NoEvent
        BY <2>1, <3>1 DEF BusType
      <4>2. asking = {} /\ asking' = {} /\ owner' = NoEvent
        BY <2>1, <3>1, <4>1 DEF asking, owner
      <4> QED BY <2>1, <2>c, <4>2
    <3>2. CASE /\ bus'.arbwinner \in Events /\ Waits(b, bus'.arbwinner)
               /\ \A e : Waits(bus', e) <=> Waits(b, e) /\ e # bus'.arbwinner
      <4>1. owner' = bus'.arbwinner
        BY <2>1 DEF owner
      <4>2. owner' \in asking /\ asking' = asking \ {owner'}
        BY <2>a, <2>b, <3>0, <3>2, <4>1
      <4> QED BY <2>1, <2>c, <4>2
    <3> QED BY <2>0, <2>1, <3>1, <3>2, ReleaseCases
  <2>2. CASE Granted
    <3>1. bus'.owners = bus.owners /\ bus'.arbwinner = NoEvent /\ holder' = bus.arbwinner
      BY <2>0, <2>2 DEF Granted, BusType
    <3>2. holder = NoEvent
      BY <2>2 DEF Granted, BusInv, ExclusiveOwnership
    <3> QED BY <2>c, <3>1, <3>2 DEF asking, owner
  <2>3. CASE Release
    <3>1. bus.arbwinner = NoEvent /\ holder # NoEvent /\ holder' = NoEvent
      BY <2>3 DEF Release, BusInv, ExclusiveOwnership
    <3> QED BY <2>0, <2>1, <2>3, <3>1 DEF Release, owner
  <2>4. ASSUME NEW e \in Events, Get(e) PROVE Lock!LockNext
    <3>1. holder' = holder /\ e \notin asking /\ e # owner
      BY <2>4, <2>a DEF Get, Involved, owner
    <3>2. CASE bus.state = "FREE"
      <4>1. bus'.arbwinner = e /\ bus'.owners = bus.owners
        BY <2>0, <2>4, <3>2 DEF Get, OwnershipGet, BusType
      <4>2. holder = NoEvent /\ bus.arbwinner = NoEvent
        BY <3>2 DEF BusInv, ExclusiveOwnership
      <4> QED BY <2>c, <3>1, <4>1, <4>2 DEF asking, owner
    <3>3. CASE bus.state # "FREE"
      <4>1. bus'.arbwinner = bus.arbwinner /\ bus'.owners = Append(bus.owners, e)
        BY <2>0, <2>4, <3>3 DEF Get, OwnershipGet, BusType
      <4>2. asking' = asking \cup {e}
        <5> DEFINE q == bus.owners
                   r == Append(q, e)
        <5>1. /\ \A i \in DOMAIN r : r[i] = e \/ (i \in DOMAIN q /\ r[i] = q[i])
              /\ \A i \in DOMAIN q : i \in DOMAIN r /\ r[i] = q[i]
              /\ Len(q) + 1 \in DOMAIN r /\ r[Len(q) + 1] = e
          BY <2>0
        <5> HIDE DEF r
        <5>2. \A d : (\E i \in DOMAIN r : r[i] = d)
                     <=> (\E i \in DOMAIN q : q[i] = d) \/ d = e
          BY <5>1
        <5>3. bus'.owners = r
          BY <4>1 DEF r
        <5> QED BY <2>a, <2>b, <5>2, <5>3 DEF Waits
      <4>3. owner # NoEvent /\ owner' = owner
        BY <3>1, <3>3, <4>1 DEF owner, BusInv, ExclusiveOwnership
      <4> QED BY <2>c, <3>1, <4>2, <4>3
    <3> QED BY <3>2, <3>3
  <2>5. ASSUME NEW e \in Events, Leave(e) PROVE Lock!LockNext
    <3>1. CASE bus.arbwinner = e
      <4> DEFINE b == [bus EXCEPT !.arbwinner = NoEvent]
      <4>1. b \in BusType /\ b.owners = bus.owners /\ b.arbtype = bus.arbtype /\ b.arbwinner = NoEvent
        BY <2>0 DEF BusType
      <4>2. bus' \in OwnershipRelease(b) /\ holder' = holder
        BY <2>5, <3>1 DEF Leave, RemoveFromArbitration
      <4>3. holder = NoEvent /\ owner # NoEvent
        BY <3>1, BusAssumption DEF owner, BusInv, ExclusiveOwnership
      <4> HIDE DEF b
      <4> QED BY <2>1, <4>1, <4>2, <4>3
    <3>2. CASE bus.arbwinner # e
      <4>1. PICK i \in DOMAIN bus.owners :
               /\ bus.owners[i] = e
               /\ bus' = [bus EXCEPT !.owners = RemoveAt(@, i)]
               /\ holder' = holder
        BY <2>5, <3>2 DEF Leave, RemoveFromArbitration
      <4> DEFINE r == RemoveAt(bus.owners, i)
      <4>2. /\ \A j \in DOMAIN r : r[j] # bus.owners[i]
            /\ \A j \in DOMAIN r : \E k \in DOMAIN bus.owners : r[j] = bus.owners[k]
            /\ \A k \in DOMAIN bus.owners : k # i => \E j \in DOMAIN r : r[j] = bus.owners[k]
        BY <2>0, RemoveAtDistinct DEF Distinct
      <4>3. bus'.arbwinner = bus.arbwinner /\ bus'.owners = r
        BY <2>0, <4>1 DEF BusType
      <4> HIDE DEF r
      <4>4. \A d : Waits(bus', d) <=> Waits(bus, d) /\ d # e
        BY <4>1, <4>2, <4>3 DEF Waits
      <4>5. e \in asking /\ asking' = asking \ {e}
        BY <2>a, <2>b, <4>1, <4>4 DEF Waits
      <4>6. owner' = owner
        BY <4>1, <4>3 DEF owner
      <4> QED BY <2>c, <4>5, <4>6
    <3> QED BY <3>1, <3>2
  <2>6. CASE UNCHANGED vars
    BY <2>6, <2>c DEF vars, asking, owner
  <2> QED BY <2>2, <2>3, <2>4, <2>5, <2>6 DEF Next
<1> QED BY <1>1, <1>2, InitBusInv, NextBusInv, PTL DEF Spec, ImplementsLock, Lock!LockSpec
=============================================================================
