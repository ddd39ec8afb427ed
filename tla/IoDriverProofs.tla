--------------------------- MODULE IoDriverProofs ---------------------------
(***************************************************************************)
(* The driver keeps its types, sends every request it has handed out in     *)
(* exactly one access at a time, and respects the limits of the devices and *)
(* controllers below it, for every trace and every organisation.  It serves: *)
(* it completes a request when, and only when, all its blocks were accessed, *)
(* and lets none wait at a device that could take it.                       *)
(***************************************************************************)
EXTENDS IoDriver, FiniteSetTheorems, TLAPS

-----------------------------------------------------------------------------
(* Adding to a finite set, and taking away. *)

LEMMA OneMore ==
    ASSUME NEW S, IsFiniteSet(S), NEW x
    PROVE  Cardinality(S \cup {x}) \in Nat /\ Cardinality(S \cup {x}) <= Cardinality(S) + 1
<1>1. Cardinality(S) \in Nat
  BY FS_CardinalityType
<1>2. Cardinality(S \cup {x}) = IF x \in S THEN Cardinality(S) ELSE Cardinality(S) + 1
  BY FS_AddElement
<1> QED BY <1>1, <1>2

LEMMA OneLess ==
    ASSUME NEW S, IsFiniteSet(S), NEW x \in S
    PROVE  IsFiniteSet(S \ {x}) /\ Cardinality(S \ {x}) = Cardinality(S) - 1
BY FS_RemoveElement

-----------------------------------------------------------------------------
(* The inductive invariant. *)

\* A request that has not arrived is nowhere else; one is not both waiting and
\* handed out; and what is anywhere has been made, so that no completion makes
\* it again.
Fresh ==
    \A r \in Reqs :
        /\ Arrive(r) \in intq => r \in made /\ r \notin waiting[devno[r]] \cup out[devno[r]]
        /\ r \in waiting[devno[r]] => r \in made /\ r \notin out[devno[r]]
        /\ r \in out[devno[r]] => r \in made

\* Only a controller with a limit has requests sent in pieces.
PiecesHaveSize == \A c \in Ctlrs : oversized[c] # {} => maxreqsize[c] # 0

IInv == TypeOK /\ Fresh /\ PiecesHaveSize /\ OneAccessEach /\ CountNeverShort /\ WithinLimits

-----------------------------------------------------------------------------
(* Accesses *)

LEMMA AccessType ==
    ASSUME IoDriverAssumption, NEW r \in Reqs
    PROVE  Access(r) \in PieceSet /\ Access(r).req = r /\ Access(r) # Arrive(r)
BY DEF IoDriverAssumption, Access, Arrive, PieceSet

\* What is sent down is an access of the same request that the controller takes.
LEMMA SentType ==
    ASSUME IoDriverAssumption, NEW e \in PieceSet
    PROVE  Sent(e) \in PieceSet /\ Sent(e).req = e.req /\ ~TooLong(Sent(e))
<1> DEFINE c == queuectlr[devno[e.req]]
<1>1. c \in Ctlrs \cup {NoCtlr} /\ e.bcount \in Nat
  BY DEF IoDriverAssumption, PieceSet
<1>2. CASE TooLong(e)
  <2>1. c \in Ctlrs /\ maxreqsize[c] \in Nat \ {0}
    BY <1>1, <1>2 DEF TooLong, IoDriverAssumption
  <2>2. Sent(e) = [e EXCEPT !.bcount = maxreqsize[c]]
    BY <1>2 DEF Sent
  <2>3. Sent(e) \in PieceSet /\ Sent(e).req = e.req /\ Sent(e).bcount = maxreqsize[c]
    BY <2>1, <2>2 DEF PieceSet
  <2> QED BY <2>1, <2>3 DEF TooLong
<1>3. CASE ~TooLong(e)
  BY <1>3 DEF Sent
<1> QED BY <1>2, <1>3

\* The next piece of a request is an access of it with at least one block.
LEMMA NextPieceType ==
    ASSUME IoDriverAssumption, PiecesHaveSize, NEW e \in PieceSet, MoreToGo(e)
    PROVE  NextPiece(e) \in PieceSet /\ NextPiece(e).req = e.req
<1> DEFINE c == queuectlr[devno[e.req]]
           from == e.blkno + PieceSize(e)
           rest == bcount[e.req] - from
<1>1. c \in Ctlrs /\ oversized[c] # {}
  BY DEF MoreToGo, InPieces
<1>2. PieceSize(e) \in Nat \ {0}
  BY <1>1 DEF PieceSize, PiecesHaveSize, IoDriverAssumption
<1>3. e.blkno \in Nat /\ e.req \in Reqs /\ bcount[e.req] \in Nat
  BY DEF PieceSet, IoDriverAssumption
<1>4. from \in Nat /\ rest \in Nat \ {0}
  BY <1>2, <1>3 DEF MoreToGo
<1>5. NextPiece(e) = [e EXCEPT !.blkno = from,
                               !.bcount = IF PieceSize(e) < rest THEN PieceSize(e) ELSE rest]
  BY DEF NextPiece
<1> HIDE DEF from, rest
<1>6. (IF PieceSize(e) < rest THEN PieceSize(e) ELSE rest) \in Nat \ {0}
  BY <1>2, <1>4
<1> QED BY <1>4, <1>5, <1>6 DEF PieceSet

-----------------------------------------------------------------------------
(* Type correctness *)

LEMMA InitIInv == IoDriverAssumption /\ Init => IInv
<1> SUFFICES ASSUME IoDriverAssumption, Init PROVE IInv
  OBVIOUS
<1> USE DEF Init
<1>1. TypeOK
  BY DEF TypeOK, Trace, IoDriverAssumption
<1>2. Fresh
  BY DEF Fresh, Arrive, IoDriverAssumption
<1>3. PiecesHaveSize
  BY DEF PiecesHaveSize
<1>4. OneAccessEach
  BY DEF OneAccessEach, AccessesOf, Arrive, IoDriverAssumption
<1>5. \A c \in Ctlrs : Cardinality(OutAt(out, c)) = 0
  <2> TAKE c \in Ctlrs
  <2>1. OutAt(out, c) = {}
    BY DEF OutAt
  <2> QED BY <2>1, FS_EmptySet
<1>6. \A d \in Devs : Cardinality(out[d]) = 0
  BY FS_EmptySet
<1>7. CountNeverShort
  <2> SUFFICES ASSUME NEW c \in Ctlrs
               PROVE  Cardinality(OutAt(out, c)) <= numoutstanding[c]
    BY DEF CountNeverShort
  <2>1. numoutstanding[c] = 0
    OBVIOUS
  <2>2. Cardinality(OutAt(out, c)) = 0
    BY <1>5
  <2> HIDE DEF Init
  <2> QED BY <2>1, <2>2
<1>8. \A x \in Devs \cup Ctlrs : 0 <= maxoutstanding[x]
  BY DEF IoDriverAssumption
<1>9. WithinLimits
  BY <1>5, <1>6, <1>8 DEF WithinLimits
<1> QED BY <1>1, <1>2, <1>3, <1>4, <1>7, <1>9 DEF IInv

LEMMA CountType ==
    ASSUME numoutstanding \in [Ctlrs -> Int], NEW d, NEW n \in Int
    PROVE  Count(d, n) \in [Ctlrs -> Int]
BY DEF Count

LEMMA ScheduleType ==
    ASSUME IoDriverAssumption, TypeOK, NEW e \in PieceSet, Schedule(e)
    PROVE  /\ below' \subseteq PieceSet
           /\ oversized' \in [Ctlrs -> SUBSET Reqs]
<1>1. Sent(e) \in PieceSet /\ e.req \in Reqs
  BY SentType DEF PieceSet
<1> QED BY <1>1 DEF Schedule, TypeOK

LEMMA TypeStep == IoDriverAssumption /\ TypeOK /\ PiecesHaveSize /\ [Next]_vars => TypeOK'
<1> SUFFICES ASSUME IoDriverAssumption, TypeOK, PiecesHaveSize, [Next]_vars PROVE TypeOK'
  OBVIOUS
<1>1. ASSUME NEW r \in Reqs, Request(r) PROVE TypeOK'
  <2> DEFINE d == devno[r]
  <2>1. d \in Devs
    BY DEF IoDriverAssumption
  <2>2. CASE CheckSendOutRequest(d)
    <3>1. PICK next \in waiting[d] \cup {r} :
             /\ waiting' = [waiting EXCEPT ![d] = (@ \cup {r}) \ {next}]
             /\ out' = [out EXCEPT ![d] = @ \cup {next}]
             /\ numoutstanding' = Count(d, 1)
             /\ Schedule(Access(next))
      BY <1>1, <2>2 DEF Request
    <3>2. next \in Reqs /\ devno[next] = d
      BY <2>1 DEF TypeOK
    <3>3. below' \subseteq PieceSet /\ oversized' \in [Ctlrs -> SUBSET Reqs]
      BY <3>1, <3>2, AccessType, ScheduleType
    <3>4. numoutstanding' \in [Ctlrs -> Int]
      BY <3>1, CountType DEF TypeOK
    <3>5. waiting' \in [Devs -> SUBSET Reqs] /\ out' \in [Devs -> SUBSET Reqs]
      BY <2>1, <3>1, <3>2 DEF TypeOK
    <3>6. \A e \in Devs : \A q \in waiting'[e] \cup out'[e] : devno[q] = e
      BY <2>1, <3>1, <3>2 DEF TypeOK
    <3>7. made' \subseteq Reqs /\ intq' \subseteq PieceSet \cup {Arrive(q) : q \in Reqs}
      BY <1>1 DEF Request, TypeOK
    <3> QED BY <3>3, <3>4, <3>5, <3>6, <3>7 DEF TypeOK
  <2>3. CASE ~CheckSendOutRequest(d)
    BY <1>1, <2>1, <2>3 DEF Request, TypeOK
  <2> QED BY <2>2, <2>3
<1>2. ASSUME NEW e \in intq, ScheduleAccess(e) PROVE TypeOK'
  <2>1. e \in PieceSet
    BY <1>2 DEF ScheduleAccess, TypeOK, Arrive
  <2>2. below' \subseteq PieceSet /\ oversized' \in [Ctlrs -> SUBSET Reqs]
    BY <1>2, <2>1, ScheduleType DEF ScheduleAccess
  <2> QED BY <1>2, <2>2 DEF ScheduleAccess, TypeOK
<1>3. ASSUME NEW e \in below, PieceComplete(e) PROVE TypeOK'
  <2>1. NextPiece(e) \in PieceSet
    BY <1>3, NextPieceType DEF PieceComplete, TypeOK
  <2>2. numoutstanding' \in [Ctlrs -> Int]
    BY <1>3, CountType DEF PieceComplete, TypeOK
  <2> QED BY <1>3, <2>1, <2>2 DEF PieceComplete, TypeOK
<1>4. ASSUME NEW e \in below, AccessComplete(e) PROVE TypeOK'
  <2> DEFINE r == e.req
             d == devno[r]
             due == {Arrive(s) : s \in DependentsOf(r)}
  <2>1. r \in Reqs /\ d \in Devs /\ DependentsOf(r) \subseteq Reqs
    BY DEF TypeOK, PieceSet, IoDriverAssumption, DependentsOf
  <2>2. /\ made' \subseteq Reqs /\ below' \subseteq PieceSet
        /\ oversized' \in [Ctlrs -> SUBSET Reqs]
    BY <1>4, <2>1 DEF AccessComplete, TypeOK
  <2>3. CASE Skips(r) \/ waiting[d] = {}
    <3>1. /\ out' = [out EXCEPT ![d] = @ \ {r}] /\ numoutstanding' = Count(d, -1)
          /\ intq' = intq \cup due /\ waiting' = waiting
      BY <1>4, <2>3 DEF AccessComplete
    <3>2. numoutstanding' \in [Ctlrs -> Int]
      BY <3>1, CountType DEF TypeOK
    <3> QED BY <2>1, <2>2, <3>1, <3>2 DEF TypeOK
  <2>4. CASE ~(Skips(r) \/ waiting[d] = {})
    <3>1. PICK next \in waiting[d] :
             /\ waiting' = [waiting EXCEPT ![d] = @ \ {next}]
             /\ out' = [out EXCEPT ![d] = (@ \ {r}) \cup {next}]
             /\ intq' = intq \cup due \cup {Access(next)}
             /\ numoutstanding' = numoutstanding
      BY <1>4, <2>4 DEF AccessComplete
    <3>2. next \in Reqs /\ devno[next] = d /\ Access(next) \in PieceSet
      BY <2>1, AccessType DEF TypeOK
    <3>3. intq' \subseteq PieceSet \cup {Arrive(q) : q \in Reqs}
      BY <2>1, <3>1, <3>2 DEF TypeOK
    <3>4. /\ waiting' \in [Devs -> SUBSET Reqs] /\ out' \in [Devs -> SUBSET Reqs]
          /\ \A f \in Devs : \A q \in waiting'[f] \cup out'[f] : devno[q] = f
      BY <2>1, <3>1, <3>2 DEF TypeOK
    <3> QED BY <2>2, <3>1, <3>3, <3>4 DEF TypeOK
  <2> QED BY <2>3, <2>4
<1>5. CASE UNCHANGED vars
  BY <1>5 DEF vars, TypeOK
<1> QED BY <1>1, <1>2, <1>3, <1>4, <1>5 DEF Next

-----------------------------------------------------------------------------
(* Fresh requests, pieces *)

LEMMA FreshStep == IoDriverAssumption /\ TypeOK /\ Fresh /\ OneAccessEach /\ [Next]_vars => Fresh'
<1> SUFFICES ASSUME IoDriverAssumption, TypeOK, Fresh, OneAccessEach, [Next]_vars,
                    NEW q \in Reqs
             PROVE  /\ Arrive(q) \in intq' =>
                          q \in made' /\ q \notin waiting'[devno[q]] \cup out'[devno[q]]
                    /\ q \in waiting'[devno[q]] => q \in made' /\ q \notin out'[devno[q]]
                    /\ q \in out'[devno[q]] => q \in made'
  BY DEF Fresh, Arrive
<1> DEFINE Goal == /\ Arrive(q) \in intq' =>
                         q \in made' /\ q \notin waiting'[devno[q]] \cup out'[devno[q]]
                   /\ q \in waiting'[devno[q]] => q \in made' /\ q \notin out'[devno[q]]
                   /\ q \in out'[devno[q]] => q \in made'
<1>0. /\ devno[q] \in Devs
      /\ Arrive(q) \in intq => q \in made /\ q \notin waiting[devno[q]] \cup out[devno[q]]
      /\ q \in waiting[devno[q]] => q \in made /\ q \notin out[devno[q]]
      /\ q \in out[devno[q]] => q \in made
  BY DEF Fresh, IoDriverAssumption
<1>1. ASSUME NEW r \in Reqs, Request(r) PROVE Goal
  <2> DEFINE d == devno[r]
  <2>1. d \in Devs /\ r \in made /\ r \notin waiting[d] \cup out[d]
    BY <1>1 DEF Request, Fresh, IoDriverAssumption
  <2>2. /\ intq' = intq \ {Arrive(r)} /\ made' = made
        /\ \A s \in Reqs : Arrive(s) = Arrive(r) => s = r
    BY <1>1 DEF Request, Arrive
  <2>3. CASE CheckSendOutRequest(d)
    <3>1. PICK next \in waiting[d] \cup {r} :
             /\ waiting' = [waiting EXCEPT ![d] = (@ \cup {r}) \ {next}]
             /\ out' = [out EXCEPT ![d] = @ \cup {next}]
      BY <1>1, <2>3 DEF Request
    <3>2. /\ waiting'[devno[q]] = IF devno[q] = d THEN (waiting[d] \cup {r}) \ {next}
                                  ELSE waiting[devno[q]]
          /\ out'[devno[q]] = IF devno[q] = d THEN out[d] \cup {next} ELSE out[devno[q]]
      BY <1>0, <2>1, <3>1 DEF TypeOK
    <3> QED BY <1>0, <2>1, <2>2, <3>1, <3>2
  <2>4. CASE ~CheckSendOutRequest(d)
    <3>1. waiting' = [waiting EXCEPT ![d] = @ \cup {r}] /\ out' = out
      BY <1>1, <2>4 DEF Request
    <3>2. waiting'[devno[q]] = IF devno[q] = d THEN waiting[d] \cup {r} ELSE waiting[devno[q]]
      BY <1>0, <2>1, <3>1 DEF TypeOK
    <3> QED BY <1>0, <2>1, <2>2, <3>1, <3>2
  <2> QED BY <2>3, <2>4
<1>2. ASSUME NEW e \in intq, ScheduleAccess(e) PROVE Goal
  BY <1>0, <1>2 DEF ScheduleAccess
<1>3. ASSUME NEW e \in below, PieceComplete(e) PROVE Goal
  <2>1. Arrive(q) # NextPiece(e)
    BY DEF NextPiece, Arrive, TypeOK, PieceSet
  <2> QED BY <1>0, <1>3, <2>1 DEF PieceComplete
<1>4. ASSUME NEW e \in below, AccessComplete(e) PROVE Goal
  <2> DEFINE r == e.req
             d == devno[r]
             due == {Arrive(s) : s \in DependentsOf(r)}
  <2>1. r \in Reqs /\ d \in Devs /\ DependentsOf(r) \subseteq Reqs \ made
    BY DEF TypeOK, PieceSet, IoDriverAssumption, DependentsOf
  <2>2. made' = made \cup DependentsOf(r)
    BY <1>4 DEF AccessComplete
  <2>3. Arrive(q) \in due => q \in DependentsOf(r)
    BY DEF Arrive
  <2>4. CASE Skips(r) \/ waiting[d] = {}
    <3>1. /\ out' = [out EXCEPT ![d] = @ \ {r}]
          /\ intq' = intq \cup due /\ waiting' = waiting
      BY <1>4, <2>4 DEF AccessComplete
    <3>2. out'[devno[q]] \subseteq out[devno[q]]
      BY <1>0, <2>1, <3>1 DEF TypeOK
    <3> QED BY <1>0, <2>1, <2>2, <2>3, <3>1, <3>2
  <2>5. CASE ~(Skips(r) \/ waiting[d] = {})
    <3>1. PICK next \in waiting[d] :
             /\ waiting' = [waiting EXCEPT ![d] = @ \ {next}]
             /\ out' = [out EXCEPT ![d] = (@ \ {r}) \cup {next}]
             /\ intq' = intq \cup due \cup {Access(next)}
      BY <1>4, <2>5 DEF AccessComplete
    <3>2. Arrive(q) # Access(next)
      BY DEF Arrive, Access
    <3>3. /\ waiting'[devno[q]] = IF devno[q] = d THEN waiting[d] \ {next}
                                  ELSE waiting[devno[q]]
          /\ out'[devno[q]] = IF devno[q] = d THEN (out[d] \ {r}) \cup {next}
                              ELSE out[devno[q]]
      BY <1>0, <2>1, <3>1 DEF TypeOK
    <3>4. next \in Reqs /\ devno[next] = d
      BY <2>1 DEF TypeOK
    <3> QED BY <1>0, <2>1, <2>2, <2>3, <3>1, <3>2, <3>3, <3>4
  <2> QED BY <2>4, <2>5
<1>5. CASE UNCHANGED vars
  BY <1>0, <1>5 DEF vars
<1> QED BY <1>1, <1>2, <1>3, <1>4, <1>5 DEF Next

LEMMA ScheduleKeepsSize ==
    ASSUME IoDriverAssumption, TypeOK, PiecesHaveSize, NEW e, Schedule(e)
    PROVE  PiecesHaveSize'
<1> SUFFICES ASSUME NEW c \in Ctlrs, oversized'[c] # {} PROVE maxreqsize[c] # 0
  BY DEF PiecesHaveSize
<1>1. oversized[c] # {} \/ (TooLong(e) /\ c = queuectlr[devno[e.req]])
  BY DEF Schedule
<1> QED BY <1>1 DEF PiecesHaveSize, TooLong

LEMMA PiecesStep ==
    IoDriverAssumption /\ TypeOK /\ PiecesHaveSize /\ [Next]_vars => PiecesHaveSize'
<1> SUFFICES ASSUME IoDriverAssumption, TypeOK, PiecesHaveSize, [Next]_vars
             PROVE  PiecesHaveSize'
  OBVIOUS
<1>1. ASSUME NEW r \in Reqs, Request(r) PROVE PiecesHaveSize'
  <2>1. (\E next : Schedule(Access(next))) \/ oversized' = oversized
    BY <1>1 DEF Request
  <2> QED BY <2>1, ScheduleKeepsSize DEF PiecesHaveSize
<1>2. ASSUME NEW e \in intq, ScheduleAccess(e) PROVE PiecesHaveSize'
  BY <1>2, ScheduleKeepsSize DEF ScheduleAccess
<1>3. ASSUME NEW e \in below, PieceComplete(e) PROVE PiecesHaveSize'
  BY <1>3 DEF PieceComplete, PiecesHaveSize
<1>4. ASSUME NEW e \in below, AccessComplete(e) PROVE PiecesHaveSize'
  BY <1>4 DEF AccessComplete, PiecesHaveSize
<1>5. CASE UNCHANGED vars
  BY <1>5 DEF vars, PiecesHaveSize
<1> QED BY <1>1, <1>2, <1>3, <1>4, <1>5 DEF Next

-----------------------------------------------------------------------------
(* One access each *)

\* The accesses of q that are due, and those in the subsystem
DueOf(q)  == {e \in intq : e.type = "IO_ACCESS_ARRIVE" /\ e.req = q}
SentOf(q) == {e \in below : e.type = "IO_ACCESS_ARRIVE" /\ e.req = q}

\* OneAccessEach says no more and no less of q than this.
One(q) ==
    /\ q \notin out[devno[q]] => DueOf(q) = {} /\ SentOf(q) = {}
    /\ q \in out[devno[q]] => \/ \E a : DueOf(q) = {a} /\ SentOf(q) = {}
                              \/ \E a : DueOf(q) = {} /\ SentOf(q) = {a}

AllOne == \A q \in Reqs : One(q)

LEMMA OneMeansOne == OneAccessEach <=> AllOne
<1>0. \A q : AccessesOf(q) = DueOf(q) \cup SentOf(q)
  BY DEF AccessesOf, DueOf, SentOf
<1>1. ASSUME NEW q \in Reqs, One(q)
      PROVE  /\ q \in out[devno[q]] <=> AccessesOf(q) # {}
             /\ \A e, f \in AccessesOf(q) : e = f
             /\ AccessesOf(q) \cap intq \cap below = {}
  <2>1. \A e \in AccessesOf(q) : (e \in intq => e \in DueOf(q)) /\ (e \in below => e \in SentOf(q))
    BY DEF AccessesOf, DueOf, SentOf
  <2> QED BY <1>0, <1>1, <2>1 DEF One
<1>2. ASSUME NEW q \in Reqs,
             q \in out[devno[q]] <=> AccessesOf(q) # {},
             \A e, f \in AccessesOf(q) : e = f,
             AccessesOf(q) \cap intq \cap below = {}
      PROVE  One(q)
  <2>1. DueOf(q) \cap SentOf(q) = {}
    BY <1>0, <1>2 DEF DueOf, SentOf
  <2>2. CASE AccessesOf(q) = {}
    BY <1>0, <1>2, <2>2 DEF One
  <2>3. CASE AccessesOf(q) # {}
    <3>1. PICK a : AccessesOf(q) = {a}
      BY <1>2, <2>3
    <3>2. \/ DueOf(q) = {a} /\ SentOf(q) = {}
          \/ DueOf(q) = {} /\ SentOf(q) = {a}
      BY <1>0, <2>1, <3>1
    <3> QED BY <1>2, <2>3, <3>2 DEF One
  <2> QED BY <2>2, <2>3
<1> QED BY <1>1, <1>2 DEF OneAccessEach, AllOne

\* A step that touches neither the accesses of q nor whether it is handed out
LEMMA OneKept ==
    ASSUME NEW q, One(q), DueOf(q)' = DueOf(q), SentOf(q)' = SentOf(q),
           q \in out'[devno[q]] <=> q \in out[devno[q]]
    PROVE  One(q)'
BY DEF One

\* Sending the access a of a request changes no other request's.
LEMMA ScheduleSends ==
    ASSUME IoDriverAssumption, NEW a \in PieceSet, Schedule(a), NEW q
    PROVE  SentOf(q)' = IF q = a.req THEN SentOf(q) \cup {Sent(a)} ELSE SentOf(q)
<1>1. Sent(a).type = "IO_ACCESS_ARRIVE" /\ Sent(a).req = a.req
  BY SentType DEF PieceSet
<1> QED BY <1>1 DEF Schedule, SentOf

LEMMA OneAccessStep ==
    IoDriverAssumption /\ TypeOK /\ Fresh /\ PiecesHaveSize /\ OneAccessEach /\ [Next]_vars
        => OneAccessEach'
<1>a. OneAccessEach' <=> AllOne'
  BY OneMeansOne, PTL
<1> SUFFICES ASSUME IoDriverAssumption, TypeOK, Fresh, PiecesHaveSize, OneAccessEach,
                    [Next]_vars, NEW q \in Reqs
             PROVE  One(q)'
  BY <1>a DEF AllOne
<1>0. \A r \in Reqs : One(r) /\ devno[r] \in Devs
  BY OneMeansOne DEF AllOne, IoDriverAssumption
<1> USE DEF DueOf, SentOf
<1>1. ASSUME NEW r \in Reqs, Request(r) PROVE One(q)'
  <2> DEFINE d == devno[r]
  <2>1. d \in Devs /\ r \notin waiting[d] \cup out[d]
    BY <1>1 DEF Request, Fresh, IoDriverAssumption
  <2>2. DueOf(q)' = DueOf(q)
    BY <1>1 DEF Request, Arrive
  <2>3. CASE CheckSendOutRequest(d)
    <3>1. PICK next \in waiting[d] \cup {r} :
             /\ out' = [out EXCEPT ![d] = @ \cup {next}]
             /\ Schedule(Access(next))
      BY <1>1, <2>3 DEF Request
    <3>2. next \in Reqs /\ devno[next] = d /\ next \notin out[d]
      BY <2>1 DEF TypeOK, Fresh
    <3>3. Access(next) \in PieceSet /\ Access(next).req = next
      BY <3>2, AccessType
    <3> HIDE DEF DueOf, SentOf
    <3>4. SentOf(q)' = IF q = next THEN SentOf(q) \cup {Sent(Access(next))} ELSE SentOf(q)
      BY <3>1, <3>3, ScheduleSends
    <3>5. out'[devno[q]] = IF devno[q] = d THEN out[d] \cup {next} ELSE out[devno[q]]
      BY <1>0, <2>1, <3>1 DEF TypeOK
    <3>6. CASE q = next
      <4>1. DueOf(q) = {} /\ SentOf(q) = {} /\ devno[q] = d
        BY <1>0, <3>2, <3>6 DEF One
      <4>2. DueOf(q)' = {} /\ SentOf(q)' = {Sent(Access(next))} /\ q \in out'[devno[q]]
        BY <2>2, <3>4, <3>5, <3>6, <4>1
      <4> QED BY <4>2 DEF One
    <3>7. CASE q # next
      BY <1>0, <2>2, <3>4, <3>5, <3>7, OneKept
    <3> QED BY <3>6, <3>7
  <2>4. CASE ~CheckSendOutRequest(d)
    <3>1. out' = out /\ SentOf(q)' = SentOf(q)
      BY <1>1, <2>4 DEF Request
    <3> QED BY <1>0, <2>2, <3>1, OneKept
  <2> QED BY <2>3, <2>4
<1>2. ASSUME NEW e \in intq, ScheduleAccess(e) PROVE One(q)'
  <2>1. e \in PieceSet
    BY <1>2 DEF ScheduleAccess, TypeOK, Arrive
  <2>2. /\ SentOf(q)' = IF q = e.req THEN SentOf(q) \cup {Sent(e)} ELSE SentOf(q)
        /\ out' = out
    BY <1>2, <2>1, ScheduleSends DEF ScheduleAccess
  <2>3. DueOf(q)' = DueOf(q) \ {e} /\ (q = e.req <=> e \in DueOf(q))
    BY <1>2 DEF ScheduleAccess
  <2> HIDE DEF DueOf, SentOf
  <2>4. CASE q = e.req
    <3>1. q \in out[devno[q]] /\ DueOf(q) = {e} /\ SentOf(q) = {}
      BY <1>0, <2>3, <2>4 DEF One
    <3>2. DueOf(q)' = {} /\ SentOf(q)' = {Sent(e)} /\ q \in out'[devno[q]]
      BY <2>2, <2>3, <2>4, <3>1
    <3> QED BY <3>2 DEF One
  <2>5. CASE q # e.req
    BY <1>0, <2>2, <2>3, <2>5, OneKept
  <2> QED BY <2>4, <2>5
<1>3. ASSUME NEW e \in below, PieceComplete(e) PROVE One(q)'
  <2>1. NextPiece(e) \in PieceSet /\ NextPiece(e).req = e.req
    BY <1>3, NextPieceType DEF PieceComplete, TypeOK
  <2>2. SentOf(q)' = SentOf(q) \ {e} /\ (q = e.req <=> e \in SentOf(q)) /\ out' = out
    BY <1>3 DEF PieceComplete, TypeOK, PieceSet
  <2>3. DueOf(q)' = IF q = e.req THEN DueOf(q) \cup {NextPiece(e)} ELSE DueOf(q)
    BY <1>3, <2>1 DEF PieceComplete, PieceSet
  <2> HIDE DEF DueOf, SentOf
  <2>4. CASE q = e.req
    <3>1. q \in out[devno[q]] /\ DueOf(q) = {} /\ SentOf(q) = {e}
      BY <1>0, <2>2, <2>4 DEF One
    <3>2. DueOf(q)' = {NextPiece(e)} /\ SentOf(q)' = {} /\ q \in out'[devno[q]]
      BY <2>2, <2>3, <2>4, <3>1
    <3> QED BY <3>2 DEF One
  <2>5. CASE q # e.req
    BY <1>0, <2>2, <2>3, <2>5, OneKept
  <2> QED BY <2>4, <2>5
<1>4. ASSUME NEW e \in below, AccessComplete(e) PROVE One(q)'
  <2> DEFINE r == e.req
             d == devno[r]
             due == {Arrive(s) : s \in DependentsOf(r)}
  <2>1. r \in Reqs /\ d \in Devs /\ \A f \in due : f.type # "IO_ACCESS_ARRIVE"
    BY DEF TypeOK, PieceSet, IoDriverAssumption, Arrive
  <2>2. SentOf(q)' = SentOf(q) \ {e} /\ (q = r <=> e \in SentOf(q))
    BY <1>4 DEF AccessComplete, TypeOK, PieceSet
  <2>3. r \in out[d] /\ DueOf(r) = {} /\ SentOf(r) = {e}
    <3>1. e \in SentOf(r)
      BY DEF TypeOK, PieceSet
    <3> HIDE DEF DueOf, SentOf
    <3> QED BY <1>0, <2>1, <3>1 DEF One
  <2>4. CASE Skips(r) \/ waiting[d] = {}
    <3>1. out' = [out EXCEPT ![d] = @ \ {r}] /\ intq' = intq \cup due
      BY <1>4, <2>4 DEF AccessComplete
    <3>2. DueOf(q)' = DueOf(q)
      BY <2>1, <3>1
    <3>3. out'[devno[q]] = IF devno[q] = d THEN out[d] \ {r} ELSE out[devno[q]]
      BY <1>0, <2>1, <3>1 DEF TypeOK
    <3> HIDE DEF DueOf, SentOf
    <3>4. CASE q = r
      <4>3. DueOf(q) = {} /\ SentOf(q) = {e}
        BY <2>3, <3>4
      <4>1. DueOf(q)' = {} /\ SentOf(q)' = {}
        BY <2>2, <3>2, <4>3
      <4>2. devno[q] = d /\ out'[devno[q]] = out[d] \ {r}
        BY <3>3, <3>4
      <4> QED BY <3>4, <4>1, <4>2 DEF One
    <3>5. CASE q # r
      <4>1. DueOf(q)' = DueOf(q) /\ SentOf(q)' = SentOf(q)
        BY <2>2, <3>2, <3>5
      <4>2. q \in out'[devno[q]] <=> q \in out[devno[q]]
        BY <3>3, <3>5
      <4> QED BY <1>0, <4>1, <4>2, OneKept
    <3> QED BY <3>4, <3>5
  <2>5. CASE ~(Skips(r) \/ waiting[d] = {})
    <3>1. PICK next \in waiting[d] :
             /\ out' = [out EXCEPT ![d] = (@ \ {r}) \cup {next}]
             /\ intq' = intq \cup due \cup {Access(next)}
      BY <1>4, <2>5 DEF AccessComplete
    <3>2. next \in Reqs /\ devno[next] = d /\ next \notin out[d]
      BY <2>1 DEF TypeOK, Fresh
    <3>3. Access(next).type = "IO_ACCESS_ARRIVE" /\ Access(next).req = next
      BY DEF Access
    <3>4. DueOf(q)' = IF q = next THEN DueOf(q) \cup {Access(next)} ELSE DueOf(q)
      BY <2>1, <3>1, <3>3
    <3>5. out'[devno[q]] = IF devno[q] = d THEN (out[d] \ {r}) \cup {next} ELSE out[devno[q]]
      BY <1>0, <2>1, <3>1 DEF TypeOK
    <3> HIDE DEF DueOf, SentOf
    <3>6. CASE q = r
      <4>1. q # next
        BY <2>3, <3>2, <3>6
      <4>2. DueOf(q) = {} /\ SentOf(q) = {e}
        BY <2>3, <3>6
      <4>a. DueOf(q)' = {} /\ SentOf(q)' = {}
        BY <2>2, <3>4, <4>1, <4>2
      <4>3. q \notin out'[devno[q]]
        BY <3>5, <3>6, <4>1
      <4> QED BY <4>a, <4>3 DEF One
    <3>7. CASE q = next
      <4>1. DueOf(q) = {} /\ SentOf(q) = {} /\ devno[q] = d
        BY <1>0, <3>2, <3>7 DEF One
      <4>2. DueOf(q)' = {Access(next)} /\ SentOf(q)' = {} /\ q \in out'[devno[q]]
        BY <2>2, <3>4, <3>5, <3>7, <4>1
      <4> QED BY <4>2 DEF One
    <3>8. CASE q # r /\ q # next
      <4>1. DueOf(q)' = DueOf(q) /\ SentOf(q)' = SentOf(q)
        BY <2>2, <3>4, <3>8
      <4>2. q \in out'[devno[q]] <=> q \in out[devno[q]]
        BY <3>5, <3>8
      <4> QED BY <1>0, <4>1, <4>2, OneKept
    <3> QED BY <3>6, <3>7, <3>8
  <2> QED BY <2>4, <2>5
<1>5. CASE UNCHANGED vars
  BY <1>0, <1>5, OneKept DEF vars
<1> QED BY <1>1, <1>2, <1>3, <1>4, <1>5 DEF Next

-----------------------------------------------------------------------------
(* Counts and limits *)

\* How a step moves the requests behind the controllers: it hands one out, takes
\* one away that is done, does both, or neither.
HandsOut(d, r) ==
    /\ d \in Devs /\ r \in Reqs /\ r \notin out[d] /\ CheckSendOutRequest(d)
    /\ out' = [out EXCEPT ![d] = @ \cup {r}] /\ numoutstanding' = Count(d, 1)
Finishes(d, r) ==
    /\ d \in Devs /\ r \in out[d]
    /\ out' = [out EXCEPT ![d] = @ \ {r}] /\ numoutstanding' = Count(d, -1)
Swaps(d, r, n) ==
    /\ d \in Devs /\ r \in out[d] /\ n \in Reqs /\ n # r
    /\ out' = [out EXCEPT ![d] = (@ \ {r}) \cup {n}] /\ numoutstanding' = numoutstanding
Stays ==
    /\ out' = out
    /\ numoutstanding' = numoutstanding \/ \E d : numoutstanding' = Count(d, 1)

LEMMA Movement ==
    ASSUME IoDriverAssumption, TypeOK, Fresh, OneAccessEach, [Next]_vars
    PROVE  \/ \E d, r : HandsOut(d, r)
           \/ \E d, r : Finishes(d, r)
           \/ \E d, r, n : Swaps(d, r, n)
           \/ Stays
<1> DEFINE Goal == \/ \E d, r : HandsOut(d, r)
                   \/ \E d, r : Finishes(d, r)
                   \/ \E d, r, n : Swaps(d, r, n)
                   \/ Stays
<1>1. ASSUME NEW r \in Reqs, Request(r) PROVE Goal
  <2> DEFINE d == devno[r]
  <2>1. d \in Devs /\ r \notin out[d] /\ waiting[d] \subseteq Reqs
    BY <1>1 DEF Request, Fresh, TypeOK, IoDriverAssumption
  <2>2. CASE CheckSendOutRequest(d)
    <3>1. PICK next \in waiting[d] \cup {r} :
             out' = [out EXCEPT ![d] = @ \cup {next}] /\ numoutstanding' = Count(d, 1)
      BY <1>1, <2>2 DEF Request
    <3>2. next \in Reqs /\ next \notin out[d]
      BY <2>1, <3>1 DEF TypeOK, Fresh
    <3>3. HandsOut(d, next)
      BY <2>1, <2>2, <3>1, <3>2 DEF HandsOut
    <3> QED BY <3>3
  <2>3. CASE ~CheckSendOutRequest(d)
    BY <1>1, <2>3 DEF Request, Stays
  <2> QED BY <2>2, <2>3
<1>2. ASSUME NEW e \in intq, ScheduleAccess(e) PROVE Goal
  BY <1>2 DEF ScheduleAccess, Stays
<1>3. ASSUME NEW e \in below, PieceComplete(e) PROVE Goal
  BY <1>3 DEF PieceComplete, Stays
<1>4. ASSUME NEW e \in below, AccessComplete(e) PROVE Goal
  <2> DEFINE r == e.req
             d == devno[r]
  <2>1. r \in Reqs /\ d \in Devs /\ waiting[d] \subseteq Reqs
    BY DEF TypeOK, PieceSet, IoDriverAssumption
  <2>2. r \in out[d]
    BY <2>1 DEF OneAccessEach, AccessesOf, TypeOK, PieceSet
  <2>3. CASE Skips(r) \/ waiting[d] = {}
    <3>1. Finishes(d, r)
      BY <1>4, <2>1, <2>2, <2>3 DEF AccessComplete, Finishes
    <3> QED BY <3>1
  <2>4. CASE ~(Skips(r) \/ waiting[d] = {})
    <3>1. PICK next \in waiting[d] :
             /\ out' = [out EXCEPT ![d] = (@ \ {r}) \cup {next}]
             /\ numoutstanding' = numoutstanding
      BY <1>4, <2>4 DEF AccessComplete
    <3>2. next \in Reqs /\ next # r
      BY <2>1, <2>2, <3>1 DEF TypeOK, Fresh
    <3>3. Swaps(d, r, next)
      BY <2>1, <2>2, <3>1, <3>2 DEF Swaps
    <3> QED BY <3>3
  <2> QED BY <2>3, <2>4
<1>5. CASE UNCHANGED vars
  BY <1>5 DEF vars, Stays
<1> QED BY <1>1, <1>2, <1>3, <1>4, <1>5 DEF Next

LEMMA OutAtFinite ==
    ASSUME IoDriverAssumption, TypeOK, NEW c \in Ctlrs
    PROVE  IsFiniteSet(OutAt(out, c)) /\ Cardinality(OutAt(out, c)) \in Nat
<1>1. OutAt(out, c) \subseteq Reqs
  BY DEF OutAt, TypeOK
<1> QED BY <1>1, FS_Subset, FS_CardinalityType DEF IoDriverAssumption

\* The requests behind a controller after each kind of movement
LEMMA AfterHandsOut ==
    ASSUME TypeOK, NEW d, NEW r, HandsOut(d, r), NEW c \in Ctlrs
    PROVE  OutAt(out, c)' = IF c = queuectlr[d] THEN OutAt(out, c) \cup {r} ELSE OutAt(out, c)
<1>1. d \in Devs /\ \A e \in Devs : out'[e] = IF e = d THEN out[e] \cup {r} ELSE out[e]
  BY DEF HandsOut, TypeOK
<1> QED BY <1>1 DEF OutAt

LEMMA AfterFinishes ==
    ASSUME TypeOK, NEW d, NEW r, Finishes(d, r), NEW c \in Ctlrs
    PROVE  /\ OutAt(out, c)' = IF c = queuectlr[d] THEN OutAt(out, c) \ {r} ELSE OutAt(out, c)
           /\ c = queuectlr[d] => r \in OutAt(out, c)
<1>1. /\ d \in Devs /\ r \in out[d] /\ \A e \in Devs : \A s \in out[e] : devno[s] = e
      /\ \A e \in Devs : out'[e] = IF e = d THEN out[e] \ {r} ELSE out[e]
  BY DEF Finishes, TypeOK
\* r is handed out to no other device
<1>2. ASSUME NEW e \in Devs PROVE out'[e] = out[e] \ {r}
  <2>1. CASE e = d
    BY <1>1, <2>1
  <2>2. CASE e # d
    <3>1. r \notin out[e] /\ out'[e] = out[e]
      BY <1>1, <2>2
    <3> QED BY <3>1
  <2> QED BY <2>1, <2>2
<1>3. c # queuectlr[d] => r \notin OutAt(out, c)
  BY <1>1 DEF OutAt
<1>4. OutAt(out, c)' = OutAt(out, c) \ {r}
  BY <1>2 DEF OutAt
<1>5. c = queuectlr[d] => r \in OutAt(out, c)
  BY <1>1 DEF OutAt
<1> QED BY <1>3, <1>4, <1>5

LEMMA AfterSwaps ==
    ASSUME TypeOK, NEW d, NEW r, NEW n, Swaps(d, r, n), NEW c \in Ctlrs
    PROVE  /\ OutAt(out, c)' = IF c = queuectlr[d] THEN (OutAt(out, c) \ {r}) \cup {n}
                               ELSE OutAt(out, c)
           /\ c = queuectlr[d] => r \in OutAt(out, c)
<1>1. /\ d \in Devs /\ r \in out[d] /\ \A e \in Devs : \A s \in out[e] : devno[s] = e
      /\ \A e \in Devs : out'[e] = IF e = d THEN (out[e] \ {r}) \cup {n} ELSE out[e]
  BY DEF Swaps, TypeOK
\* r is handed out to no other device
<1>2. \A e \in Devs : e # d => out'[e] = out[e] /\ r \notin out[e]
  BY <1>1
<1>3. out'[d] = (out[d] \ {r}) \cup {n}
  BY <1>1
<1>4. CASE c = queuectlr[d]
  <2>1. ASSUME NEW q, q \in OutAt(out, c)' PROVE q \in (OutAt(out, c) \ {r}) \cup {n}
    BY <1>1, <1>2, <1>3, <1>4, <2>1 DEF OutAt
  <2>2. ASSUME NEW q, q \in (OutAt(out, c) \ {r}) \cup {n} PROVE q \in OutAt(out, c)'
    <3>1. CASE q = n
      BY <1>1, <1>3, <1>4, <3>1 DEF OutAt
    <3>2. CASE q # n
      <4>1. PICK e \in Devs : queuectlr[e] = c /\ q \in out[e] /\ q # r
        BY <2>2, <3>2 DEF OutAt
      <4>2. q \in out'[e]
        BY <1>2, <1>3, <4>1
      <4> QED BY <4>1, <4>2 DEF OutAt
    <3> QED BY <3>1, <3>2
  <2>3. r \in OutAt(out, c)
    BY <1>1, <1>4 DEF OutAt
  <2> QED BY <1>4, <2>1, <2>2, <2>3
<1>5. CASE c # queuectlr[d]
  <2>1. \A e \in Devs : queuectlr[e] = c => out'[e] = out[e]
    BY <1>2, <1>5
  <2>2. OutAt(out, c)' = OutAt(out, c)
    BY <2>1 DEF OutAt
  <2> QED BY <1>5, <2>2
<1> QED BY <1>4, <1>5

\* A swap leaves no more requests behind any controller.
LEMMA SwapKeeps ==
    ASSUME IoDriverAssumption, TypeOK, NEW d, NEW r, NEW n, Swaps(d, r, n), NEW c \in Ctlrs
    PROVE  /\ Cardinality(OutAt(out, c)') \in Nat
           /\ Cardinality(OutAt(out, c)') <= Cardinality(OutAt(out, c))
<1> DEFINE F == OutAt(out, c)
           G == OutAt(out, c)'
<1>1. IsFiniteSet(F) /\ Cardinality(F) \in Nat
  BY OutAtFinite
<1>2. /\ G = IF c = queuectlr[d] THEN (F \ {r}) \cup {n} ELSE F
      /\ c = queuectlr[d] => r \in F
  BY AfterSwaps
<1> HIDE DEF F, G
<1>3. CASE c = queuectlr[d]
  <2>1. IsFiniteSet(F \ {r}) /\ Cardinality(F \ {r}) = Cardinality(F) - 1
    BY <1>1, <1>2, <1>3, OneLess
  <2>2. /\ Cardinality((F \ {r}) \cup {n}) \in Nat
        /\ Cardinality((F \ {r}) \cup {n}) <= Cardinality(F \ {r}) + 1
    BY <2>1, OneMore
  <2>3. Cardinality(G) \in Nat /\ Cardinality(G) <= Cardinality(F)
    BY <1>1, <1>2, <1>3, <2>1, <2>2
  <2> QED BY <2>3 DEF F, G
<1>4. CASE c # queuectlr[d]
  <2>1. Cardinality(G) \in Nat /\ Cardinality(G) <= Cardinality(F)
    BY <1>1, <1>2, <1>4
  <2> QED BY <2>1 DEF F, G
<1> QED BY <1>3, <1>4

LEMMA CountedStep ==
    IoDriverAssumption /\ TypeOK /\ Fresh /\ OneAccessEach /\ CountNeverShort /\ [Next]_vars => CountNeverShort'
<1> SUFFICES ASSUME IoDriverAssumption, TypeOK, Fresh, OneAccessEach, CountNeverShort, [Next]_vars,
                    NEW c \in Ctlrs
             PROVE  Cardinality(OutAt(out, c)') <= numoutstanding'[c]
  BY DEF CountNeverShort
<1> DEFINE F == OutAt(out, c)
           G == OutAt(out, c)'
<1>1. /\ IsFiniteSet(F) /\ Cardinality(F) \in Nat
      /\ numoutstanding[c] \in Int /\ Cardinality(F) <= numoutstanding[c]
  BY OutAtFinite DEF CountNeverShort, TypeOK
<1>2. \A d : /\ Count(d, 1)[c] = numoutstanding[c] + IF c = queuectlr[d] THEN 1 ELSE 0
             /\ Count(d, -1)[c] = numoutstanding[c] + IF c = queuectlr[d] THEN -1 ELSE 0
  BY DEF Count
<1>3. ASSUME NEW d, NEW r, HandsOut(d, r) PROVE Cardinality(G) <= numoutstanding'[c]
  <2>1. numoutstanding'[c] = numoutstanding[c] + IF c = queuectlr[d] THEN 1 ELSE 0
    BY <1>2, <1>3 DEF HandsOut
  <2>2. G = IF c = queuectlr[d] THEN F \cup {r} ELSE F
    BY <1>3, AfterHandsOut
  <2> HIDE DEF F, G
  <2>3. Cardinality(F \cup {r}) \in Nat /\ Cardinality(F \cup {r}) <= Cardinality(F) + 1
    BY <1>1, OneMore
  <2> QED BY <1>1, <2>1, <2>2, <2>3
<1>4. ASSUME NEW d, NEW r, Finishes(d, r) PROVE Cardinality(G) <= numoutstanding'[c]
  <2>1. numoutstanding'[c] = numoutstanding[c] + IF c = queuectlr[d] THEN -1 ELSE 0
    BY <1>2, <1>4 DEF Finishes
  <2>2. /\ G = IF c = queuectlr[d] THEN F \ {r} ELSE F
        /\ c = queuectlr[d] => r \in F
    BY <1>4, AfterFinishes
  <2> HIDE DEF F, G
  <2>3. r \in F => Cardinality(F \ {r}) = Cardinality(F) - 1
    BY <1>1, OneLess
  <2> QED BY <1>1, <2>1, <2>2, <2>3
<1>5. ASSUME NEW d, NEW r, NEW n, Swaps(d, r, n) PROVE Cardinality(G) <= numoutstanding'[c]
  <2>1. /\ numoutstanding'[c] = numoutstanding[c]
        /\ Cardinality(G) \in Nat /\ Cardinality(G) <= Cardinality(F)
    BY <1>5, SwapKeeps DEF Swaps
  <2> HIDE DEF F, G
  <2> QED BY <1>1, <2>1
<1>6. ASSUME Stays PROVE Cardinality(G) <= numoutstanding'[c]
  <2>1. /\ numoutstanding'[c] = numoutstanding[c] \/ numoutstanding'[c] = numoutstanding[c] + 1
        /\ G = F
    BY <1>1, <1>2, <1>6 DEF Stays
  <2> HIDE DEF F, G
  <2> QED BY <1>1, <2>1
<1> QED BY <1>3, <1>4, <1>5, <1>6, Movement

\* The device d's own queue: what is handed out to d.
LEMMA DeviceStep ==
    ASSUME IoDriverAssumption, TypeOK, Fresh, OneAccessEach, WithinLimits, [Next]_vars,
           usequeue, NEW x \in Devs, queuectlr[x] = NoCtlr
    PROVE  Cardinality(out'[x]) <= maxoutstanding[x]
<1>1. /\ IsFiniteSet(out[x]) /\ Cardinality(out[x]) \in Nat /\ maxoutstanding[x] \in Nat
      /\ Cardinality(out[x]) <= maxoutstanding[x] /\ out \in [Devs -> SUBSET Reqs]
  BY FS_Subset, FS_CardinalityType DEF TypeOK, IoDriverAssumption, WithinLimits
<1>2. ASSUME NEW d, NEW r, HandsOut(d, r) PROVE Cardinality(out'[x]) <= maxoutstanding[x]
  <2>1. CASE d = x
    <3>1. Cardinality(out[x]) < maxoutstanding[x] /\ out'[x] = out[x] \cup {r}
      BY <1>1, <1>2, <2>1 DEF HandsOut, CheckSendOutRequest
    <3>2. Cardinality(out[x] \cup {r}) \in Nat /\ Cardinality(out[x] \cup {r}) <= Cardinality(out[x]) + 1
      BY <1>1, OneMore
    <3> QED BY <1>1, <3>1, <3>2
  <2>2. CASE d # x
    BY <1>1, <1>2, <2>2 DEF HandsOut
  <2> QED BY <2>1, <2>2
<1>3. ASSUME NEW d, NEW r, Finishes(d, r) PROVE Cardinality(out'[x]) <= maxoutstanding[x]
  <2>1. CASE d = x
    <3>1. out'[x] = out[x] \ {r} /\ r \in out[x]
      BY <1>1, <1>3, <2>1 DEF Finishes
    <3>2. Cardinality(out[x] \ {r}) = Cardinality(out[x]) - 1
      BY <1>1, <3>1, OneLess
    <3> QED BY <1>1, <3>1, <3>2
  <2>2. CASE d # x
    BY <1>1, <1>3, <2>2 DEF Finishes
  <2> QED BY <2>1, <2>2
<1>4. ASSUME NEW d, NEW r, NEW n, Swaps(d, r, n)
      PROVE  Cardinality(out'[x]) <= maxoutstanding[x]
  <2>1. CASE d = x
    <3> DEFINE mid == out[x] \ {r}
    <3>1. out'[x] = mid \cup {n} /\ r \in out[x]
      BY <1>1, <1>4, <2>1 DEF Swaps
    <3>2. IsFiniteSet(mid) /\ Cardinality(mid) = Cardinality(out[x]) - 1
      BY <1>1, <3>1, OneLess
    <3> HIDE DEF mid
    <3>3. Cardinality(mid \cup {n}) \in Nat /\ Cardinality(mid \cup {n}) <= Cardinality(mid) + 1
      BY <3>2, OneMore
    <3> QED BY <1>1, <3>1, <3>2, <3>3
  <2>2. CASE d # x
    BY <1>1, <1>4, <2>2 DEF Swaps
  <2> QED BY <2>1, <2>2
<1>5. ASSUME Stays PROVE Cardinality(out'[x]) <= maxoutstanding[x]
  BY <1>1, <1>5 DEF Stays
<1> QED BY <1>2, <1>3, <1>4, <1>5, Movement

\* The controller c: what is handed out to the devices behind it.
LEMMA ControllerStep ==
    ASSUME IoDriverAssumption, TypeOK, Fresh, OneAccessEach, CountNeverShort, WithinLimits,
           [Next]_vars, usequeue, NEW c \in Ctlrs
    PROVE  Cardinality(OutAt(out, c)') <= maxoutstanding[c]
<1> DEFINE F == OutAt(out, c)
           G == OutAt(out, c)'
<1>1. /\ IsFiniteSet(F) /\ Cardinality(F) \in Nat /\ maxoutstanding[c] \in Nat
      /\ numoutstanding[c] \in Int /\ Cardinality(F) <= numoutstanding[c]
      /\ Cardinality(F) <= maxoutstanding[c]
  BY OutAtFinite DEF CountNeverShort, TypeOK, IoDriverAssumption, WithinLimits
<1>2. ASSUME NEW d, NEW r, HandsOut(d, r) PROVE Cardinality(G) <= maxoutstanding[c]
  <2>1. c = queuectlr[d] => numoutstanding[c] < maxoutstanding[c]
    BY <1>2 DEF HandsOut, CheckSendOutRequest, IoDriverAssumption
  <2>2. G = IF c = queuectlr[d] THEN F \cup {r} ELSE F
    BY <1>2, AfterHandsOut
  <2> HIDE DEF F, G
  <2>3. Cardinality(F \cup {r}) \in Nat /\ Cardinality(F \cup {r}) <= Cardinality(F) + 1
    BY <1>1, OneMore
  <2> QED BY <1>1, <2>1, <2>2, <2>3
<1>3. ASSUME NEW d, NEW r, Finishes(d, r) PROVE Cardinality(G) <= maxoutstanding[c]
  <2>1. /\ G = IF c = queuectlr[d] THEN F \ {r} ELSE F
        /\ c = queuectlr[d] => r \in F
    BY <1>3, AfterFinishes
  <2> HIDE DEF F, G
  <2>2. r \in F => Cardinality(F \ {r}) = Cardinality(F) - 1
    BY <1>1, OneLess
  <2> QED BY <1>1, <2>1, <2>2
<1>4. ASSUME NEW d, NEW r, NEW n, Swaps(d, r, n) PROVE Cardinality(G) <= maxoutstanding[c]
  <2>1. Cardinality(G) \in Nat /\ Cardinality(G) <= Cardinality(F)
    BY <1>4, SwapKeeps
  <2> HIDE DEF F, G
  <2> QED BY <1>1, <2>1
<1>5. ASSUME Stays PROVE Cardinality(G) <= maxoutstanding[c]
  <2>1. G = F
    BY <1>5 DEF Stays
  <2> HIDE DEF F, G
  <2> QED BY <1>1, <2>1
<1> QED BY <1>2, <1>3, <1>4, <1>5, Movement

\* No access in the subsystem is longer than its controller takes.
LEMMA LengthStep ==
    ASSUME IoDriverAssumption, TypeOK, WithinLimits, [Next]_vars, usequeue, NEW a \in below'
    PROVE  ~TooLong(a)
<1>0. \A e \in below : ~TooLong(e)
  BY DEF WithinLimits
<1>1. ASSUME NEW e \in PieceSet, Schedule(e) PROVE ~TooLong(a)
  BY <1>0, <1>1, SentType DEF Schedule
<1>2. ASSUME NEW r \in Reqs, Request(r) PROVE ~TooLong(a)
  <2>1. CASE CheckSendOutRequest(devno[r])
    <3>1. PICK next \in waiting[devno[r]] \cup {r} : Schedule(Access(next))
      BY <1>2, <2>1 DEF Request
    <3>2. next \in Reqs
      BY <3>1 DEF TypeOK, IoDriverAssumption
    <3> QED BY <1>1, <3>1, <3>2, AccessType
  <2>2. CASE ~CheckSendOutRequest(devno[r])
    BY <1>0, <1>2, <2>2 DEF Request
  <2> QED BY <2>1, <2>2
<1>3. ASSUME NEW e \in intq, ScheduleAccess(e) PROVE ~TooLong(a)
  <2>1. e \in PieceSet
    BY <1>3 DEF ScheduleAccess, TypeOK, Arrive
  <2> QED BY <1>1, <1>3, <2>1 DEF ScheduleAccess
<1>4. ASSUME NEW e \in below, PieceComplete(e) \/ AccessComplete(e) PROVE ~TooLong(a)
  BY <1>0, <1>4 DEF PieceComplete, AccessComplete
<1>5. CASE UNCHANGED vars
  BY <1>0, <1>5 DEF vars
<1> QED BY <1>2, <1>3, <1>4, <1>5 DEF Next

-----------------------------------------------------------------------------
(* The theorems *)

LEMMA IInvStep == IoDriverAssumption /\ IInv /\ [Next]_vars => IInv'
<1> SUFFICES ASSUME IoDriverAssumption, IInv, [Next]_vars PROVE IInv'
  OBVIOUS
<1>0. TypeOK /\ Fresh /\ PiecesHaveSize /\ OneAccessEach /\ CountNeverShort /\ WithinLimits
  BY DEF IInv
<1>1. TypeOK' /\ Fresh' /\ PiecesHaveSize' /\ OneAccessEach' /\ CountNeverShort'
  BY <1>0, TypeStep, FreshStep, PiecesStep, OneAccessStep, CountedStep
<1>2. WithinLimits'
  <2>1. usequeue => \A d \in Devs : queuectlr[d] = NoCtlr =>
                       Cardinality(out'[d]) <= maxoutstanding[d]
    BY <1>0, DeviceStep
  <2>2. usequeue => \A c \in Ctlrs : Cardinality(OutAt(out, c)') <= maxoutstanding[c]
    BY <1>0, ControllerStep
  <2>3. usequeue => \A e \in below' : ~TooLong(e)
    BY <1>0, LengthStep
  <2> QED BY <2>1, <2>2, <2>3 DEF WithinLimits
<1> QED BY <1>1, <1>2 DEF IInv

THEOREM DriverInductive == Spec => []IInv
BY IoDriverAssumption, InitIInv, IInvStep, PTL DEF Spec

\* The driver's variables keep their types, and every request is queued at the
\* device it is for.
THEOREM DriverTypeCorrect == Spec => []TypeOK
<1>1. IInv => TypeOK
  BY DEF IInv
<1> QED BY <1>1, DriverInductive, PTL

\* A request handed out by its queue is on its way in exactly one access, in
\* pieces or whole, until it completes; no other request is.
THEOREM OneAccessPerRequest == Spec => []OneAccessEach
<1>1. IInv => OneAccessEach
  BY DEF IInv
<1> QED BY <1>1, DriverInductive, PTL

\* No device or controller is sent more requests, nor a longer one, than it said
\* at initialisation that it takes, whatever becomes of the driver's count.
THEOREM LimitsRespected == Spec => []WithinLimits
<1>1. IInv => WithinLimits
  BY DEF IInv
<1> QED BY <1>1, DriverInductive, PTL

\* The driver never believes a controller to have fewer requests than it has.
THEOREM CountSafe == Spec => []CountNeverShort
<1>1. IInv => CountNeverShort
  BY DEF IInv
<1> QED BY <1>1, DriverInductive, PTL

\* What the driver keeps about its requests is true of them at every step.
THEOREM DriverSafe == Spec => []DriverInv
<1>1. IInv => DriverInv
  BY DEF IInv, DriverInv
<1> QED BY <1>1, DriverInductive, PTL

-----------------------------------------------------------------------------
(* Whole requests. *)

\* What an access covers of its request: a piece of it, as long as the
\* controller takes and no longer than what is left, or all of it.
Covers(e) ==
    IF InPieces(e)
      THEN /\ e.blkno < bcount[e.req]
           /\ e.bcount = IF PieceSize(e) < bcount[e.req] - e.blkno
                           THEN PieceSize(e) ELSE bcount[e.req] - e.blkno
      ELSE e.blkno = 0 /\ e.bcount = bcount[e.req]

\* A request sent in pieces is one its controller has.
PiecesAreOut ==
    \A c \in Ctlrs : \A r \in oversized[c] : c = queuectlr[devno[r]] /\ r \in out[devno[r]]

AllCover == \A e \in intq \cup below : e.type = "IO_ACCESS_ARRIVE" => Covers(e)

WholeInv == IInv /\ PiecesAreOut /\ AllCover

LEMMA InitWhole == IoDriverAssumption /\ Init => WholeInv
<1> SUFFICES ASSUME IoDriverAssumption, Init PROVE WholeInv
  OBVIOUS
<1>1. PiecesAreOut
  BY DEF Init, PiecesAreOut
<1>2. AllCover
  BY DEF Init, AllCover, Arrive
<1> QED BY <1>1, <1>2, InitIInv DEF WholeInv

\* The controller of an access that is sent in pieces, and its limit
LEMMA PieceSizeType ==
    ASSUME IoDriverAssumption, TypeOK, PiecesHaveSize, NEW e \in PieceSet, InPieces(e)
    PROVE  /\ queuectlr[devno[e.req]] \in Ctlrs /\ e.req \in oversized[queuectlr[devno[e.req]]]
           /\ PieceSize(e) \in Nat \ {0}
<1>1. queuectlr[devno[e.req]] \in Ctlrs /\ e.req \in oversized[queuectlr[devno[e.req]]]
  BY DEF InPieces
<1> QED BY <1>1 DEF PieceSize, PiecesHaveSize, IoDriverAssumption

\* An access keeps covering what it covered as long as its request stays in
\* pieces, or whole.
LEMMA CoverKept ==
    ASSUME NEW e, Covers(e), InPieces(e)' <=> InPieces(e)
    PROVE  Covers(e)'
BY DEF Covers, PieceSize

\* The request of an access, handed out to its device
LEMMA AccessIsOut ==
    ASSUME IoDriverAssumption, TypeOK, OneAccessEach, NEW e \in intq \cup below,
           e.type = "IO_ACCESS_ARRIVE"
    PROVE  /\ e \in PieceSet /\ e.req \in Reqs /\ devno[e.req] \in Devs
           /\ e.req \in out[devno[e.req]]
           /\ \A f \in intq \cup below : f.type = "IO_ACCESS_ARRIVE" /\ f.req = e.req => f = e
           /\ e \in intq => e \notin below
<1>1. e \in PieceSet /\ e.req \in Reqs /\ devno[e.req] \in Devs
  BY DEF TypeOK, PieceSet, Arrive, IoDriverAssumption
<1>2. e \in AccessesOf(e.req)
  BY DEF AccessesOf
<1>3. \A f \in intq \cup below : f.type = "IO_ACCESS_ARRIVE" /\ f.req = e.req => f \in AccessesOf(e.req)
  BY DEF AccessesOf
<1>4. AccessesOf(e.req) \cap intq \cap below = {} /\ \A f, g \in AccessesOf(e.req) : f = g
  BY <1>1 DEF OneAccessEach
<1>5. e.req \in out[devno[e.req]]
  BY <1>1, <1>2 DEF OneAccessEach
<1>6. \A f \in intq \cup below : f.type = "IO_ACCESS_ARRIVE" /\ f.req = e.req => f = e
  BY <1>2, <1>3, <1>4
<1>7. e \in intq => e \notin below
  BY <1>2, <1>4
<1> QED BY <1>1, <1>5, <1>6, <1>7

\* What is sent down for an access covers the first piece of its request if
\* the access is too long, and what it covered before if not; the accesses of
\* other requests stay in pieces or whole.
LEMMA ScheduleCovers ==
    ASSUME IoDriverAssumption, TypeOK, PiecesHaveSize, NEW a \in PieceSet, Covers(a),
           Schedule(a)
    PROVE  /\ Covers(Sent(a))'
           /\ \A e \in PieceSet : e.req # a.req => (InPieces(e)' <=> InPieces(e))
<1> DEFINE c == queuectlr[devno[a.req]]
<1>0. /\ a.req \in Reqs /\ bcount[a.req] \in Nat /\ a.blkno \in Nat /\ a.bcount \in Nat
      /\ c \in Ctlrs \cup {NoCtlr} /\ NoCtlr \notin Ctlrs
  BY DEF PieceSet, IoDriverAssumption
<1>1. \A e \in PieceSet : e.req # a.req => (InPieces(e)' <=> InPieces(e))
  BY DEF Schedule, InPieces, TypeOK
<1>2. CASE TooLong(a)
  <2>1. c \in Ctlrs /\ maxreqsize[c] \in Nat \ {0} /\ a.bcount > maxreqsize[c]
    BY <1>0, <1>2 DEF TooLong, IoDriverAssumption
  <2>2. ~InPieces(a)
    <3>1. SUFFICES ASSUME InPieces(a) PROVE FALSE
      OBVIOUS
    <3>2. a.bcount <= PieceSize(a)
      BY <1>0, <2>1, <3>1 DEF Covers, PieceSize
    <3> QED BY <1>0, <2>1, <3>2 DEF PieceSize
  <2>3. a.blkno = 0 /\ a.bcount = bcount[a.req]
    BY <2>2 DEF Covers
  <2>4. Sent(a) = [a EXCEPT !.bcount = maxreqsize[c]]
    BY <1>2 DEF Sent
  <2>5. /\ Sent(a).blkno = 0 /\ Sent(a).bcount = maxreqsize[c] /\ Sent(a).req = a.req
        /\ PieceSize(Sent(a)) = maxreqsize[c]
    BY <2>3, <2>4 DEF PieceSet, PieceSize
  <2>6. InPieces(Sent(a))'
    BY <1>2, <2>1, <2>5 DEF InPieces, Schedule
  <2>7. maxreqsize[c] = IF maxreqsize[c] < bcount[a.req] - 0 THEN maxreqsize[c] ELSE bcount[a.req] - 0
    BY <1>0, <2>1, <2>3
  <2>8. Covers(Sent(a))'
    BY <1>0, <2>1, <2>3, <2>5, <2>6, <2>7 DEF Covers, PieceSize
  <2> QED BY <1>1, <2>8
<1>3. CASE ~TooLong(a)
  <2>1. Sent(a) = a
    BY <1>3 DEF Sent
  <2>2. oversized' = oversized
    BY <1>3 DEF Schedule, TypeOK
  <2>3. InPieces(a)' <=> InPieces(a)
    BY <2>2 DEF InPieces
  <2> QED BY <1>1, <2>1, <2>3, CoverKept
<1> QED BY <1>2, <1>3

LEMMA PiecesAreOutStep ==
    IoDriverAssumption /\ IInv /\ PiecesAreOut /\ [Next]_vars => PiecesAreOut'
<1> SUFFICES ASSUME IoDriverAssumption, IInv, PiecesAreOut, [Next]_vars,
                    NEW c \in Ctlrs, NEW r \in oversized'[c]
             PROVE  c = queuectlr[devno[r]] /\ r \in out'[devno[r]]
  BY DEF PiecesAreOut
<1> DEFINE Goal == c = queuectlr[devno[r]] /\ r \in out'[devno[r]]
<1>0. /\ TypeOK /\ Fresh /\ OneAccessEach
      /\ r \in oversized[c] => c = queuectlr[devno[r]] /\ r \in out[devno[r]]
  BY DEF IInv, PiecesAreOut
<1>1. ASSUME NEW a \in PieceSet, Schedule(a), r \notin oversized[c]
      PROVE  r = a.req /\ c = queuectlr[devno[r]]
  BY <1>1 DEF Schedule
<1>2. ASSUME NEW q \in Reqs, Request(q) PROVE Goal
  <2> DEFINE d == devno[q]
  <2>1. d \in Devs
    BY DEF IoDriverAssumption
  <2>2. CASE CheckSendOutRequest(d)
    <3>1. PICK next \in waiting[d] \cup {q} :
             out' = [out EXCEPT ![d] = @ \cup {next}] /\ Schedule(Access(next))
      BY <1>2, <2>2 DEF Request
    <3>2. next \in Reqs /\ devno[next] = d
      BY <1>0, <2>1 DEF TypeOK
    <3>3. Access(next) \in PieceSet /\ Access(next).req = next
      BY <3>2, AccessType
    <3>4. CASE r \in oversized[c]
      BY <1>0, <2>1, <3>1, <3>4 DEF TypeOK
    <3>5. CASE r \notin oversized[c]
      <4>1. r = next /\ c = queuectlr[devno[r]]
        BY <1>1, <3>1, <3>3, <3>5
      <4> QED BY <1>0, <2>1, <3>1, <3>2, <4>1 DEF TypeOK
    <3> QED BY <3>4, <3>5
  <2>3. CASE ~CheckSendOutRequest(d)
    BY <1>0, <1>2, <2>3 DEF Request
  <2> QED BY <2>2, <2>3
<1>3. ASSUME NEW e \in intq, ScheduleAccess(e) PROVE Goal
  <2>1. e \in PieceSet /\ e.req \in out[devno[e.req]]
    BY <1>0, <1>3, AccessIsOut DEF ScheduleAccess
  <2> QED BY <1>0, <1>1, <1>3, <2>1 DEF ScheduleAccess
<1>4. ASSUME NEW e \in below, PieceComplete(e) PROVE Goal
  BY <1>0, <1>4 DEF PieceComplete
<1>5. ASSUME NEW e \in below, AccessComplete(e) PROVE Goal
  <2> DEFINE q == e.req
             d == devno[q]
  <2>1. r # q /\ r \in oversized[c] /\ d \in Devs
    BY <1>0, <1>5 DEF AccessComplete, TypeOK, PieceSet, IoDriverAssumption
  <2>2. CASE out' = [out EXCEPT ![d] = @ \ {q}]
    BY <1>0, <2>1, <2>2 DEF TypeOK
  <2>3. ASSUME NEW next, out' = [out EXCEPT ![d] = (@ \ {q}) \cup {next}] PROVE Goal
    BY <1>0, <2>1, <2>3 DEF TypeOK
  <2> QED BY <1>5, <2>2, <2>3 DEF AccessComplete
<1>6. CASE UNCHANGED vars
  BY <1>0, <1>6 DEF vars
<1> QED BY <1>2, <1>3, <1>4, <1>5, <1>6 DEF Next

\* A request handed out whole was in no pieces, and is covered.
LEMMA AccessCovers ==
    ASSUME IoDriverAssumption, PiecesAreOut, NEW r \in Reqs, r \notin out[devno[r]]
    PROVE  Covers(Access(r))
<1>1. ~InPieces(Access(r))
  BY DEF InPieces, Access, PiecesAreOut
<1> QED BY <1>1 DEF Covers, Access

\* The next piece of a request covers what it should.
LEMMA NextPieceCovers ==
    ASSUME IoDriverAssumption, TypeOK, PiecesHaveSize, NEW e \in PieceSet, MoreToGo(e)
    PROVE  Covers(NextPiece(e))
<1>1. InPieces(e) /\ e.blkno + PieceSize(e) < bcount[e.req]
  BY DEF MoreToGo
<1>2. PieceSize(e) \in Nat \ {0} /\ bcount[e.req] \in Nat /\ e.blkno \in Nat
  BY <1>1, PieceSizeType DEF IoDriverAssumption, PieceSet
<1>3. /\ NextPiece(e).req = e.req /\ NextPiece(e).blkno = e.blkno + PieceSize(e)
      /\ NextPiece(e).bcount = IF PieceSize(e) < bcount[e.req] - (e.blkno + PieceSize(e))
                                 THEN PieceSize(e) ELSE bcount[e.req] - (e.blkno + PieceSize(e))
  BY DEF NextPiece, PieceSet
<1>4. InPieces(NextPiece(e)) /\ PieceSize(NextPiece(e)) = PieceSize(e)
  BY <1>1, <1>3 DEF InPieces, PieceSize
<1> QED BY <1>1, <1>2, <1>3, <1>4 DEF Covers

LEMMA AllCoverStep == IoDriverAssumption /\ WholeInv /\ [Next]_vars => AllCover'
<1> SUFFICES ASSUME IoDriverAssumption, WholeInv, [Next]_vars,
                    NEW f \in intq' \cup below', f.type = "IO_ACCESS_ARRIVE"
             PROVE  Covers(f)'
  BY DEF AllCover
<1>0. /\ TypeOK /\ Fresh /\ PiecesHaveSize /\ OneAccessEach /\ PiecesAreOut
      /\ \A e \in intq \cup below : e.type = "IO_ACCESS_ARRIVE" => Covers(e)
  BY DEF WholeInv, IInv, AllCover
<1>1. \A e \in intq \cup below : e.type = "IO_ACCESS_ARRIVE" =>
         /\ e \in PieceSet /\ e.req \in Reqs /\ devno[e.req] \in Devs /\ e.req \in out[devno[e.req]]
         /\ \A g \in intq \cup below : g.type = "IO_ACCESS_ARRIVE" /\ g.req = e.req => g = e
  BY <1>0, AccessIsOut
\* An access that is sent down, when no other is under way for its request
<1>2. ASSUME NEW a \in PieceSet, Covers(a), Schedule(a),
             intq' \subseteq intq,
             \A g \in intq' \cup below : g.type = "IO_ACCESS_ARRIVE" => g.req # a.req
      PROVE  Covers(f)'
  <2>1. Covers(Sent(a))' /\ \A e \in PieceSet : e.req # a.req => (InPieces(e)' <=> InPieces(e))
    BY <1>0, <1>2, ScheduleCovers
  <2>2. f = Sent(a) \/ f \in intq' \cup below
    BY <1>2 DEF Schedule
  <2>3. CASE f = Sent(a)
    BY <2>1, <2>3
  <2>4. CASE f \in intq' \cup below
    <3>1. f.req # a.req /\ f \in PieceSet /\ Covers(f)
      BY <1>0, <1>1, <1>2, <2>4
    <3> QED BY <2>1, <3>1, CoverKept
  <2> QED BY <2>2, <2>3, <2>4
<1>3. ASSUME NEW q \in Reqs, Request(q) PROVE Covers(f)'
  <2> DEFINE d == devno[q]
  <2>1. d \in Devs /\ q \notin waiting[d] \cup out[d] /\ intq' \subseteq intq
    BY <1>0, <1>3 DEF Request, Fresh, IoDriverAssumption
  <2>2. CASE CheckSendOutRequest(d)
    <3>1. PICK next \in waiting[d] \cup {q} : Schedule(Access(next))
      BY <1>3, <2>2 DEF Request
    <3>2. next \in Reqs /\ devno[next] = d /\ next \notin out[d]
      BY <1>0, <2>1 DEF TypeOK, Fresh
    <3>3. Access(next) \in PieceSet /\ Access(next).req = next /\ Covers(Access(next))
      BY <1>0, <3>2, AccessType, AccessCovers
    <3>4. \A g \in intq' \cup below : g.type = "IO_ACCESS_ARRIVE" => g.req # next
      BY <1>1, <2>1, <3>2
    <3> QED BY <1>2, <2>1, <3>1, <3>3, <3>4
  <2>3. CASE ~CheckSendOutRequest(d)
    <3>1. below' = below /\ oversized' = oversized
      BY <1>3, <2>3 DEF Request
    <3>2. Covers(f) /\ (InPieces(f)' <=> InPieces(f))
      BY <1>0, <2>1, <3>1 DEF InPieces
    <3> QED BY <3>2, CoverKept
  <2> QED BY <2>2, <2>3
<1>4. ASSUME NEW e \in intq, ScheduleAccess(e) PROVE Covers(f)'
  <2>1. /\ e \in PieceSet /\ Covers(e) /\ e \notin below /\ Schedule(e) /\ intq' = intq \ {e}
        /\ \A g \in intq \cup below : g.type = "IO_ACCESS_ARRIVE" /\ g.req = e.req => g = e
    BY <1>0, <1>4, AccessIsOut DEF ScheduleAccess
  <2> QED BY <1>2, <2>1
<1>5. ASSUME NEW e \in below, PieceComplete(e) PROVE Covers(f)'
  <2>1. e \in PieceSet /\ MoreToGo(e) /\ oversized' = oversized
    BY <1>0, <1>5 DEF PieceComplete, TypeOK
  <2>2. Covers(NextPiece(e))
    BY <1>0, <2>1, NextPieceCovers
  <2>3. Covers(f) /\ (InPieces(f)' <=> InPieces(f))
    BY <1>0, <1>5, <2>1, <2>2 DEF PieceComplete, InPieces
  <2> QED BY <2>3, CoverKept
<1>6. ASSUME NEW e \in below, AccessComplete(e) PROVE Covers(f)'
  <2> DEFINE r == e.req
             d == devno[r]
             due == {Arrive(s) : s \in DependentsOf(r)}
  <2>1. /\ e \in PieceSet /\ r \in Reqs /\ d \in Devs /\ r \in out[d] /\ e \notin below'
        /\ \A g \in intq \cup below : g.type = "IO_ACCESS_ARRIVE" /\ g.req = r => g = e
        /\ e \notin intq
    <3>1. e \in PieceSet /\ e.type = "IO_ACCESS_ARRIVE"
      BY <1>0 DEF TypeOK, PieceSet
    <3> QED BY <1>0, <1>1, <1>6, <3>1, AccessIsOut DEF AccessComplete
  <2>2. below' \subseteq below /\ \A g \in due : g.type # "IO_ACCESS_ARRIVE"
    BY <1>6 DEF AccessComplete, Arrive
  \* the requests of the other accesses stay in pieces, or whole
  <2>3. \A g \in PieceSet : g.req # r => (InPieces(g)' <=> InPieces(g))
    BY <1>0, <1>6 DEF AccessComplete, InPieces, TypeOK
  <2>4. CASE f \in intq \cup below
    <3>1. \A next \in waiting[d] : Access(next) # e
      BY <1>0, <2>1 DEF Fresh, Access, TypeOK
    <3>2. e \notin intq'
      BY <1>6, <2>1, <2>2, <3>1 DEF AccessComplete, PieceSet
    <3>3. f.req # r
      BY <2>1, <2>4, <3>2
    <3>4. f \in PieceSet /\ Covers(f)
      BY <1>0, <1>1, <2>4
    <3> QED BY <2>3, <3>3, <3>4, CoverKept
  <2>5. CASE f \notin intq \cup below
    <3>1. PICK next \in waiting[d] : f = Access(next)
      BY <1>6, <2>2, <2>5 DEF AccessComplete
    <3>2. next \in Reqs /\ devno[next] = d /\ next \notin out[d]
      BY <1>0, <2>1 DEF TypeOK, Fresh
    <3>3. f \in PieceSet /\ f.req = next /\ Covers(f) /\ next # r
      BY <1>0, <2>1, <3>1, <3>2, AccessType, AccessCovers
    <3> QED BY <2>3, <3>3, CoverKept
  <2> QED BY <2>4, <2>5
<1>7. CASE UNCHANGED vars
  <2>1. Covers(f) /\ (InPieces(f)' <=> InPieces(f))
    BY <1>0, <1>7 DEF vars, InPieces
  <2> QED BY <2>1, CoverKept
<1> QED BY <1>3, <1>4, <1>5, <1>6, <1>7 DEF Next

LEMMA WholeInductive == Spec => []WholeInv
<1>1. IoDriverAssumption /\ WholeInv /\ [Next]_vars => WholeInv'
  BY IInvStep, PiecesAreOutStep, AllCoverStep DEF WholeInv
<1> QED BY <1>1, IoDriverAssumption, InitWhole, PTL DEF Spec

\* What becomes of an access that leaves the subsystem
LEMMA AccessLeaves ==
    ASSUME IoDriverAssumption, WholeInv, [Next]_vars, NEW e \in below \ below'
    PROVE  \/ /\ e.req \notin out'[devno[e.req]]
              /\ e.blkno + e.bcount = bcount[e.req]
           \/ /\ e.req \in out'[devno[e.req]]
              /\ \E f \in intq' : f.req = e.req /\ f.blkno = e.blkno + e.bcount
                                  /\ f.blkno + f.bcount <= bcount[e.req]
<1>0. TypeOK /\ Fresh /\ PiecesHaveSize /\ OneAccessEach /\ AllCover
  BY DEF WholeInv, IInv
<1> DEFINE r == e.req
           d == devno[r]
<1>1. /\ e \in PieceSet /\ r \in Reqs /\ d \in Devs /\ r \in out[d] /\ Covers(e)
      /\ e.blkno \in Nat /\ e.bcount \in Nat /\ bcount[r] \in Nat
  <2>1. e \in PieceSet /\ e.type = "IO_ACCESS_ARRIVE"
    BY <1>0 DEF TypeOK, PieceSet
  <2> QED BY <1>0, <2>1, AccessIsOut DEF AllCover, PieceSet, IoDriverAssumption
<1>2. PieceComplete(e) \/ AccessComplete(e)
  <2>1. ASSUME NEW a, Schedule(a) PROVE FALSE
    BY <2>1 DEF Schedule
  <2>2. ASSUME NEW q \in Reqs, Request(q) PROVE FALSE
    BY <2>1, <2>2 DEF Request
  <2>3. ASSUME NEW a \in intq, ScheduleAccess(a) PROVE FALSE
    BY <2>1, <2>3 DEF ScheduleAccess
  <2>4. \A a \in below : PieceComplete(a) \/ AccessComplete(a) => a = e
    BY DEF PieceComplete, AccessComplete
  <2>5. ~(UNCHANGED vars)
    BY DEF vars
  <2> QED BY <2>2, <2>3, <2>4, <2>5 DEF Next
<1>3. CASE PieceComplete(e)
  <2>1. MoreToGo(e) /\ out' = out /\ NextPiece(e) \in intq'
    BY <1>3 DEF PieceComplete
  <2>2. InPieces(e) /\ e.blkno + PieceSize(e) < bcount[r] /\ PieceSize(e) \in Nat
    BY <1>0, <1>1, <2>1, PieceSizeType DEF MoreToGo
  <2>3. e.bcount = PieceSize(e)
    BY <1>1, <2>2 DEF Covers
  <2>4. Covers(NextPiece(e)) /\ NextPiece(e) \in PieceSet /\ NextPiece(e).req = r
    BY <1>0, <1>1, <2>1, NextPieceCovers, NextPieceType
  <2>5. NextPiece(e).blkno = e.blkno + e.bcount
    BY <1>1, <2>3 DEF NextPiece, PieceSet
  <2>6. NextPiece(e).blkno + NextPiece(e).bcount <= bcount[r]
    <3> DEFINE f == NextPiece(e)
    <3>1. f.blkno \in Nat /\ f.bcount \in Nat
      BY <2>4 DEF PieceSet
    <3>2. InPieces(f) => PieceSize(f) \in Nat
      BY <1>0, <2>4, PieceSizeType
    <3>3. /\ InPieces(f) => f.bcount = IF PieceSize(f) < bcount[r] - f.blkno
                                         THEN PieceSize(f) ELSE bcount[r] - f.blkno
          /\ ~InPieces(f) => f.blkno = 0 /\ f.bcount = bcount[r]
      BY <2>4 DEF Covers
    <3> HIDE DEF f
    <3>4. f.blkno + f.bcount <= bcount[r]
      BY <1>1, <3>1, <3>2, <3>3
    <3> QED BY <3>4 DEF f
  <2> QED BY <1>1, <2>1, <2>4, <2>5, <2>6
<1>4. CASE AccessComplete(e)
  <2>1. ~MoreToGo(e)
    BY <1>4 DEF AccessComplete
  <2>2. e.blkno + e.bcount = bcount[r]
    <3>1. CASE InPieces(e)
      <4>1. PieceSize(e) \in Nat /\ ~(e.blkno + PieceSize(e) < bcount[r])
        BY <1>0, <1>1, <2>1, <3>1, PieceSizeType DEF MoreToGo
      <4> QED BY <1>1, <3>1, <4>1 DEF Covers
    <3>2. CASE ~InPieces(e)
      BY <1>1, <3>2 DEF Covers
    <3> QED BY <3>1, <3>2
  <2>3. r \notin out'[d]
    <3>1. CASE Skips(r) \/ waiting[d] = {}
      BY <1>0, <1>1, <1>4, <3>1 DEF AccessComplete, TypeOK
    <3>2. CASE ~(Skips(r) \/ waiting[d] = {})
      <4>1. PICK next \in waiting[d] : out' = [out EXCEPT ![d] = (@ \ {r}) \cup {next}]
        BY <1>4, <3>2 DEF AccessComplete
      <4>2. next # r
        BY <1>0, <1>1 DEF Fresh
      <4> QED BY <1>0, <1>1, <4>1, <4>2 DEF TypeOK
    <3> QED BY <3>1, <3>2
  <2> QED BY <2>2, <2>3
<1> QED BY <1>2, <1>3, <1>4

\* A request completes when all its blocks have been accessed and not before:
\* until then every access of it that completes is followed by the next piece.
THEOREM RequestsWhole == Spec => WholeRequests
<1>1. IoDriverAssumption /\ WholeInv /\ [Next]_vars =>
        [\A e \in below \ below' :
          \/ /\ e.req \notin out'[devno[e.req]]
             /\ e.blkno + e.bcount = bcount[e.req]
          \/ /\ e.req \in out'[devno[e.req]]
             /\ \E f \in intq' : f.req = e.req /\ f.blkno = e.blkno + e.bcount
                                 /\ f.blkno + f.bcount <= bcount[e.req]]_vars
  BY AccessLeaves
<1> QED BY <1>1, IoDriverAssumption, WholeInductive, PTL DEF Spec, WholeRequests

-----------------------------------------------------------------------------
(* No request waits at a device with room. *)

\* The requests a device with a queue of its own takes at once
Room(d) == IF usequeue THEN maxoutstanding[d] ELSE 1

LEMMA DirectCheck ==
    ASSUME IoDriverAssumption, TypeOK, NEW d \in Direct
    PROVE  /\ CheckSendOutRequest(d) <=> Cardinality(out[d]) < Room(d)
           /\ IsFiniteSet(out[d]) /\ Cardinality(out[d]) \in Nat /\ Room(d) \in Nat
<1>1. d \in Devs /\ queuectlr[d] = NoCtlr
  BY DEF Direct
<1>2. IsFiniteSet(out[d]) /\ Cardinality(out[d]) \in Nat
  BY <1>1, FS_Subset, FS_CardinalityType DEF TypeOK, IoDriverAssumption
<1>3. Room(d) \in Nat
  BY <1>1 DEF Room, IoDriverAssumption
<1>4. out[d] = {} <=> Cardinality(out[d]) = 0
  BY <1>2, FS_EmptySet
<1> QED BY <1>1, <1>2, <1>3, <1>4 DEF CheckSendOutRequest, Room

LEMMA DueForFinite ==
    ASSUME IoDriverAssumption, NEW d
    PROVE  /\ IsFiniteSet(DueFor(d)) /\ Cardinality(DueFor(d)) \in Nat
           /\ IsFiniteSet(DueFor(d)') /\ Cardinality(DueFor(d)') \in Nat
<1>1. DueFor(d) \subseteq Reqs /\ DueFor(d)' \subseteq Reqs
  BY DEF DueFor
<1> QED BY <1>1, FS_Subset, FS_CardinalityType DEF IoDriverAssumption

\* An event that is no arrival makes no request due, and events added take none
\* away.
LEMMA DueForGrows ==
    ASSUME IoDriverAssumption, NEW d, \A q \in Reqs : Arrive(q) \in intq => Arrive(q) \in intq'
    PROVE  /\ DueFor(d) \subseteq DueFor(d)'
           /\ Cardinality(DueFor(d)) <= Cardinality(DueFor(d)')
<1>1. DueFor(d) \subseteq DueFor(d)'
  BY DEF DueFor, Arrive
<1> QED BY <1>1, DueForFinite, FS_Subset

WaitsFull(d) ==
    waiting[d] # {} => Cardinality(out[d]) + Cardinality(DueFor(d)) >= Room(d)

LEMMA WaitsFullStep ==
    ASSUME IoDriverAssumption, IInv, [Next]_vars, NEW x \in Direct, WaitsFull(x)
    PROVE  WaitsFull(x)'
<1>0. /\ TypeOK /\ Fresh /\ OneAccessEach /\ TypeOK' /\ x \in Devs
  BY IInvStep DEF IInv, Direct
<1> DEFINE O == Cardinality(out[x])
           U == Cardinality(DueFor(x))
           O2 == Cardinality(out'[x])
           U2 == Cardinality(DueFor(x)')
<1>1. /\ O \in Nat /\ U \in Nat /\ U2 \in Nat /\ Room(x) \in Nat /\ IsFiniteSet(out[x])
      /\ IsFiniteSet(DueFor(x)) /\ IsFiniteSet(DueFor(x)') /\ O2 \in Nat
      /\ CheckSendOutRequest(x) <=> O < Room(x)
  <2>1. IsFiniteSet(out'[x])
    BY <1>0, FS_Subset DEF TypeOK, IoDriverAssumption
  <2> QED BY <1>0, <2>1, DirectCheck, DueForFinite, FS_CardinalityType
\* It is enough to compare the numbers
<1>2. ASSUME waiting'[x] = {} \/ O2 + U2 >= Room(x) PROVE WaitsFull(x)'
  BY <1>2 DEF WaitsFull, Room
<1>3. ASSUME waiting'[x] = waiting[x], O2 + U2 >= O + U PROVE WaitsFull(x)'
  BY <1>1, <1>2, <1>3 DEF WaitsFull
<1>4. ASSUME NEW r \in Reqs, Request(r) PROVE WaitsFull(x)'
  <2> DEFINE d == devno[r]
  <2>1. /\ d \in Devs /\ r \notin out[d] /\ waiting[d] \subseteq Reqs
        /\ intq' = intq \ {Arrive(r)} /\ \A q \in Reqs : Arrive(q) = Arrive(r) => q = r
    BY <1>0, <1>4 DEF Request, Fresh, TypeOK, IoDriverAssumption, Arrive
  <2>2. DueFor(x)' = DueFor(x) \ {r}
    BY <2>1 DEF DueFor, Arrive
  <2>3. CASE d # x
    <3>1. waiting'[x] = waiting[x] /\ out'[x] = out[x]
      BY <1>0, <1>4, <2>1, <2>3 DEF Request, TypeOK
    <3>2. DueFor(x)' = DueFor(x)
      BY <2>2, <2>3 DEF DueFor
    <3> QED BY <1>1, <1>3, <3>1, <3>2
  <2>4. CASE d = x /\ CheckSendOutRequest(d)
    <3>1. PICK next \in waiting[d] \cup {r} :
             /\ waiting' = [waiting EXCEPT ![d] = (@ \cup {r}) \ {next}]
             /\ out' = [out EXCEPT ![d] = @ \cup {next}]
      BY <1>4, <2>4 DEF Request
    <3>2. next \notin out[x]
      BY <1>0, <2>1, <2>4, <3>1 DEF Fresh, TypeOK
    <3>3. out'[x] = out[x] \cup {next} /\ waiting'[x] = (waiting[x] \cup {r}) \ {next}
      BY <1>0, <2>4, <3>1 DEF TypeOK
    <3>4. O2 = O + 1
      BY <1>1, <3>2, <3>3, FS_AddElement
    <3>5. U2 >= U - 1
      <4>1. CASE r \in DueFor(x)
        BY <1>1, <2>2, <4>1, OneLess
      <4>2. CASE r \notin DueFor(x)
        <5>1. DueFor(x)' = DueFor(x)
          BY <2>2, <4>2
        <5> QED BY <1>1, <5>1
      <4> QED BY <4>1, <4>2
    <3>6. CASE waiting[x] = {}
      BY <1>2, <2>4, <3>1, <3>3, <3>6
    <3>7. CASE waiting[x] # {}
      <4>1. O + U >= Room(x)
        BY <3>7 DEF WaitsFull
      <4>2. O2 + U2 >= Room(x)
        BY <1>1, <3>4, <3>5, <4>1
      <4> QED BY <1>2, <4>2
    <3> QED BY <3>6, <3>7
  <2>5. CASE d = x /\ ~CheckSendOutRequest(d)
    <3>1. out' = out
      BY <1>4, <2>5 DEF Request
    <3>2. O2 + U2 >= Room(x)
      BY <1>1, <2>5, <3>1
    <3> QED BY <1>2, <3>2
  <2> QED BY <2>3, <2>4, <2>5
<1>5. ASSUME NEW e \in intq, ScheduleAccess(e) PROVE WaitsFull(x)'
  <2>1. waiting' = waiting /\ out' = out /\ \A q \in Reqs : Arrive(q) \in intq => Arrive(q) \in intq'
    BY <1>5 DEF ScheduleAccess, Arrive
  <2>2. U <= U2
    BY <2>1, DueForGrows
  <2> QED BY <1>1, <1>3, <2>1, <2>2
<1>6. ASSUME NEW e \in below, PieceComplete(e) PROVE WaitsFull(x)'
  <2>1. waiting' = waiting /\ out' = out /\ intq \subseteq intq'
    BY <1>6 DEF PieceComplete
  <2>2. U <= U2
    BY <2>1, DueForGrows
  <2> QED BY <1>1, <1>3, <2>1, <2>2
<1>7. ASSUME NEW e \in below, AccessComplete(e) PROVE WaitsFull(x)'
  <2> DEFINE r == e.req
             d == devno[r]
             due == {Arrive(s) : s \in DependentsOf(r)}
  <2>1. r \in Reqs /\ d \in Devs /\ r \in out[d]
    <3>1. e \in PieceSet /\ e.type = "IO_ACCESS_ARRIVE"
      BY <1>0 DEF TypeOK, PieceSet
    <3> QED BY <1>0, <3>1, AccessIsOut
  <2>2. intq \cup due \subseteq intq'
    BY <1>7 DEF AccessComplete
  <2>3. DueFor(x) \subseteq DueFor(x)' /\ U <= U2
    BY <2>2, DueForGrows
  <2>4. CASE d # x
    <3>1. waiting'[x] = waiting[x] /\ out'[x] = out[x]
      BY <1>0, <1>7, <2>1, <2>4 DEF AccessComplete, TypeOK
    <3> QED BY <1>1, <1>3, <2>3, <3>1
  <2>5. CASE d = x /\ Skips(r)
    \* a request of the device, made by this completion, is due now
    <3>1. PICK s \in DependentsOf(r) : devno[s] = x
      BY <2>5 DEF Skips
    <3>2. s \in Reqs \ Trace /\ s \notin made
      BY <2>1, <3>1 DEF DependentsOf, Trace, IoDriverAssumption
    <3>3. s \notin DueFor(x) /\ s \in DueFor(x)'
      <4>1. Arrive(s) \notin intq
        BY <1>0, <3>2 DEF Fresh
      <4>2. Arrive(s) \in intq'
        BY <2>2, <3>1
      <4> QED BY <3>1, <3>2, <4>1, <4>2 DEF DueFor, Arrive
    <3>4. U2 >= U + 1
      <4>1. DueFor(x) \subseteq DueFor(x)' \ {s}
        BY <2>3, <3>3
      <4>2. IsFiniteSet(DueFor(x)' \ {s}) /\ Cardinality(DueFor(x)' \ {s}) = U2 - 1
        BY <1>1, <3>3, OneLess
      <4>3. U <= Cardinality(DueFor(x)' \ {s})
        BY <4>1, <4>2, FS_Subset
      <4> QED BY <1>1, <4>2, <4>3
    <3>5. out'[x] = out[x] \ {r} /\ waiting'[x] = waiting[x]
      BY <1>0, <1>7, <2>1, <2>5 DEF AccessComplete, TypeOK
    <3>6. O2 = O - 1
      BY <1>1, <2>1, <2>5, <3>5, OneLess
    <3> QED BY <1>1, <1>3, <3>4, <3>5, <3>6
  <2>6. CASE d = x /\ ~Skips(r) /\ waiting[d] = {}
    <3>1. waiting'[x] = {}
      BY <1>7, <2>6 DEF AccessComplete
    <3> QED BY <1>2, <3>1
  <2>7. CASE d = x /\ ~(Skips(r) \/ waiting[d] = {})
    <3>1. PICK next \in waiting[d] :
             /\ waiting' = [waiting EXCEPT ![d] = @ \ {next}]
             /\ out' = [out EXCEPT ![d] = (@ \ {r}) \cup {next}]
      BY <1>7, <2>7 DEF AccessComplete
    <3>2. next \notin out[x] /\ waiting[x] # {} /\ out'[x] = (out[x] \ {r}) \cup {next}
      BY <1>0, <2>1, <2>7, <3>1 DEF Fresh, TypeOK
    <3>3. IsFiniteSet(out[x] \ {r}) /\ Cardinality(out[x] \ {r}) = O - 1
      BY <1>1, <2>1, <2>7, OneLess
    <3>4. O2 = O
      <4>1. next \notin out[x] \ {r}
        BY <3>2
      <4>2. Cardinality((out[x] \ {r}) \cup {next}) = Cardinality(out[x] \ {r}) + 1
        BY <3>3, <4>1, FS_AddElement
      <4> QED BY <1>1, <3>2, <3>3, <4>2
    <3>5. O + U >= Room(x)
      BY <3>2 DEF WaitsFull
    <3>6. O2 + U2 >= Room(x)
      BY <1>1, <2>3, <3>4, <3>5
    <3> QED BY <1>2, <3>6
  <2> QED BY <2>4, <2>5, <2>6, <2>7
<1>8. CASE UNCHANGED vars
  BY <1>8 DEF vars, WaitsFull, DueFor, Trace, Room, Arrive
<1> QED BY <1>4, <1>5, <1>6, <1>7, <1>8 DEF Next

\* A request waits at a device with a queue of its own only while the device has
\* all the requests it takes, or will have them when those that are due arrive:
\* check_send_out_request and the completion never leave one behind.
THEOREM NeverWaitsInVain == Spec => []WaitsOnlyWhenFull
<1> DEFINE Inv == IInv /\ \A d \in Direct : WaitsFull(d)
<1>1. IoDriverAssumption /\ Init => Inv
  BY InitIInv DEF Init, WaitsFull, Direct
<1>2. IoDriverAssumption /\ Inv /\ [Next]_vars => Inv'
  <2>1. Direct' = Direct
    BY DEF Direct
  <2> QED BY <2>1, IInvStep, WaitsFullStep
<1>3. Inv => WaitsOnlyWhenFull
  BY DEF WaitsOnlyWhenFull, WaitsFull, Room
<1> QED BY <1>1, <1>2, <1>3, IoDriverAssumption, PTL DEF Spec
=============================================================================
