------------------------------ MODULE IoDriver ------------------------------
(***************************************************************************)
(* The stand-alone device driver of disksim_iodriver.c between the request  *)
(* queues of its devices and the storage subsystem.  A request arrives as   *)
(* an event, waits in the queue of its device, is handed out while the      *)
(* device, or the controller that queues for it, has room, is sent down in  *)
(* pieces when the controller takes no more at once, and on completion      *)
(* hands out the next request of its device, unless the logical             *)
(* organisation answers with further requests for that device.             *)
(*                                                                         *)
(* A queue is the request pool it implements (RequestPool): which waiting   *)
(* request is next is the scheduler's choice.  The subsystem completes the  *)
(* accesses it was sent in any order.  blkno is counted from the first      *)
(* block of the request.                                                   *)
(***************************************************************************)
EXTENDS Integers, FiniteSets

CONSTANTS Reqs, Devs,
          Ctlrs,          \* the controllers that queue for their devices
          NoCtlr,
          devno,          \* [Reqs -> Devs]
          bcount,         \* [Reqs -> Nat]
          dependents,     \* [Reqs -> SUBSET Reqs]: what logorg_mapcomplete returns
          queuectlr,      \* [Devs -> Ctlrs, or NoCtlr for a device with its own queue]
          maxoutstanding, \* [Devs \cup Ctlrs -> Nat]
          maxreqsize,     \* [Ctlrs -> Nat], 0 for no limit
          usequeue        \* "Use queueing in subsystem"

ASSUME IoDriverAssumption ==
    /\ IsFiniteSet(Reqs) /\ NoCtlr \notin Ctlrs /\ Devs \cap Ctlrs = {} /\ usequeue \in BOOLEAN
    /\ devno \in [Reqs -> Devs] /\ bcount \in [Reqs -> Nat \ {0}]
    /\ dependents \in [Reqs -> SUBSET Reqs]
    /\ queuectlr \in [Devs -> Ctlrs \cup {NoCtlr}]
    /\ maxoutstanding \in [Devs \cup Ctlrs -> Nat \ {0}]
    /\ maxreqsize \in [Ctlrs -> Nat]

VARIABLES made,           \* requests read from the trace, or made by logorg_mapcomplete
          waiting,        \* [Devs -> SUBSET Reqs]: queued
          out,            \* [Devs -> SUBSET Reqs]: handed out, pending in the queue
          numoutstanding, \* [Ctlrs -> Int]
          oversized,      \* [Ctlrs -> SUBSET Reqs]: requests sent in pieces
          intq,           \* events of the driver that are due
          below           \* accesses in the storage subsystem

vars == <<made, waiting, out, numoutstanding, oversized, intq, below>>

Trace     == Reqs \ UNION {dependents[r] : r \in Reqs}
Arrive(r) == [type |-> "IO_REQUEST_ARRIVE", req |-> r, blkno |-> 0, bcount |-> bcount[r]]
Access(r) == [type |-> "IO_ACCESS_ARRIVE", req |-> r, blkno |-> 0, bcount |-> bcount[r]]

\* Mutant: what is handed out is not counted.
Count_OnlyDown(d, n) ==
    [c \in Ctlrs |-> numoutstanding[c] + IF c = queuectlr[d] /\ n < 0 THEN n ELSE 0]

Count(d, n) ==
    [c \in Ctlrs |-> numoutstanding[c] + IF c = queuectlr[d] THEN n ELSE 0]

\* Mutant: one too many.
CheckSendOutRequest_OneMore(d) ==
    IF ~usequeue THEN out[d] = {}
    ELSE IF queuectlr[d] # NoCtlr
      THEN numoutstanding[queuectlr[d]] <= maxoutstanding[queuectlr[d]]
      ELSE Cardinality(out[d]) <= maxoutstanding[d]

CheckSendOutRequest(d) ==
    IF ~usequeue THEN out[d] = {}
    ELSE IF queuectlr[d] # NoCtlr
      THEN numoutstanding[queuectlr[d]] < maxoutstanding[queuectlr[d]]
      ELSE Cardinality(out[d]) < maxoutstanding[d]

TooLong(e) == LET c == queuectlr[devno[e.req]]
              IN c # NoCtlr /\ maxreqsize[c] # 0 /\ e.bcount > maxreqsize[c]

\* iodriver_schedule: what is sent down for the access e
Sent(e) == IF TooLong(e) THEN [e EXCEPT !.bcount = maxreqsize[queuectlr[devno[e.req]]]]
                         ELSE e

Schedule(e) ==
    /\ below' = below \cup {Sent(e)}
    /\ oversized' = [c \in Ctlrs |->
          IF TooLong(e) /\ c = queuectlr[devno[e.req]]
            THEN oversized[c] \cup {e.req} ELSE oversized[c]]

\* iodriver_request: a request arrives, and the queue of its device hands one
\* out, which is sent down at once.
Request(r) ==
    LET d == devno[r]
    IN /\ Arrive(r) \in intq
       /\ intq' = intq \ {Arrive(r)}
       /\ IF CheckSendOutRequest(d)
            THEN \E next \in waiting[d] \cup {r} :
                    /\ waiting' = [waiting EXCEPT ![d] = (@ \cup {r}) \ {next}]
                    /\ out' = [out EXCEPT ![d] = @ \cup {next}]
                    /\ numoutstanding' = Count(d, 1)
                    /\ Schedule(Access(next))
            ELSE /\ waiting' = [waiting EXCEPT ![d] = @ \cup {r}]
                 /\ UNCHANGED <<out, numoutstanding, oversized, below>>
       /\ UNCHANGED made

\* iodriver_schedule of the access an interrupt has left on the event queue
ScheduleAccess(e) ==
    /\ e \in intq /\ e.type = "IO_ACCESS_ARRIVE"
    /\ intq' = intq \ {e}
    /\ Schedule(e)
    /\ UNCHANGED <<made, waiting, out, numoutstanding>>

PieceSize(e) == maxreqsize[queuectlr[devno[e.req]]]

InPieces(e) == \E c \in Ctlrs : c = queuectlr[devno[e.req]] /\ e.req \in oversized[c]

MoreToGo(e) == InPieces(e) /\ e.blkno + PieceSize(e) < bcount[e.req]

\* Mutant: the last piece is as long as the others.
NextPiece_Full(e) ==
    [e EXCEPT !.blkno = @ + PieceSize(e), !.bcount = PieceSize(e)]

NextPiece(e) ==
    LET from == e.blkno + PieceSize(e)
        rest == bcount[e.req] - from
    IN [e EXCEPT !.blkno = from,
                 !.bcount = IF PieceSize(e) < rest THEN PieceSize(e) ELSE rest]

\* iodriver_access_complete, more of an oversized request to go: the next
\* piece is scheduled and counted as one more outstanding access.
PieceComplete(e) ==
    /\ e \in below /\ MoreToGo(e)
    /\ below' = below \ {e}
    /\ intq' = intq \cup {NextPiece(e)}
    /\ numoutstanding' = Count(devno[e.req], 1)
    /\ UNCHANGED <<made, waiting, out, oversized>>

\* logorg_mapcomplete: the requests that r's completion makes
DependentsOf(r) == dependents[r] \ made

\* Mutant: the queue is not asked for another request when the completed one
\* has dependents at all.
Skips_Always(r) == DependentsOf(r) # {}

Skips(r) == \E s \in DependentsOf(r) : devno[s] = devno[r]

\* iodriver_access_complete, the request is done: the requests that depend
\* on it become due, and the queue of its device hands out another, unless
\* one of them is for that device.
AccessComplete(e) ==
    LET r == e.req
        d == devno[r]
        due == {Arrive(s) : s \in DependentsOf(r)}
    IN /\ e \in below /\ ~MoreToGo(e)
       /\ below' = below \ {e}
       /\ oversized' = [c \in Ctlrs |-> oversized[c] \ {r}]
       /\ made' = made \cup DependentsOf(r)
       /\ IF Skips(r) \/ waiting[d] = {}
            THEN /\ out' = [out EXCEPT ![d] = @ \ {r}]
                 /\ numoutstanding' = Count(d, -1)
                 /\ intq' = intq \cup due
                 /\ UNCHANGED waiting
            ELSE \E next \in waiting[d] :
                 /\ waiting' = [waiting EXCEPT ![d] = @ \ {next}]
                 /\ out' = [out EXCEPT ![d] = (@ \ {r}) \cup {next}]
                 /\ intq' = intq \cup due \cup {Access(next)}
                 /\ UNCHANGED numoutstanding

Init == /\ made = Trace
        /\ waiting = [d \in Devs |-> {}]
        /\ out = [d \in Devs |-> {}]
        /\ numoutstanding = [c \in Ctlrs |-> 0]
        /\ oversized = [c \in Ctlrs |-> {}]
        /\ intq = {Arrive(r) : r \in Trace}
        /\ below = {}

Next == \/ \E r \in Reqs : Request(r)
        \/ \E e \in intq : ScheduleAccess(e)
        \/ \E e \in below : PieceComplete(e) \/ AccessComplete(e)

Spec == Init /\ [][Next]_vars

-----------------------------------------------------------------------------
\* The requests handed out, o, to the devices behind controller c, and the
\* accesses under way for r.
OutAt(o, c)   == UNION {o[d] : d \in {e \in Devs : queuectlr[e] = c}}
AccessesOf(r) == {e \in intq \cup below : e.type = "IO_ACCESS_ARRIVE" /\ e.req = r}

PieceSet == [type : {"IO_ACCESS_ARRIVE"}, req : Reqs, blkno : Nat, bcount : Nat \ {0}]

\* Every variable keeps its type; a request is queued for its own device.
TypeOK ==
    /\ made \subseteq Reqs
    /\ waiting \in [Devs -> SUBSET Reqs] /\ out \in [Devs -> SUBSET Reqs]
    /\ \A d \in Devs : \A r \in waiting[d] \cup out[d] : devno[r] = d
    /\ numoutstanding \in [Ctlrs -> Int]
    /\ oversized \in [Ctlrs -> SUBSET Reqs]
    /\ intq \subseteq PieceSet \cup {Arrive(r) : r \in Reqs}
    /\ below \subseteq PieceSet

\* A request handed out is on its way in exactly one access, due or in the
\* subsystem, and one that is not handed out is in none: an access is never
\* sent twice, and its completion is never expected in vain.
OneAccessEach ==
    \A r \in Reqs :
        /\ r \in out[devno[r]] <=> AccessesOf(r) # {}
        /\ \A e, f \in AccessesOf(r) : e = f
        /\ AccessesOf(r) \cap intq \cap below = {}

\* What a device or a controller says at initialisation (IO_QLEN_MAXCHECK)
\* it can take is respected for ever: as many requests at once, so many
\* blocks at a time.
WithinLimits ==
    usequeue =>
      /\ \A d \in Devs : queuectlr[d] = NoCtlr => Cardinality(out[d]) <= maxoutstanding[d]
      /\ \A c \in Ctlrs : Cardinality(OutAt(out, c)) <= maxoutstanding[c]
      /\ \A e \in below : ~TooLong(e)

\* A request completes when all of its blocks have been accessed, in pieces
\* that follow one another.
WholeRequests ==
    [][\A e \in below \ below' :
          \/ /\ e.req \notin out'[devno[e.req]]
             /\ e.blkno + e.bcount = bcount[e.req]
          \/ /\ e.req \in out'[devno[e.req]]
             /\ \E f \in intq' : f.req = e.req /\ f.blkno = e.blkno + e.bcount
                                 /\ f.blkno + f.bcount <= bcount[e.req]]_vars

\* The driver counts no request of a controller too few, or it would send more
\* than the controller takes.
CountNeverShort == \A c \in Ctlrs : Cardinality(OutAt(out, c)) <= numoutstanding[c]

\* What the driver keeps about the requests it has handed out is true of them.
DriverInv == TypeOK /\ OneAccessEach /\ CountNeverShort

\* The number that check_send_out_request compares with "the maximum number of
\* requests that can be outstanding to the controller concurrently"
\* (doc/disksim-doc.ps, "Maximum queue length") is the number outstanding.
CountExact == \A c \in Ctlrs : numoutstanding[c] = Cardinality(OutAt(out, c))

\* Devices with a queue of their own.  Behind a controller a request may wait
\* with room to spare: a completion asks the queue of its own device only, and
\* pieces are counted for ever.
Direct == {d \in Devs : queuectlr[d] = NoCtlr}

\* Requests for d that a completion has made due.
DueFor(d) == {r \in Reqs \ Trace : devno[r] = d /\ Arrive(r) \in intq}

\* A request waits only while its device has all the requests it can take,
\* counting those whose arrival is due and will have one sent: no completion
\* forgets the queue.
WaitsOnlyWhenFull ==
    \A d \in Direct : waiting[d] # {} =>
        Cardinality(out[d]) + Cardinality(DueFor(d))
            >= IF usequeue THEN maxoutstanding[d] ELSE 1

\* Events of the driver are delivered and the subsystem completes what it was
\* sent.
Fairness == /\ \A r \in Reqs : WF_vars(Request(r))
            /\ \A r \in Reqs : WF_vars(\E e \in intq : e.req = r /\ ScheduleAccess(e))
            /\ \A r \in Reqs : WF_vars(\E e \in below : e.req = r
                                          /\ (PieceComplete(e) \/ AccessComplete(e)))

FairSpec == Spec /\ Fairness

\* Every request that arrives at such a device is sent down and completes.
EventuallyServed ==
    \A r \in Reqs : devno[r] \in Direct =>
        (r \in waiting[devno[r]] \cup out[devno[r]]
            ~> r \notin waiting[devno[r]] \cup out[devno[r]])
=============================================================================
