------------------------------ MODULE IoQueue ------------------------------
(***************************************************************************)
(* The request queue of disksim_ioqueue.c: three subqueues (priority,      *)
(* timeout, base), handed out in that order; requests that wait too long   *)
(* are moved up by ioqueue_tick, requests a process waits for are moved up *)
(* by ioqueue_raise_priority, and a completed access may complete the      *)
(* requests it overlaps.                                                   *)
(*                                                                         *)
(* The owner (an I/O driver or a smart controller) adds requests, takes    *)
(* the next one while fewer than MaxOutstanding are out, and reports       *)
(* completed accesses in any order.  Where the C code would stop with an   *)
(* error message, fail an ASSERT or follow a null pointer, the model        *)
(* records the first such event in `fault' and the queue stays as it is.    *)
(***************************************************************************)
EXTENDS SubQueue, Selection

Flags  == {"TIME_CRITICAL", "TIMED_OUT", "HALF_OUT"}
SubQs  == {"priority", "timeout", "base"}
Faults == {"none", "not found pending", "reqcnt", "null list"}

pri_scheme     == config.pri_scheme
to_scheme      == config.to_scheme
to_time        == config.to_time       \* timeout in ticks
comboverlaps   == config.comboverlaps
idlework       == config.idlework      \* whether an idle-time function is registered
ArrivalFlags   == config.ArrivalFlags  \* [Reqs -> SUBSET Flags]: set by the issuer
MaxOutstanding == config.MaxOutstanding \* how many iobufs the owner keeps out
alg            == config.alg           \* [SubQs -> sched_alg]
MaxTime        == config.MaxTime       \* bound on the clock

\* What ioqueue_readparams accepts.
Configurable(c) ==
    /\ SubQueueConfigurable(c)
    /\ c.alg \in [SubQs -> SchedAlgs]
    /\ c.pri_scheme \in {"ALLEQUAL", "TWOQUEUE"}
    /\ c.to_scheme \in {"NOTIMEOUT", "BASETIMEOUT", "HALFTIMEOUT"}
    /\ c.to_time \in Nat /\ c.MaxTime \in Nat /\ c.MaxOutstanding \in Nat
    /\ c.comboverlaps \in 0..2 /\ c.idlework \in BOOLEAN
    /\ c.ArrivalFlags \in [Reqs -> SUBSET Flags]

ASSUME IoQueueAssumption == \A c \in Configs : Configurable(c)

VARIABLES queue,      \* [SubQs -> subqueue record]
          flags,      \* [Reqs -> SUBSET Flags]: flags word of each request event
          arrived,    \* [Reqs -> Nat]: simtime at which it was added
          out,        \* the accesses handed out: [lead, flags] of each event
          idledetect, \* TRUE while the idle timer is on the event queue
          simtime,
          fault

vars == <<config, queue, flags, arrived, out, idledetect, simtime, fault>>

-----------------------------------------------------------------------------
InQueue(r)   == \E s \in SubQs : Holds(queue[s], r)
Iobufs(s)    == {queue[s].list[i] : i \in DOMAIN queue[s].list}
Waiting(s)   == UNION {Chained(b) : b \in {c \in Iobufs(s) : ReadyToGo(c)}}
NumInQueue(q) == q["base"].listlen + q["timeout"].listlen + q["priority"].listlen
NumPending(s) == queue[s].listlen - queue[s].numoutstanding
MaxWait      == to_time + 1   \* waiting longer than this makes no difference

\* Mutant: a half timed out request is sought in the base queue.
CompletionQueue_NoHalf(fl) ==
    IF pri_scheme # "ALLEQUAL" /\ fl \cap {"TIME_CRITICAL", "TIMED_OUT"} # {} THEN "priority"
    ELSE IF to_scheme # "NOTIMEOUT" /\ "TIMED_OUT" \in fl THEN "timeout" ELSE "base"

\* The subqueue ioqueue_physical_access_done searches for an event's iobuf.
CompletionQueue(fl) ==
    IF /\ pri_scheme # "ALLEQUAL"
       /\ "TIME_CRITICAL" \in fl \/ (to_scheme # "NOTIMEOUT" /\ "TIMED_OUT" \in fl)
      THEN "priority"
    ELSE IF to_scheme # "NOTIMEOUT" /\ fl \cap {"TIMED_OUT", "HALF_OUT"} # {}
      THEN "timeout"
    ELSE "base"

ArrivalQueue(r) ==
    IF pri_scheme = "TWOQUEUE" /\ "TIME_CRITICAL" \in ArrivalFlags[r]
      THEN "priority" ELSE "base"

-----------------------------------------------------------------------------
(* ioqueue_add_new_request *)

AddNewRequest(r) ==
    LET s == ArrivalQueue(r)
    IN /\ ~InQueue(r)
       /\ queue' = [queue EXCEPT
             ![s] = InsertNewRequest(alg[s], @, NewIobuf(r, ArrivalFlags[r])).sq]
       /\ flags' = [flags EXCEPT ![r] = ArrivalFlags[r]]
       /\ arrived' = [arrived EXCEPT ![r] = simtime]
       /\ idledetect' = FALSE
       /\ UNCHANGED <<config, out, simtime, fault>>

-----------------------------------------------------------------------------
(* ioqueue_get_next_request: the first subqueue, in order of rank, whose    *)
(* counters say that something is pending and that finds a ready iobuf.     *)

Offers(s) == /\ NumPending(s) > 0
             /\ queue[s].iobufcnt # queue[s].reqoutstanding
             /\ Pick(alg[s], queue[s]) # 0

\* Mutants: the timeout queue, the base queue goes first.
NextSubqueue_TimeoutFirst ==
    IF Offers("timeout") THEN "timeout"
    ELSE IF Offers("priority") THEN "priority"
    ELSE IF Offers("base") THEN "base" ELSE "none"

NextSubqueue_BaseFirst ==
    IF Offers("base") THEN "base"
    ELSE IF Offers("timeout") THEN "timeout"
    ELSE IF Offers("priority") THEN "priority" ELSE "none"

NextSubqueue == IF Offers("priority") THEN "priority"
                ELSE IF Offers("timeout") THEN "timeout"
                ELSE IF Offers("base") THEN "base" ELSE "none"

GetNextRequest ==
    /\ Cardinality(out) < MaxOutstanding
    /\ \E s \in SubQs : \E i \in DOMAIN queue[s].list :
          /\ s = NextSubqueue /\ i = Pick(alg[s], queue[s])
          /\ queue' = [queue EXCEPT ![s] = Issued(alg[s], @, i, simtime)]
          \* one request goes out as itself, several as a new event with the
          \* flags of the iobuf
          /\ LET b == queue[s].list[i]
             IN out' = out \cup
                 {[lead |-> Head(b.iolist),
                   flags |-> IF ReqCnt(b) = 1 THEN flags[Head(b.iolist)] ELSE b.flags]}
    /\ UNCHANGED <<config, flags, arrived, idledetect, simtime, fault>>

-----------------------------------------------------------------------------
(* ioqueue_physical_access_done *)

\* ioqueue_clobber_overlaps_subqueue: the waiting iobufs of exactly the
\* blocks of the completed request r.
Overlapped(sq, r, arrtimemax) ==
    {i \in ReadyAt(sq) :
        LET b == sq.list[i]
        IN /\ BufBlkno(b) = blkno[r] /\ TotalSize(b) = bcount[r]
           /\ r \in Reads => IsRead(b)
           /\ arrived[Head(b.iolist)] <= arrtimemax}

Clobbered(a, sq, hits) ==
    IF hits = {} THEN sq
    ELSE [sq EXCEPT !.list = Selected(@, DOMAIN @ \ hits),
                    !.iobufcnt = @ - Cardinality(hits),
                    !.listlen  = @ - Cardinality(hits),
                    !.lastblkno = LastBlknoAfter(a, sq.list[CHOOSE i \in hits : TRUE])]

\* Mutant: whatever arrived before the completion.
ArrtimeMax_Now(b) == simtime

\* A single request carries its start time, a chain's first request the time
\* it arrived.
ArrtimeMax(b) == IF comboverlaps = 1 THEN simtime
                 ELSE IF ReqCnt(b) = 1 THEN b.starttime ELSE arrived[Head(b.iolist)]

CompleteWith(o, left, hits) ==
    IF \E t \in SubQs : \E k \in hits[t] : ReqCnt(left[t].list[k]) # 1
      THEN /\ fault' = "reqcnt"
           /\ UNCHANGED <<queue, out, idledetect>>
      ELSE /\ queue' = [t \in SubQs |-> Clobbered(alg[t], left[t], hits[t])]
           /\ out' = out \ {o}
           /\ idledetect' = (idlework /\ (idledetect \/ NumInQueue(queue') = 0))
           /\ UNCHANGED fault

PhysicalAccessDone(o) ==
    LET s     == CompletionQueue(o.flags)
        found == {i \in DOMAIN queue[s].list :
                     /\ queue[s].list[i].state = "PENDING"
                     /\ Head(queue[s].list[i].iolist) = o.lead}
    IN /\ o \in out
       /\ \/ /\ found = {}
             /\ fault' = "not found pending"
             /\ UNCHANGED <<queue, out, idledetect>>
          \/ \E i \in found :
                LET b    == queue[s].list[i]
                    left == [queue EXCEPT ![s] = Completed(@, i)]
                IN CompleteWith(o, left,
                       [t \in SubQs |-> IF comboverlaps = 0 THEN {}
                                        ELSE Overlapped(left[t], o.lead, ArrtimeMax(b))])
       /\ UNCHANGED <<config, flags, arrived, simtime>>

-----------------------------------------------------------------------------
(* ioqueue_raise_priority: a process waits for request r *)

\* Moving the iobuf at index i of q[s] to q[d].  When the destination
\* concatenates it, the caller goes on using the iobuf: one absorbed by its
\* predecessor still holds what it held, one that absorbed its successor now
\* counts the successor's requests too.  `chain' are the requests its iolist
\* reaches afterwards.
Moved(q, s, d, i, ins) ==
    LET b     == q[s].list[i]
        chain == IF ins.absorbed
                   THEN Chained(ins.sq.list[ins.at]) \ Chained(q[d].list[ins.at])
                   ELSE Chained(ins.sq.list[ins.at])
        iocnt == IF ins.absorbed THEN ReqCnt(b) ELSE Cardinality(chain)
    IN [q |-> [q EXCEPT ![s] = MovedAway(@, i, iocnt), ![d] = ins.sq],
        absorbed |-> ins.absorbed, at |-> ins.at, chain |-> chain]

Move(q, s, d, i) == Moved(q, s, d, i, InsertNewRequest(alg[d], q[d], q[s].list[i]))

SetBufFlag(q, s, i, f) == [q EXCEPT ![s].list[i].flags = @ \cup {f}]

\* Where r is found: base first, then timeout.
RaisedFrom(r) == IF Holds(queue["base"], r) THEN "base" ELSE "timeout"

Raised(m) == IF m.absorbed THEN m.q
             ELSE SetBufFlag(m.q, "priority", m.at, "TIME_CRITICAL")

RaisePriority(r) ==
    /\ Holds(queue["base"], r) \/ Holds(queue["timeout"], r)
    /\ \E s \in {RaisedFrom(r)} : \E i \in DOMAIN queue[s].list :
          LET b == queue[s].list[i]
          IN /\ r \in Chained(b)
             /\ IF b.state = "WAITING" /\ pri_scheme # "ALLEQUAL"
                  THEN queue' = Raised(Move(queue, s, "priority", i))
                  ELSE queue' = SetBufFlag(queue, s, i, "TIME_CRITICAL")
             \* a single request on its way has left the iolist: its flags stay
             /\ flags' = IF b.state = "PENDING" /\ ReqCnt(b) = 1 THEN flags
                         ELSE [flags EXCEPT ![r] = @ \cup {"TIME_CRITICAL"}]
    /\ UNCHANGED <<config, arrived, out, idledetect, simtime, fault>>

-----------------------------------------------------------------------------
(* ioqueue_tick, called for every driver queue at a clock interrupt *)

\* The iobuf at acc.i has waited too long and m is its move to subqueue d.
TimedOut(acc, s, d, f, m) ==
    [q |-> IF m.absorbed THEN m.q ELSE SetBufFlag(m.q, d, m.at, f),
     i |-> acc.i,
     flags |-> [r \in Reqs |-> acc.flags[r] \cup (IF r \in m.chain THEN {f} ELSE {})],
     \* unless the iobuf was the tail, visited last, the loop walks on from
     \* a null pointer when the list has become empty
     null |-> acc.i # Len(acc.q[s].list) /\ m.q[s].listlen = 0]

\* One iobuf of ioqueue_implement_timeouts: the first of acc.q[s] not yet
\* visited, at index acc.i.
TimeoutStep(acc, s, d, maxtime, f) ==
    LET b    == acc.q[s].list[acc.i]
        aged == [acc.q EXCEPT ![s].list[acc.i].waittime =
                     IF @ < MaxWait THEN @ + 1 ELSE @]
    IN IF acc.null THEN acc
       ELSE IF b.state = "WAITING" /\ b.waittime + 1 > maxtime
         THEN TimedOut(acc, s, d, f, Move(aged, s, d, acc.i))
         ELSE [acc EXCEPT !.q = aged, !.i = @ + 1]

\* The singleton set makes TLC evaluate the accumulator once per step.
ImplementTimeouts(start, s, d, maxtime, f) ==
    FoldLeft(LAMBDA acc, k : CHOOSE next \in {TimeoutStep(a, s, d, maxtime, f) : a \in {acc}} : TRUE,
             [start EXCEPT !.i = 1], start.q[s].list)

TimeoutsDone ==
    LET start == [q |-> queue, i |-> 1, flags |-> flags, null |-> FALSE]
        half  == ImplementTimeouts(start, "timeout", "priority", to_time, "TIMED_OUT")
    IN CASE to_scheme = "NOTIMEOUT" -> start
         [] to_scheme = "BASETIMEOUT" ->
              ImplementTimeouts(start, "base",
                  IF pri_scheme = "ALLEQUAL" THEN "timeout" ELSE "priority",
                  to_time, "TIMED_OUT")
         [] to_scheme = "HALFTIMEOUT" ->
              ImplementTimeouts(half, "base", "timeout", to_time \div 2, "HALF_OUT")

Tick == /\ \E done \in {TimeoutsDone} :
             IF done.null
               THEN fault' = "null list" /\ UNCHANGED <<queue, flags>>
               ELSE queue' = done.q /\ flags' = done.flags /\ UNCHANGED fault
        /\ UNCHANGED <<config, arrived, out, idledetect, simtime>>

-----------------------------------------------------------------------------
\* ioqueue_idledetected: the timer fires and the owner's idle work runs.
IdleDetected == /\ idledetect
                /\ idledetect' = FALSE
                /\ UNCHANGED <<config, queue, flags, arrived, out, simtime, fault>>

\* ioqueue_reset_idledetecter, as the cache calls it after an idle flush.
ResetIdledetecter == /\ idlework /\ ~idledetect /\ NumInQueue(queue) = 0
                     /\ idledetect' = TRUE
                     /\ UNCHANGED <<config, queue, flags, arrived, out, simtime, fault>>

Advance == /\ simtime < MaxTime
           /\ simtime' = simtime + 1
           /\ UNCHANGED <<config, queue, flags, arrived, out, idledetect, fault>>

Init == /\ config \in Configs
        /\ queue = [s \in SubQs |-> EmptySubqueue]
        /\ flags = ArrivalFlags
        /\ arrived = [r \in Reqs |-> 0]
        /\ out = {}
        /\ idledetect = FALSE
        /\ simtime = 0
        /\ fault = "none"

Next == /\ fault = "none"
        /\ \/ \E r \in Reqs : AddNewRequest(r) \/ RaisePriority(r)
           \/ GetNextRequest
           \/ \E o \in out : PhysicalAccessDone(o)
           \/ Tick
           \/ IdleDetected
           \/ ResetIdledetecter
           \/ Advance

Spec == Init /\ [][Next]_vars
=============================================================================
