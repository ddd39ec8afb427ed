------------------------- MODULE IoQueueProperties -------------------------
(***************************************************************************)
(* What the request queue of IoQueue.tla must do.                          *)
(***************************************************************************)
EXTENDS IoQueue

IobufSet == [iolist : Seq(Reqs), state : {"WAITING", "PENDING"},
             flags : SUBSET Flags, waittime : 0..MaxWait, starttime : 0..MaxTime]

\* The queue never stops the simulation: a completed access is found pending
\* in the subqueue its flags lead to (disksim_ioqueue.c:1761), a request
\* completed by overlap stands alone (ASSERT at 2315), and the timeout walk
\* does not leave the list (2217).
NoFault == fault = "none"

\* The four counters of a subqueue agree with its list.
CountersMatch ==
    \A s \in SubQs :
        LET l == queue[s].list
            Count(S) == SumFunctionOnSet([i \in DOMAIN l |-> ReqCnt(l[i])], S)
            pending  == {i \in DOMAIN l : l[i].state = "PENDING"}
        IN /\ queue[s].iobufcnt = Len(l)
           /\ queue[s].listlen = Count(DOMAIN l)
           /\ queue[s].reqoutstanding = Cardinality(pending)
           /\ queue[s].numoutstanding = Count(pending)

\* An ordered subqueue stays ordered by block through insertions,
\* concatenations and moves from queues with another order: the scans stop at
\* the first block that is too large.
SortedLists ==
    \A s \in SubQs : alg[s] # "FCFS" =>
        \A i, j \in DOMAIN queue[s].list :
            i < j => BufBlkno(queue[s].list[i]) <= BufBlkno(queue[s].list[j])

\* The idle timer runs only while the queue is empty: idle work started by it
\* does not compete with requests.
IdleMeansEmpty == idledetect => \A s \in SubQs : queue[s].list = <<>>

\* Every variable keeps its type; the counters are integers, not naturals:
\* nothing in the code bounds them from below.  lastblkno is a
\* block of the device even after its last block was accessed.
TypeOK ==
    /\ \A s \in SubQs :
          /\ \A i \in DOMAIN queue[s].list : queue[s].list[i] \in IobufSet
          /\ queue[s].list \in Seq(Iobufs(s))
          /\ queue[s].listlen \in Int /\ queue[s].numoutstanding \in Int
          /\ queue[s].iobufcnt \in Int /\ queue[s].reqoutstanding \in Int
          /\ queue[s].lastblkno \in 0..(numblocks - 1)
          /\ queue[s].dir \in {"ASC", "DESC"} /\ queue[s].sstfupdown \in 0..1
    /\ flags \in [Reqs -> SUBSET Flags] /\ arrived \in [Reqs -> 0..MaxTime]
    /\ out \subseteq [lead : Reqs, flags : SUBSET Flags]
    /\ idledetect \in BOOLEAN /\ simtime \in 0..MaxTime /\ fault \in Faults

\* Whichever of the many places that insert, concatenate, move, raise, hand out
\* and complete changed a subqueue, its counters agree with its list, an ordered
\* list stays ordered, and the idle timer runs only for an empty queue.
QueueInv == TypeOK /\ CountersMatch /\ SortedLists /\ IdleMeansEmpty

\* The configurations in which the counters hold: an iobuf that stands for
\* several requests never moves, for listlen would grow by one only at its
\* destination (insert_new_request counts an iobuf, whatever it holds).
ChainsStay ==
    \A c \in Configs :
       c.concatmax = 0 \/ (c.pri_scheme = "ALLEQUAL" /\ c.to_scheme = "NOTIMEOUT")

\* The configurations in which, besides, a completion always finds its iobuf and
\* completes single requests: overlaps are not sought among concatenated
\* requests, half timed out requests have a priority queue to go to, and TIMED_OUT
\* and HALF_OUT are left to the queue (disksim_pfsim.c:542).
FaultFree(c) ==
    /\ c.comboverlaps = 0 \/ c.concatmax = 0
    /\ c.pri_scheme = "TWOQUEUE" \/ c.to_scheme # "HALFTIMEOUT"
    /\ \A r \in Reqs : c.ArrivalFlags[r] \cap {"TIMED_OUT", "HALF_OUT"} = {}

\* A queue with a waiting request has one to offer: the counters that guard
\* ioqueue_get_next_request never hide the requests from their owner.
WaitingIsOffered ==
    (\E s \in SubQs : Waiting(s) # {}) => NextSubqueue # "none"

-----------------------------------------------------------------------------
HandsOut(s) == queue'[s].reqoutstanding > queue[s].reqoutstanding
Ranks == <<"priority", "timeout", "base">>

\* A subqueue hands out a request only when no subqueue above it has a
\* waiting one: a request moved up is served before those it was moved past.
RankRespected ==
    [][\A i, j \in 1..3 : i < j /\ HandsOut(Ranks[j]) => Waiting(Ranks[i]) = {}]_vars

\* Where the arm has to go for what waits in s.
WaitingBlocks(s) == {BufBlkno(b) : b \in {c \in Iobufs(s) : ReadyToGo(c)}}

\* An elevator turns round only when nothing waits ahead of it.
SweepKept ==
    [][\A s \in SubQs :
         alg[s] = "ELEVATOR_LBN" /\ HandsOut(s) /\ queue'[s].dir # queue[s].dir
           => \A b \in WaitingBlocks(s) :
                 IF queue[s].dir = "ASC" THEN b < queue[s].lastblkno
                                         ELSE b >= queue[s].lastblkno]_vars

\* A cyclic scan passes no waiting request: the next block is the first one
\* at or above the last, and it goes back to the lowest only when none is.
CycleKept ==
    [][\A s \in SubQs :
         alg[s] = "CYCLE_LBN" /\ HandsOut(s)
           => LET last == queue[s].lastblkno
                  next == queue'[s].lastblkno
              IN \A b \in WaitingBlocks(s) :
                    IF next >= last THEN ~(last <= b /\ b < next)
                                    ELSE b < last /\ b >= next]_vars

\* Unless overlap completion takes whatever arrived before the completion
\* (scheme 1), a request is completed without being handed out only when an
\* access to exactly its blocks completes that began after it arrived, and a
\* read never completes a write.
SubsumedIsCovered ==
    [][comboverlaps # 1 =>
         \A s \in SubQs : \A r \in Waiting(s) :
            ~(\E t \in SubQs : Holds(queue'[t], r)) =>
               \E o \in out \ out' :
                  /\ blkno[r] = blkno[o.lead] /\ bcount[r] = bcount[o.lead]
                  /\ o.lead \in Reads => r \in Reads
                  /\ \E t \in SubQs : \E b \in Iobufs(t) :
                        Head(b.iolist) = o.lead /\ arrived[r] <= b.starttime]_vars

\* The ordered disciplines keep the order they stand for.
OrderKept == SweepKept /\ CycleKept

-----------------------------------------------------------------------------
\* The queue, whatever its configuration, is a request pool: nothing added is
\* lost, handed out twice, or completed in another grouping.
Pool == INSTANCE RequestPool WITH
    waiting <- UNION {Waiting(s) : s \in SubQs},
    batches <- UNION {{Chained(b) : b \in {c \in Iobufs(s) : ~ReadyToGo(c)}} : s \in SubQs}

ImplementsPool == Pool!PoolSpec

-----------------------------------------------------------------------------
\* The owner asks for the next request whenever it may (iodriver_access_complete
\* does at every completion), devices complete what they were given, and the
\* clock interrupts.
Aging == \E b \in Iobufs("base") \cup Iobufs("timeout") : b.waittime < MaxWait

Fairness == /\ WF_vars(GetNextRequest)
            /\ \A r \in Reqs : WF_vars(\E o \in out : o.lead = r /\ PhysicalAccessDone(o))
            \* WF_vars(Tick): a tick changes something just when Aging
            /\ []<><<Tick>>_vars \/ []<>~Aging

FairSpec == Spec /\ Fairness

\* With the base timeout scheme no request waits for ever, however often the
\* scheduler finds others closer: this is what the timeout queue is for.
EventuallyHandedOut ==
    \A r \in Reqs : to_scheme = "BASETIMEOUT" /\ (\E s \in SubQs : r \in Waiting(s))
                    ~> ~(\E s \in SubQs : r \in Waiting(s))
=============================================================================
