------------------------------ MODULE SubQueue ------------------------------
(***************************************************************************)
(* One subqueue of a DiskSim request queue (struct subq of                 *)
(* disksim_ioqueue.c) as a record, with its list operations and its         *)
(* scheduling algorithms as operators.                                      *)
(*                                                                         *)
(* The circular list of the C code, entered through its tail               *)
(* (queue->list), is the sequence `list' from head to tail.  An iobuf keeps *)
(* the requests chained on its iolist; its blkno, totalsize and reqcnt are  *)
(* those of that chain.  For the LBN algorithms a request's cylinder and    *)
(* surface are 0 (MAP_NONE), so the ordered list is ordered by block.       *)
(***************************************************************************)
EXTENDS Integers, Sequences, SequencesExt

CONSTANTS Reqs,    \* requests an owner may put in the queue
          Configs  \* the queues, and requests, considered

\* What ioqueue_readparams accepts of the parameters of a subqueue, and
\* requests that lie on the device.
SubQueueConfigurable(c) ==
    /\ c.numblocks \in Nat \ {0} /\ c.vscan_cyls \in Nat /\ c.concatmax \in Nat
    /\ c.blkno \in [Reqs -> Nat] /\ c.bcount \in [Reqs -> Nat \ {0}]
    /\ \A r \in Reqs : c.blkno[r] + c.bcount[r] <= c.numblocks
    /\ c.Reads \subseteq Reqs
    /\ c.seqscheme \subseteq {"CONCAT_READS", "CONCAT_WRITES"}

VARIABLE config

blkno  == config.blkno           \* first block of a request
bcount == config.bcount          \* its length in blocks
Reads  == config.Reads           \* the requests flagged READ
numblocks  == config.numblocks   \* blocks of the device
vscan_cyls == config.vscan_cyls  \* the VSCAN penalty for turning round
seqscheme  == config.seqscheme
concatmax  == config.concatmax   \* largest concatenated request; 0 turns it off

SchedAlgs == {"FCFS", "ELEVATOR_LBN", "CYCLE_LBN", "SSTF_LBN", "VSCAN_LBN"}

-----------------------------------------------------------------------------
(* iobufs and subqueues *)

BufBlkno(b)  == blkno[Head(b.iolist)]
TotalSize(b) == FoldLeft(LAMBDA n, r : n + bcount[r], 0, b.iolist)
ReqCnt(b)    == Len(b.iolist)
IsRead(b)    == Head(b.iolist) \in Reads
Chained(b)   == {b.iolist[i] : i \in DOMAIN b.iolist}

NewIobuf(r, fl) ==
    [iolist |-> <<r>>, state |-> "WAITING", flags |-> fl,
     waittime |-> 0, starttime |-> 0]

\* READY_TO_GO without an enablement function: the I/O driver and the smart
\* controller both pass NULL.
ReadyToGo(b) == b.state = "WAITING"
ReadyAt(sq)  == {i \in DOMAIN sq.list : ReadyToGo(sq.list[i])}

EmptySubqueue ==
    [list |-> <<>>, listlen |-> 0, iobufcnt |-> 0, reqoutstanding |-> 0,
     numoutstanding |-> 0, lastblkno |-> 0, dir |-> "ASC", sstfupdown |-> 0]

Holds(sq, r) == \E i \in DOMAIN sq.list : r \in Chained(sq.list[i])

-----------------------------------------------------------------------------
(* insertion, with the concatenation of sequential neighbours *)

Concatenable(req1, req2) ==
    /\ concatmax # 0
    /\ IF IsRead(req1) THEN "CONCAT_READS" \in seqscheme /\ IsRead(req2)
                       ELSE "CONCAT_WRITES" \in seqscheme /\ ~IsRead(req2)
    /\ ReadyToGo(req1) /\ ReadyToGo(req2)
    /\ BufBlkno(req1) + TotalSize(req1) = BufBlkno(req2)
    /\ TotalSize(req1) + TotalSize(req2) <= concatmax

\* Mutant: only the head of the second chain is kept.
Concatenated_HeadOnly(req1, req2) == [req1 EXCEPT !.iolist = Append(@, Head(req2.iolist))]

\* Everything but the chain is req1's: req2's flags and ages are dropped.
Concatenated(req1, req2) == [req1 EXCEPT !.iolist = @ \o req2.iolist]

CheckConcat(l, i) ==
    IF i >= 1 /\ i < Len(l) /\ Concatenable(l[i], l[i + 1])
      THEN ReplaceAt(RemoveAt(l, i + 1), i, Concatenated(l[i], l[i + 1]))
      ELSE l

InsertPosition(alg, l, b) ==
    IF alg = "FCFS" THEN Len(l) + 1
    ELSE Cardinality({i \in DOMAIN l : BufBlkno(l[i]) <= BufBlkno(b)}) + 1

\* [sq: the subqueue after the insertion; absorbed: whether b was appended to
\* its predecessor and its iobuf freed; at: where b's requests now are].
\* listlen grows by one however many requests b stands for.  l is the list
\* with b at pos, once b and its predecessor have been concatenated.
Inserted(sq, pos, l) ==
    LET absorbed == Len(l) = Len(sq.list)
        at       == IF absorbed THEN pos - 1 ELSE pos
        list     == CheckConcat(l, at)
    IN [sq |-> [sq EXCEPT !.list = list,
                          !.iobufcnt = @ + Len(list) - Len(sq.list),
                          !.listlen = @ + 1],
        absorbed |-> absorbed, at |-> at]

InsertAtPosition(sq, b, pos) ==
    Inserted(sq, pos, CheckConcat(InsertAt(sq.list, pos, b), pos - 1))

InsertNewRequest(alg, sq, b) ==
    InsertAtPosition(sq, b, InsertPosition(alg, sq.list, b))

-----------------------------------------------------------------------------
(* scheduling: the index picked in sq.list, or 0 *)

FcfsPick(sq) == SelectInSeq(sq.list, ReadyToGo)

\* Mutant: a request at lastblkno itself is not ahead.
ScanPick_Beyond(sq) ==
    LET ready == ReadyAt(sq)
        above == {i \in ready : BufBlkno(sq.list[i]) > sq.lastblkno}
    IN IF ready = {} THEN 0 ELSE IF above # {} THEN Min(above) ELSE Min(ready)

\* CYCLE: upwards from lastblkno, then from the lowest block again.
ScanPick(sq) ==
    LET ready == ReadyAt(sq)
        above == {i \in ready : BufBlkno(sq.list[i]) >= sq.lastblkno}
    IN IF ready = {} THEN 0 ELSE IF above # {} THEN Min(above) ELSE Min(ready)

\* ELEVATOR, SSTF and VSCAN: nearest of the ready requests below and at or
\* above lastblkno, where turning round costs `value'.
VscanBottom(sq) ==
    LET below   == {i \in ReadyAt(sq) : BufBlkno(sq.list[i]) < sq.lastblkno}
        nearest == Max(below)
    IN IF below = {} THEN 0
       ELSE Min({i \in below : BufBlkno(sq.list[i]) = BufBlkno(sq.list[nearest])})

VscanTop(sq) ==
    LET above == {i \in ReadyAt(sq) : BufBlkno(sq.list[i]) >= sq.lastblkno}
    IN IF above = {} THEN 0 ELSE Min(above)

Penalised(d, value) == IF d = 0 THEN 0 ELSE d + value

UpDistance(sq, value) ==
    LET d == BufBlkno(sq.list[VscanTop(sq)]) - sq.lastblkno
    IN IF sq.dir = "ASC" THEN d ELSE Penalised(d, value)

DownDistance(sq, value) ==
    LET d == sq.lastblkno - BufBlkno(sq.list[VscanBottom(sq)])
    IN IF sq.dir = "ASC" THEN Penalised(d, value) ELSE d

VscanTied(sq, value) ==
    /\ VscanTop(sq) # 0 /\ VscanBottom(sq) # 0
    /\ UpDistance(sq, value) = DownDistance(sq, value)

VscanPick(sq, value) ==
    LET top == VscanTop(sq)  bottom == VscanBottom(sq)
    IN IF top = 0 THEN bottom
       ELSE IF bottom = 0 THEN top
       ELSE IF \/ UpDistance(sq, value) < DownDistance(sq, value)
               \/ VscanTied(sq, value) /\ sq.sstfupdown = 0
              THEN top ELSE bottom

VscanValue(alg) ==
    CASE alg = "ELEVATOR_LBN" -> numblocks
      [] alg = "SSTF_LBN"     -> 0
      [] alg = "VSCAN_LBN"    -> vscan_cyls

IsVscan(alg) == alg \in {"ELEVATOR_LBN", "SSTF_LBN", "VSCAN_LBN"}

Pick(alg, sq) ==
    IF Len(sq.list) = 1 THEN IF ReadyToGo(sq.list[1]) THEN 1 ELSE 0
    ELSE CASE alg = "FCFS"      -> FcfsPick(sq)
           [] alg = "CYCLE_LBN" -> ScanPick(sq)
           [] OTHER             -> VscanPick(sq, VscanValue(alg))

\* The arm's direction after picking index i.  A queue of one request leaves
\* an SSTF queue's direction alone.
DirAfter(alg, sq, i) ==
    LET b == BufBlkno(sq.list[i])
    IN IF \/ ~IsVscan(alg)
          \/ alg = "SSTF_LBN" /\ Len(sq.list) = 1
          \/ b = sq.lastblkno
         THEN sq.dir
         ELSE IF b > sq.lastblkno THEN "ASC" ELSE "DESC"

UpDownAfter(alg, sq) ==
    IF IsVscan(alg) /\ Len(sq.list) > 1 /\ VscanTied(sq, VscanValue(alg))
      THEN 1 - sq.sstfupdown ELSE sq.sstfupdown

\* lastblkno after a request for iobuf b was handed out.
LastBlknoAfter(alg, b) ==
    LET end == BufBlkno(b) + TotalSize(b)
    IN CASE \/ alg \in {"ELEVATOR_LBN", "CYCLE_LBN"}
            \/ alg = "VSCAN_LBN" /\ vscan_cyls > 0 -> BufBlkno(b)
         [] \/ alg = "SSTF_LBN"
            \/ alg = "VSCAN_LBN" /\ vscan_cyls = 0 ->
                IF end # numblocks THEN end ELSE end - 1
         [] OTHER -> end - 1

-----------------------------------------------------------------------------
(* handing out, completing and leaving *)

Issued(alg, sq, i, now) ==
    LET b == sq.list[i]
    IN [sq EXCEPT !.list = ReplaceAt(@, i, [b EXCEPT !.state = "PENDING",
                                                     !.starttime = now]),
                  !.dir = DirAfter(alg, sq, i),
                  !.sstfupdown = UpDownAfter(alg, sq),
                  !.lastblkno = LastBlknoAfter(alg, b),
                  !.reqoutstanding = @ + 1,
                  !.numoutstanding = @ + ReqCnt(b)]

\* Mutant: numoutstanding is not given back.
Completed_StillOut(sq, i) ==
    LET n == ReqCnt(sq.list[i])
    IN [sq EXCEPT !.list = RemoveAt(@, i), !.iobufcnt = @ - 1, !.reqoutstanding = @ - 1,
                  !.listlen = @ - n]

\* ioqueue_remove_completed_request once the pending iobuf is found at i.
Completed(sq, i) ==
    LET n == ReqCnt(sq.list[i])
    IN [sq EXCEPT !.list = RemoveAt(@, i),
                  !.iobufcnt = @ - 1,
                  !.reqoutstanding = @ - 1,
                  !.listlen = @ - n,
                  !.numoutstanding = @ - n]

\* Mutant: the source of a move keeps its count.
MovedAway_KeepsCount(sq, i, n) == [sq EXCEPT !.list = RemoveAt(@, i), !.iobufcnt = @ - 1]

\* The source of a move to another subqueue gives up n requests, with the
\* iobuf at index i.
MovedAway(sq, i, n) ==
    [sq EXCEPT !.list = RemoveAt(@, i), !.iobufcnt = @ - 1, !.listlen = @ - n]
=============================================================================
