----------------------------- MODULE DiskState -----------------------------
(***************************************************************************)
(* The state of one disk with its buffer (disksim_disk.h) and its initial   *)
(* value.  The whole state is one record, threaded through the functions    *)
(* of DiskBuffer and DiskCtlr: each operator named after a C function       *)
(* returns the state after the call.  Times are abstracted: an event of the *)
(* medium, a message of the bus and an answer of the host may happen in any *)
(* order.  Where the program prints an error and stops, where an ASSERT     *)
(* fails and where it follows a null pointer, fault says so.                *)
(***************************************************************************)
EXTENDS Integers, Sequences, FiniteSets, SequencesExt

CONSTANTS
    Segs,       \* the buffer segments, 1 .. n in the order of the initial list
    Configs     \* the configurations: parameters of the disk and requests of the host

VARIABLES config, disk

none == 0       \* a null pointer to a request or to a segment

\* The requests of the host are numbered in the order in which they are sent.
Reqs == DOMAIN config.reqs
blkno(r) == config.reqs[r].blk
End(r) == config.reqs[r].blk + config.reqs[r].cnt
bcount(r) == config.reqs[r].cnt
Reads(r) == config.reqs[r].read
Wanted(r) == blkno(r) .. (End(r) - 1)
Blocks == 0 .. (config.numblocks - 1)

Larger(a, b) == IF a > b THEN a ELSE b
Smaller(a, b) == IF a < b THEN a ELSE b

fixed == config.acctime       \* acctime >= 0: a disk of fixed access time, without buffer
dedicatedwriteseg == IF config.dedicated /\ Cardinality(Segs) > 1 THEN 1 ELSE none

----------------------------------------------------------------------------
\* The checks of disk_read_specs on the parameters of the buffer
Accepted(c) ==
    /\ c.numwritesegs \in 1..Cardinality(Segs) /\ c.segsize \in 1..c.numblocks
    /\ c.readwater \in 0..100 /\ c.writewater \in 0..100        \* per cent
    /\ c.contread \in {"no", "track", "cyl", "seg", "dec"}
    /\ c.contread # "no" \/ c.readanyfreeblocks \/ c.fastwrites > 0 => c.enablecache
    /\ c.fastwrites \in 0..2 /\ c.preseeking \in 0..2 /\ c.keeprequestdata \in -1..1
    /\ c.minreadahead \in 0..c.segsize /\ c.maxreadahead \in 0..c.segsize

\* and the values it forces: no read-ahead without continuous reads, no maximum
\* below the minimum, keeprequestdata 0 and 1 exchanged.
ReadSpecs(c) ==
    LET least == IF c.contread = "no" THEN 0 ELSE c.minreadahead
    IN [c EXCEPT !.minreadahead = least,
                 !.maxreadahead = IF c.contread = "no" THEN least ELSE Larger(@, least),
                 !.keeprequestdata = IF @ >= 0 THEN 1 - @ ELSE @]

\* struct seg.  access is the event of the medium: its type, the block it is
\* at (blkno), its count (0 the head arrives, 1 the sector is taken, 2 it
\* passes) and its flags.  data is what the buffer holds of each block: the
\* request that wrote it, 0 for what the medium held in the beginning.
EmptySegment ==
    [state |-> "empty", startblkno |-> 0, endblkno |-> 0, outstate |-> "idle", outbcount |-> 0,
     minra |-> -1, maxra |-> -1, reqs |-> <<>>, hold_blkno |-> 0, hold_bcount |-> 0,
     recyclereq |-> none, data |-> [b \in Blocks |-> 0],
     access |-> [type |-> "none", blkno |-> 0, count |-> 0, read |-> TRUE, bg |-> FALSE]]

\* struct diskreq_t.  iol: the request still has its ioreqlist.  Of a read,
\* got is what the host received; before is what it knew when it asked: the
\* requests whose completion it had seen.
NewDiskreq(r, done) ==
    [live |-> TRUE, iol |-> TRUE, segowned |-> FALSE, hdaowned |-> FALSE, extradisc |-> FALSE,
     sent |-> FALSE, received |-> FALSE, outblkno |-> blkno(r), inblkno |-> blkno(r),
     seg |-> none, watermark |-> 0, hittype |-> "nomatch", ready |-> FALSE,
     got |-> [b \in Blocks |-> 0], before |-> done]

\* disk_initialize
InitialDisk ==
    [seg |-> [s \in Segs |-> EmptySegment], seglist |-> [i \in 1..Cardinality(Segs) |-> i],
     req |-> [r \in Reqs |-> [NewDiskreq(r, {}) EXCEPT !.live = FALSE]],
     queue |-> <<>>, numdirty |-> 0,
     currenthda |-> none, effectivehda |-> none, currentbus |-> none, effectivebus |-> none,
     pendxfer |-> <<>>, busowned |-> FALSE, outstate |-> "idle", buswait |-> <<>>,
     outwait |-> [kind |-> "none"],
     extradisc_diskreq |-> none, timers |-> {}, answer |-> [kind |-> "none"],
     immed |-> FALSE, immedstart |-> 0, immedend |-> 0, track |-> 0,
     media |-> [b \in Blocks |-> 0], done |-> {}, arrived |-> 0, calls |-> <<>>, fault |-> ""]

Init == config \in {ReadSpecs(c) : c \in {x \in Configs : Accepted(x)}} /\ disk = InitialDisk

\* Something the program stops at; what follows it no longer matters.
Fault(d, what) == IF d.fault = "" THEN [d EXCEPT !.fault = what] ELSE d
Faulty(d) == d.fault # ""

----------------------------------------------------------------------------
\* The geometry: tracks of config.blkspertrack blocks, config.surfaces of them to a cylinder
Track(b) == b \div config.blkspertrack
Cylinder(t) == t \div config.surfaces
TrackStart(t) == t * config.blkspertrack
TrackEnd(t) == Smaller((t + 1) * config.blkspertrack, config.numblocks)

\* The list of requests of the disk (disksim_ioqueue.c), first come first served
Pending(d) == SelectSeq(d.queue, LAMBDA e : ~e.out)
Queued(d, r, out) == \E i \in DOMAIN d.queue : d.queue[i] = [r |-> r, out |-> out]

\* ioqueue_get_specific_request
GetSpecific(d, r) ==
    IF Queued(d, r, FALSE)
    THEN [d EXCEPT !.queue = [i \in DOMAIN @ |-> IF @[i].r = r THEN [@[i] EXCEPT !.out = TRUE] ELSE @[i]]]
    ELSE Fault(d, "request not waiting in the queue")

\* ioqueue_physical_access_done
PhysicalAccessDone(d, r) ==
    IF Queued(d, r, TRUE)
    THEN [d EXCEPT !.queue = SelectSeq(@, LAMBDA e : e.r # r)]
    ELSE Fault(d, "request not outstanding in the queue")

Free(d, r) == [d EXCEPT !.req[r].live = FALSE, !.req[r].iol = FALSE]
=============================================================================
