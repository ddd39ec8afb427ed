--------------------------- MODULE DiskProperties ---------------------------
(***************************************************************************)
(* What the buffer and the controller of a disk must keep to: the lists and *)
(* counters agree, no check of the program fails, a read returns what was   *)
(* last written, what was written reaches the medium, and every request is  *)
(* completed.                                                               *)
(***************************************************************************)
EXTENDS DiskCtlr

Dirty(g) == g.state \in {"dirty", "writing"}
Current == {disk.currenthda, disk.effectivehda, disk.currentbus, disk.effectivebus}

\* The segments, the requests that use them and the pointers of the disk agree: a
\* segment holds no more than its size, lists each of its requests once and has one
\* owner; the dirty segments are counted; no pointer outlives its request
\* (the diskreqs freed by disk_release_hda and disk_completion).
DiskInv ==
    ~Faulty(disk) =>
    /\ \A s \in Segs :
          LET g == disk.seg[s]
          IN /\ g.endblkno - g.startblkno \in 0..config.segsize
             /\ \A i, j \in DOMAIN g.reqs :
                   /\ disk.req[g.reqs[i]].live /\ disk.req[g.reqs[i]].seg = s
                   /\ i # j => /\ g.reqs[i] # g.reqs[j]
                               /\ ~(disk.req[g.reqs[i]].segowned /\ disk.req[g.reqs[j]].segowned)
    /\ disk.numdirty = Cardinality({s \in Segs : Dirty(disk.seg[s])})
    /\ \A r \in (Current \cup ToSet(disk.pendxfer)) \ {none} : disk.req[r].live

\* None of the error exits and ASSERTs of disksim_diskctlr.c and
\* disksim_diskcache.c is reached, and no null pointer is followed.
NoFault == disk.fault = ""

\* v is an older version of a block than the one w wrote: w's host knew of v.
Older(v, w) == v # w /\ (v = 0 \/ v \in disk.req[w].before)

\* A read returns, of each block, nothing older than what a write had written
\* whose completion the host had seen when it sent the read: the buffer never
\* answers with data that a later write has replaced.
ReadsLatest ==
    \A r \in disk.done : Reads(r) /\ ~fixed =>
       \A b \in Wanted(r) : ~\E w \in disk.req[r].before :
          ~Reads(w) /\ b \in Wanted(w) /\ Older(disk.req[r].got[b], w)

\* Nothing is under way on the bus or on the medium, and nothing is to come.
Quiet ==
    /\ disk.arrived = Len(config.reqs) /\ disk.buswait = <<>> /\ disk.answer = NoMessage
    /\ disk.timers = {} /\ \A s \in Segs : disk.seg[s].access.type \in {"none", "nil"}

\* When the disk has come to rest, every block written is on the medium, as its
\* last writer left it: a write completed early is not forgotten in the buffer.
ReachesMedium ==
    Quiet /\ ~Faulty(disk) /\ ~fixed =>
       \A w \in Reqs : ~Reads(w) => \A b \in Wanted(w) : ~Older(disk.media[b], w)

\* Two segments that no request uses do not hold different versions of a block: a
\* segment contains data that is disjoint from all others.
OneVersion ==
    ~Faulty(disk) =>
       \A s, t \in Segs :
          LET Held1(x) == IF disk.seg[x].state = "clean" /\ disk.seg[x].reqs = <<>>
                          THEN disk.seg[x].startblkno..(disk.seg[x].endblkno - 1) ELSE {}
          IN \A b \in Held1(s) \cap Held1(t) : disk.seg[s].data[b] = disk.seg[t].data[b]

\* Every request of the host is completed, however bus and medium interleave.
EventuallyServed == <>(Faulty(disk) \/ disk.done = Reqs)
=============================================================================
