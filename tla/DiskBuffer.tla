----------------------------- MODULE DiskBuffer -----------------------------
(***************************************************************************)
(* The buffer of a disk (disksim_diskcache.c): which segment a request may  *)
(* use, who owns a segment and what is in it.  The question whether the     *)
(* access under way may be stopped, and the choice of the next request for  *)
(* the head (disksim_diskctlr.c), are here as well: they and the choice of  *)
(* a segment call each other.  An operator that returns a record with ok,   *)
(* seg or r returns the value of the C function there and the state after   *)
(* the call in d.                                                           *)
(***************************************************************************)
EXTENDS DiskState

Overlap(g, r) ==
    \/ blkno(r) >= g.startblkno /\ blkno(r) < g.endblkno
    \/ End(r) > g.startblkno /\ End(r) <= g.endblkno
    \/ blkno(r) <= g.startblkno /\ End(r) >= g.endblkno

\* disk_buffer_segment_wrap: the oldest blocks scroll off.
Wrap(g, end) == [g EXCEPT !.startblkno = Larger(@, end - config.segsize)]

\* disk_buffer_update_inbuffer
UpdateInbuffer(d, s) ==
    IF s = none \/ d.seg[s].state \in {"empty", "clean", "dirty"} THEN d
    ELSE [d EXCEPT !.seg[s] = Wrap(@, @.endblkno)]

Without(d, r, s, left) ==
    IF left = <<>> /\ d.seg[s].state = "dirty" THEN Fault(d, "dirty segment without a request")
    ELSE [d EXCEPT !.seg[s].reqs = left, !.req[r].seg = none]
RemoveFromSeg(d, r) ==
    LET s == d.req[r].seg
    IN IF s = none THEN Fault(d, "request without a segment removed from it")
       ELSE IF ~Contains(d.seg[s].reqs, r) THEN Fault(d, "request not in the list of its segment")
       ELSE Without(d, r, s, SelectSeq(d.seg[s].reqs, LAMBDA t : t # r))

\* disk_buffer_seg_owner
RealOwner(d, s) ==
    LET owners == SelectSeq(d.seg[s].reqs, LAMBDA t : d.req[t].segowned)
    IN IF owners = <<>> THEN none ELSE Head(owners)

EffectiveOwner(d, s) ==
    LET g == d.seg[s]
        readers == SelectSeq(g.reqs, LAMBDA t : g.recyclereq # t /\ (~d.req[t].iol \/ Reads(t)))
        Earlier(o, t) == IF o = none \/ d.req[t].outblkno < d.req[o].outblkno THEN t ELSE o
    IN IF g.access.read THEN FoldLeft(Earlier, RealOwner(d, s), readers) ELSE RealOwner(d, s)

----------------------------------------------------------------------------
\* disk_buffer_get_max_readahead; where the DEC scheme asks for the track of a
\* block beyond the last one the program stops: -1.
MaxReadahead(d, s, r) ==
    LET ForSegment(room) ==
            IF config.maxreadahead > 0 THEN config.maxreadahead
            ELSE IF config.keeprequestdata <= 0 THEN config.segsize
            ELSE IF room < config.minreadahead \/ room <= 0 THEN config.minreadahead ELSE room
        ForTrack(t) ==
            TrackEnd(t) + (IF d.seg[s].startblkno < TrackStart(t) THEN config.blkspertrack ELSE 0)
    IN IF config.contread = "no" THEN End(r)
       ELSE IF config.contread # "dec" THEN End(r) + ForSegment(config.segsize - bcount(r))
       ELSE IF End(r) >= config.numblocks THEN -1 ELSE ForTrack(Track(End(r)))

\* The read-ahead limits grow to what a request asks for.
ReachFor(d, s, least, most) ==
    IF most = -1 THEN Fault(d, "block beyond the end of the disk")
    ELSE [d EXCEPT !.seg[s].minra = Larger(@, Smaller(least, config.numblocks)),
                   !.seg[s].maxra = Larger(@, Smaller(most, config.numblocks))]
ExtendReadahead(d, s, r) == ReachFor(d, s, End(r) + config.minreadahead, MaxReadahead(d, s, r))

\* A request that prepends takes the segment over from its owner, whose data is held.
GiveWay(d, s, t) ==
    LET g == d.seg[s]
    IN IF g.state # "dirty" THEN Fault(d, "prepend of an active request")
       ELSE IF g.endblkno # g.startblkno /\ g.hold_bcount # 0 THEN Fault(d, "prepend to held data")
       ELSE [d EXCEPT !.req[t].segowned = FALSE, !.req[t].hittype = "append",
                      !.seg[s].hold_blkno = IF g.endblkno # g.startblkno THEN g.startblkno ELSE @,
                      !.seg[s].hold_bcount =
                          IF g.endblkno # g.startblkno THEN g.endblkno - g.startblkno ELSE @]

NoOtherAtHead(d, s, r) ==
    d.effectivehda \in {none, r} \/ d.req[d.effectivehda].seg # s

\* A read that misses starts the segment anew.
Restarted(d, s, r) ==
    LET q == d.req[r]
        recycled == d.seg[s].recyclereq = r
    IN IF ~q.iol \/ ~(d.seg[s].access.type = "nil" \/ recycled)
       THEN Fault(d, "segment of an access under way reset")
       ELSE [d EXCEPT !.req[r].hittype = "nomatch",
                      !.seg[s].state = IF recycled THEN @ ELSE "clean",
                      !.seg[s].access.blkno = IF recycled THEN @ ELSE q.outblkno,
                      !.seg[s].startblkno = q.outblkno, !.seg[s].endblkno = q.outblkno,
                      !.seg[s].minra = -1, !.seg[s].maxra = -1, !.seg[s].hold_bcount = 0]
ReadsAhead(d, s, r) ==
    IF Faulty(d) \/ ~d.req[r].iol THEN d
    ELSE [ExtendReadahead(d, s, r) EXCEPT
            !.seg[s].access.bg = @ \/ (d.seg[s].endblkno >= End(r) /\ d.effectivehda = r)]
OwnForRead(d, s, r) ==
    LET miss == d.req[r].hittype = "nomatch" \/ d.seg[s].startblkno > d.req[r].outblkno
    IN ReadsAhead(IF miss THEN Restarted(d, s, r) ELSE d, s, r)

OwnForWrite(d, s, r) ==
    LET q == d.req[r]
        recycled == d.seg[s].recyclereq = r
        there == NoOtherAtHead(d, s, r)
        full == q.hittype = "nomatch" /\ ~recycled /\ d.numdirty >= config.numwritesegs
    IN IF full THEN Fault(d, "more dirty segments than write segments")
       ELSE [d EXCEPT
               !.seg[s].access.blkno =
                   IF there /\ ~recycled /\ d.seg[s].access.type = "nil" THEN q.inblkno ELSE @,
               !.seg[s].access.bg = @ \/ (there /\ q.received),
               !.seg[s].minra = IF q.hittype = "nomatch" THEN -1 ELSE @,
               !.seg[s].maxra = IF q.hittype = "nomatch" THEN -1 ELSE @,
               !.seg[s].hold_bcount = IF q.hittype = "nomatch" THEN 0 ELSE @,
               !.seg[s].startblkno = IF q.hittype \in {"nomatch", "prepend"} THEN q.inblkno ELSE @,
               !.seg[s].endblkno = IF q.hittype \in {"nomatch", "prepend"} THEN q.inblkno ELSE @,
               !.seg[s].state = IF q.hittype = "nomatch" /\ ~recycled THEN "dirty" ELSE @,
               !.numdirty = IF q.hittype = "nomatch" /\ ~recycled THEN @ + 1 ELSE @]

\* disk_buffer_attempt_seg_ownership.  A segment that keeps another owner is
\* not taken.  config.garbage is what the variable write_incomplete holds when
\* every write before the request is complete: it is never set to FALSE.
Incomplete(d, ahead) == \E i \in DOMAIN ahead : d.req[ahead[i]].inblkno < End(ahead[i])
WritesAhead(d, s, r) ==
    LET before == IF Contains(d.seg[s].reqs, r)
                  THEN SubSeq(d.seg[s].reqs, 1, SelectInSeq(d.seg[s].reqs, LAMBDA t : t = r) - 1)
                  ELSE d.seg[s].reqs
    IN SelectSeq(before, LAMBDA t : d.req[t].iol /\ ~Reads(t))

Owned(d, s, r) ==
    LET sets == d.req[r].iol /\ NoOtherAtHead(d, s, r)
    IN [d EXCEPT !.req[r].segowned = TRUE,
                 !.seg[s].access.read = IF sets THEN Reads(r) ELSE @,
                 !.seg[s].access.bg = IF sets THEN FALSE ELSE @]

TakeOver(d, s, r, ahead) ==
    IF Faulty(d) THEN d
    ELSE IF ahead # <<>> /\ (Incomplete(d, ahead) \/ config.garbage)
    THEN Fault(d, "ownership taken before an earlier write is complete")
    ELSE IF ~d.req[r].iol \/ Reads(r) THEN OwnForRead(Owned(d, s, r), s, r)
    ELSE OwnForWrite(Owned(d, s, r), s, r)

OwnUnlessOwned(d, s, r, owner) ==
    IF owner # none /\ d.req[r].hittype # "prepend" THEN d
    ELSE TakeOver(IF owner = none THEN d ELSE GiveWay(d, s, owner), s, r, WritesAhead(d, s, r))
AttemptOwnership(d, r) ==
    LET s == d.req[r].seg
    IN IF Faulty(d) THEN d
       ELSE IF s = none THEN Fault(d, "ownership of no segment asked for")
       ELSE IF d.req[r].segowned THEN Fault(d, "segment owned already")
       ELSE OwnUnlessOwned(d, s, r, RealOwner(d, s))

----------------------------------------------------------------------------
\* A segment is reusable when its only request is a read whose data is all
\* there, or a write that has only to send its completion.
SoleRequestServed(d, s) ==
    LET g == d.seg[s]
        r == Head(g.reqs)
        q == d.req[r]
    IN /\ ~fixed /\ g.recyclereq = none /\ Len(g.reqs) = 1
       /\ q.iol /\ ~q.received
       /\ IF Reads(r)
          THEN /\ q.outblkno >= g.startblkno /\ q.outblkno < g.endblkno
               /\ End(r) > g.startblkno /\ End(r) <= g.endblkno
          ELSE q.inblkno >= End(r)

OwnIfNot(d, r) == IF d.req[r].segowned THEN d ELSE AttemptOwnership(d, r)

\* disk_buffer_reusable_segment_check
Reusable(d, s) ==
    IF s = none THEN [ok |-> FALSE, d |-> Fault(d, "null segment")]
    ELSE IF SoleRequestServed(d, s)
    THEN [ok |-> TRUE, d |-> OwnIfNot(d, Head(d.seg[s].reqs))]
    ELSE [ok |-> FALSE, d |-> d]

\* disk_buffer_recyclable_segment_check: a write leaves a separate write segment
\* alone, and takes the segment of a read only while it may make it dirty.
Recyclable(d, s, isread) ==
    /\ SoleRequestServed(d, s)
    /\ IF Reads(Head(d.seg[s].reqs))
       THEN isread \/ (dedicatedwriteseg = none /\ d.numdirty < config.numwritesegs)
       ELSE ~isread \/ dedicatedwriteseg = none

\* disk_buffer_recyclable_segment
FirstOf(d, usable) ==
    IF fixed \/ usable = <<>> THEN [seg |-> none, d |-> d]
    ELSE [seg |-> Head(usable), d |-> OwnIfNot(d, Head(d.seg[Head(usable)].reqs))]
RecyclableSegment(d, isread) ==
    FirstOf(d, SelectSeq(d.seglist, LAMBDA s : Recyclable(d, s, isread)))

\* A block of the write at the head that the segment already holds
Buffered_OrComing(g, q, b) == b >= q.inblkno
Buffered(g, q, b) == b >= q.inblkno /\ b < g.endblkno

\* disk_buffer_block_available: while reading, whether the block fits in; while
\* writing, whether it is there to be written.
BlockAvailable(d, s, b) ==
    LET g == d.seg[s]
        h == d.effectivehda
        few == IF bcount(h) < 45 THEN Smaller(bcount(h), 10) ELSE 15
        Near(owner) ==
            owner # none /\ ~d.req[owner].sent => b - d.req[owner].outblkno < config.segsize
    IN /\ b >= 0
       /\ IF g.state = "reading"
          THEN /\ ~(b < g.endblkno /\ b >= g.startblkno)
               /\ b < g.startblkno => config.readanyfreeblocks /\ g.endblkno = g.startblkno
               /\ Near(EffectiveOwner(d, s))
          ELSE /\ Buffered(g, d.req[h], b)
               /\ d.req[h].iol /\ config.extra_write_disconnect => g.endblkno - g.startblkno >= few

----------------------------------------------------------------------------
\* These five call each other: to choose a segment it may have to be asked whether
\* a prefetch can be stopped, and that depends on which request would come next.
RECURSIVE Stopable(_, _), SelectSegment(_, _, _), Enabled(_, _), ShowNextRequest(_), SetSegment(_, _)

\* What a segment is worth to a read (0 for one it cannot use), and as what:
\* most for the freshest data, least for the segment of a prefetch.
Inside(g, r) == blkno(r) >= g.startblkno /\ blkno(r) < g.endblkno
AlmostHit(g, r) == g.state = "reading" /\ g.endblkno = blkno(r) /\ config.almostreadhits

ReadWorth(d, s, r, best) ==
    LET g == d.seg[s]
        whole == IF g.endblkno >= End(r) THEN 0 ELSE -4
        written == config.enablecache /\ config.readhitsonwritedata /\ best < 10
    IN IF s = dedicatedwriteseg THEN 0
       ELSE IF g.state = "empty" THEN 3
       ELSE IF Inside(g, r)
       THEN CASE g.state = "dirty" -> IF written THEN 11 + whole ELSE 0
              [] g.state = "writing" -> IF written THEN 10 + whole ELSE 0
              [] g.state = "reading" -> IF config.enablecache THEN 9 + whole ELSE 0
              [] g.state = "clean" ->
                   IF config.readhitsonwritedata \/ g.access.read THEN 8 + whole ELSE 0
       ELSE IF g.state = "clean" THEN IF g.reqs = <<>> THEN 2 ELSE 0
       ELSE IF AlmostHit(g, r) THEN 5
       ELSE IF g.state = "reading" /\ ~d.req[Head(g.reqs)].iol THEN 1
       ELSE 0

ReadHit(g, r) ==
    IF g.state = "empty" \/ (~Inside(g, r) /\ ~AlmostHit(g, r)) THEN "nomatch"
    ELSE IF Inside(g, r) /\ g.endblkno >= End(r) THEN "whole" ELSE "partial"

\* Dirty data the read asks for in a segment it may not use
ReadCollides(d, s, r, best) ==
    LET g == d.seg[s]
    IN /\ g.state \in {"dirty", "writing"}
       /\ IF s = dedicatedwriteseg THEN Overlap(g, r)
          ELSE IF Inside(g, r)
          THEN config.enablecache /\ ~(config.readhitsonwritedata /\ best < 10)
          ELSE blkno(r) < g.startblkno /\ Overlap(g, r)

\* One segment weighed: a collision, unless the segment is reusable, ends the search.
UnlessReusable(u, r) ==
    IF u.ok THEN u.d ELSE [u.d EXCEPT !.req[r].hittype = "collision", !.req[r].seg = none]
Collided(a, r, s) == [a EXCEPT !.d = UnlessReusable(Reusable(a.d, s), r)]

Taken(a, r, s, worth, hit) ==
    IF worth <= a.best THEN a
    ELSE [d |-> [a.d EXCEPT !.req[r].seg = s, !.req[r].hittype = hit], best |-> worth]

Nothing(d, r) == [d |-> [d EXCEPT !.req[r].seg = none, !.req[r].hittype = "nomatch"], best |-> 0]
Decided(a, r, s) ==
    Faulty(a.d) \/ a.d.req[r].hittype = "collision" \/ a.d.seg[s].recyclereq # none

WeighForRead(a, r, s) ==
    IF Decided(a, r, s) THEN a
    ELSE IF ReadCollides(a.d, s, r, a.best) THEN Collided(a, r, s)
    ELSE Taken(a, r, s, ReadWorth(a.d, s, r, a.best), ReadHit(a.d.seg[s], r))
RECURSIVE BestForRead(_, _, _)
BestForRead(a, r, list) ==
    IF list = <<>> THEN a ELSE BestForRead(WeighForRead(a, r, Head(list)), r, Tail(list))

----------------------------------------------------------------------------
\* A write may follow the last write of a segment, or precede the first one.
Appends(d, s, r) ==
    LET g == d.seg[s]
        writes == SelectSeq(Tail(g.reqs), LAMBDA t : ~Reads(t))
        last == IF writes = <<>> THEN Head(g.reqs) ELSE Last(writes)
    IN /\ d.req[last].iol /\ blkno(r) = End(last) /\ blkno(r) = g.endblkno
       /\ config.segsize > blkno(r) - d.req[RealOwner(d, s)].inblkno

Prepends(d, s, r) ==
    LET g == d.seg[s]
        first == Head(SelectSeq(g.reqs, LAMBDA t : ~Reads(t)))
    IN /\ g.state = "dirty" /\ End(r) = blkno(first) /\ End(r) = g.startblkno
       /\ g.startblkno = g.endblkno \/ g.hold_bcount = 0
       /\ config.segsize >= (g.endblkno - g.startblkno) + bcount(r)
       /\ d.extradisc_diskreq = none \/ d.req[d.extradisc_diskreq].seg # s

\* A write that may not join the segment's writes, and data in the segment that
\* cannot be thrown away
Closed(g) == ~config.writecomb \/ g.outstate = "transfering"
PurePrefetch(d, g) == ~d.req[Head(g.reqs)].iol /\ Len(g.reqs) = 1
Foreign(s) == dedicatedwriteseg # none /\ s # dedicatedwriteseg

WriteWorth(d, s, r) ==
    LET g == d.seg[s]
        room == d.numdirty < config.numwritesegs
    IN IF Foreign(s) THEN 0
       ELSE CASE g.state = "empty" -> IF room THEN 3 ELSE 0
              [] g.state = "reading" -> IF room /\ PurePrefetch(d, g) THEN 1 ELSE 0
              [] g.state = "clean" ->
                   IF room /\ g.reqs = <<>> THEN IF Overlap(g, r) THEN 4 ELSE 2 ELSE 0
              [] OTHER -> IF Closed(g) THEN 0
                          ELSE IF Appends(d, s, r) THEN IF g.state = "writing" THEN 7 ELSE 6
                          ELSE IF Prepends(d, s, r) THEN 5 ELSE 0

WriteHit(d, s, r) ==
    LET g == d.seg[s]
    IN IF g.state \notin {"dirty", "writing"} \/ Foreign(s) \/ Closed(g) THEN "nomatch"
       ELSE IF Appends(d, s, r) THEN "append"
       ELSE IF Prepends(d, s, r) THEN "prepend" ELSE "nomatch"

WriteCollides(d, s, r) ==
    LET g == d.seg[s]
    IN /\ Overlap(g, r)
       /\ CASE g.state = "empty" -> FALSE
            [] g.state = "clean" -> g.reqs # <<>>
            [] g.state = "reading" -> Foreign(s) \/ ~PurePrefetch(d, g)
            [] OTHER -> ~Foreign(s) /\ WriteHit(d, s, r) = "nomatch"

\* A prefetch elsewhere than in the write segment is stopped as well, if it can be.
StopsFor(d, s, r) ==
    IF Foreign(s) /\ d.seg[s].state = "reading" /\ PurePrefetch(d, d.seg[s])
    THEN Stopable(d, r) ELSE [ok |-> FALSE, d |-> d]

WeighStopped(a, r, s, stop) ==
    IF Faulty(stop.d) THEN [a EXCEPT !.d = stop.d]
    ELSE IF ~stop.ok /\ WriteCollides(stop.d, s, r) THEN Collided([a EXCEPT !.d = stop.d], r, s)
    ELSE Taken([a EXCEPT !.d = stop.d], r, s, WriteWorth(stop.d, s, r), WriteHit(stop.d, s, r))
WeighForWrite(a, r, s) == IF Decided(a, r, s) THEN a ELSE WeighStopped(a, r, s, StopsFor(a.d, s, r))
RECURSIVE BestForWrite(_, _, _)
BestForWrite(a, r, list) ==
    IF list = <<>> THEN a ELSE BestForWrite(WeighForWrite(a, r, Head(list)), r, Tail(list))

\* The segment of a prefetch is taken only if the prefetch can be stopped; where it
\* cannot for a write, the program follows the pointer of its loop, which is null.
Prefetching(stop, r) ==
    LET chosen == stop.d.req[r].seg
    IN IF stop.ok \/ Faulty(stop.d) THEN stop.d
       ELSE IF ~Reads(r) /\ (chosen = none \/ Overlap(stop.d.seg[chosen], r)) THEN Fault(stop.d, "null segment")
       ELSE [stop.d EXCEPT !.req[r].seg = none]
Settled(found, r) ==
    IF found.best # 1 \/ Faulty(found.d) THEN found.d ELSE Prefetching(Stopable(found.d, r), r)

\* disk_buffer_select_segment; extra asks whether a write that follows another
\* one elsewhere is disconnected once more.
Suffers(d, r) ==
    LET s == d.req[r].seg
    IN /\ config.extra_write_disconnect /\ ~config.neverdisconnect
       /\ d.extradisc_diskreq = none /\ ~Reads(r) /\ s # none
       /\ Last(d.seglist) = s
       /\ ~d.seg[s].access.read /\ blkno(r) # d.seg[s].endblkno
MarkExtra(d, r, extra) ==
    IF Faulty(d) THEN d ELSE [d EXCEPT !.req[r].extradisc = @ \/ (extra /\ Suffers(d, r))]
SelectSegment(d, r, extra) ==
    IF fixed THEN Nothing(d, r).d
    ELSE MarkExtra(Settled(IF Reads(r) THEN BestForRead(Nothing(d, r), r, d.seglist)
                           ELSE BestForWrite(Nothing(d, r), r, d.seglist), r), r, extra)

----------------------------------------------------------------------------
\* disk_enablement_function: may this request have the head next?  A segment
\* chosen on the way is given back.
GiveBack(d, r) == [d EXCEPT !.req[r].seg = none, !.req[r].hittype = "nomatch"]
Busy(d, s) == d.seg[s].state \in {"writing", "dirty"}

\* A write appended to a segment waits until the whole of it fits there.
FirstWrite(d, s) == Head(SelectSeq(d.seg[s].reqs, LAMBDA t : ~Reads(t)))
WaitsForRoom(d, r) ==
    LET s == d.req[r].seg
        owner == IF RealOwner(d, s) = none THEN FirstWrite(d, s) ELSE RealOwner(d, s)
    IN /\ owner # r /\ End(r) - d.req[owner].inblkno > config.segsize
       /\ d.req[owner].inblkno # blkno(r)

\* Of a request with a segment, of one for which a segment has been chosen (x),
\* of one for which there is none
EnabledWith(d, r, s) ==
    IF d.seg[s].recyclereq = r THEN [ok |-> FALSE, d |-> Fault(d, "recycled request in the queue")]
    ELSE IF ~Reads(r) THEN [ok |-> d.req[r].segowned \/ ~WaitsForRoom(d, r), d |-> d]
    ELSE IF Busy(d, s) THEN Reusable(d, s) ELSE [ok |-> TRUE, d |-> d]

GivenBack(e, r) == [e EXCEPT !.d = IF Faulty(@) THEN @ ELSE GiveBack(@, r)]
EnabledChosen(x, r) ==
    GivenBack(IF ~Reads(r) THEN [ok |-> ~(x.req[r].hittype = "append" /\ WaitsForRoom(x, r)), d |-> x]
              ELSE IF Busy(x, x.req[r].seg) THEN Reusable(x, x.req[r].seg) ELSE [ok |-> TRUE, d |-> x], r)

EnabledRecycling(spare) == [ok |-> spare.seg # none, d |-> spare.d]

EnabledWithout(x, r) ==
    IF Faulty(x) THEN [ok |-> FALSE, d |-> x]
    ELSE IF x.req[r].seg # none THEN EnabledChosen(x, r)
    ELSE IF x.req[r].hittype = "collision" THEN [ok |-> FALSE, d |-> x]
    ELSE EnabledRecycling(RecyclableSegment(x, Reads(r)))

Enabled(d, r) ==
    IF fixed THEN [ok |-> TRUE, d |-> d]
    ELSE IF d.req[r].seg # none THEN EnabledWith(d, r, d.req[r].seg)
    ELSE EnabledWithout(SelectSegment(d, r, FALSE), r)

\* ioqueue_show_next_request: the first request that is enabled.  It is asked
\* again when it is chosen, and the program stops if the answer has changed.
RECURSIVE FirstEnabled(_, _, _)
Answering(e, waiting, again) ==
    IF again THEN IF e.ok THEN [r |-> Head(waiting).r, d |-> e.d]
                  ELSE [r |-> none, d |-> Fault(e.d, "selected request is not ready to go")]
    ELSE FirstEnabled(e.d, IF e.ok THEN waiting ELSE Tail(waiting), e.ok)
FirstEnabled(d, waiting, again) ==
    IF waiting = <<>> \/ Faulty(d) THEN [r |-> none, d |-> d]
    ELSE Answering(Enabled(d, Head(waiting).r), waiting, again)

ShowNextRequest(d) == FirstEnabled(d, Pending(d), FALSE)

\* disk_buffer_stopable_access: can the access under way give the head to this
\* request, because it can be stopped at once or because the request is a hit
\* on it and the best one to come next?  A read asks twice, because some
\* schedulers alternate between equals.
RECURSIVE BestIs(_, _, _)
IsOrAgain(next, r, twice) ==
    IF next.r \in {none, r} THEN [ok |-> TRUE, d |-> next.d]
    ELSE IF twice THEN BestIs(next.d, r, FALSE) ELSE [ok |-> FALSE, d |-> next.d]
BestIs(d, r, twice) == IsOrAgain(ShowNextRequest(d), r, twice)

\* The prefetch is stopped: now, or when the medium says so next (preempt).
Interrupt(d, s) ==
    LET a == d.seg[s].access
        insector == a.type = "seek" \/ ~config.stopinsector
    IN IF a.type = "nil" \/ ~insector THEN [ok |-> TRUE, d |-> d]
       ELSE IF config.disconnectinseek THEN [ok |-> FALSE, d |-> [d EXCEPT !.seg[s].outstate = "preempt"]]
       ELSE [ok |-> TRUE,
             d |-> [d EXCEPT !.track = IF a.type = "seek" THEN Track(a.blkno) ELSE @,
                             !.seg[s].access.type = "nil"]]

\* A write that hits the data read ahead ends the read-ahead there.
CutShort(d, r, s) ==
    IF ~Reads(r) /\ config.write_hit_stop_readahead /\ Overlap(d.seg[s], r)
    THEN [d EXCEPT !.seg[s].minra = d.seg[s].endblkno, !.seg[s].maxra = d.seg[s].endblkno] ELSE d

\* The owner of the head still has to answer the host.
Early_Never(d, h) == FALSE
Early(d, h) ==
    \/ ~d.req[h].sent /\ config.preseeking # 2
    \/ ~d.req[h].received /\ config.preseeking = 0

StopsPrefetch(d, h, s) ==
    IF Early(d, h) THEN [ok |-> FALSE, d |-> d]
    ELSE IF d.seg[s].endblkno < d.seg[s].minra
    THEN [ok |-> FALSE, d |-> [d EXCEPT !.seg[s].maxra = d.seg[s].minra]]
    ELSE Interrupt(d, s)

HitsPrefetch(g, r) == config.enablecache /\ (Inside(g, r) \/ AlmostHit(g, r))
Reading(d, r, h, s) ==
    LET g == d.seg[s]
        hit == Reads(r) /\ d.req[r].seg = s
    IN IF /\ d.req[h].iol /\ g.endblkno < g.minra
          /\ ~(hit /\ blkno(r) >= g.startblkno /\ blkno(r) <= g.endblkno) THEN "no"
       ELSE IF hit /\ HitsPrefetch(g, r) THEN "best" ELSE "stop"

\* A write that is appended to the one under way
Follows(d, r, s) ==
    /\ d.req[r].hittype = "append" /\ d.req[r].seg = s /\ d.seg[s].endblkno = blkno(r)
    /\ config.fastwrites # 1 \/ Len(Pending(d)) = 1

\* What decides: best, whether r is the best request to come next.
Question(d, r, h, s) ==
    IF d.seg[s].recyclereq # none THEN "no"
    ELSE IF d.seg[s].state = "reading" THEN Reading(d, r, h, s)
    ELSE IF Follows(d, r, s) THEN "best" ELSE "no"

Decides(d, r, h, s, question) ==
    CASE question = "no" -> [ok |-> FALSE, d |-> d]
      [] question = "best" -> BestIs(d, r, Reads(r))
      [] question = "stop" -> StopsPrefetch(CutShort(d, r, s), h, s)

Stopable(d, r) ==
    LET h == d.effectivehda
        s == IF h = none THEN none ELSE d.req[h].seg
    IN IF Faulty(d) THEN [ok |-> FALSE, d |-> d]
       ELSE IF s = none THEN [ok |-> FALSE, d |-> Fault(d, "no access to stop")]
       ELSE IF d.seg[s].recyclereq \notin {none, h}
       THEN [ok |-> FALSE, d |-> Fault(d, "recycled by another request")]
       ELSE IF d.seg[s].recyclereq = none /\ d.seg[s].state \notin {"reading", "writing"}
       THEN [ok |-> FALSE, d |-> Fault(d, "no active access to stop")]
       ELSE Decides(d, r, h, s, Question(d, r, h, s))

----------------------------------------------------------------------------
\* disk_buffer_set_segment: the request joins its segment, if the two agree.
Misfit(d, r, s) ==
    LET g == d.seg[s]
        recycles == g.recyclereq = r
        hit == d.req[r].hittype
        lost == Reads(r) /\ ~config.readhitsonwritedata
    IN CASE Reads(r) /\ s = dedicatedwriteseg -> "read in the write segment"
         [] g.recyclereq \notin {none, r} -> "segment recycled by another request"
         [] recycles /\ g.state \in {"empty", "clean", "dirty"} -> "recycled segment not active"
         [] recycles /\ Reads(r) # (g.state = "reading") -> "recycled segment of the other kind"
         [] g.state = "clean" /\ lost /\ hit # "nomatch" /\ ~g.access.read -> "read hit on written data"
         [] g.state = "dirty" /\ hit = "nomatch" -> "dirty data overwritten"
         [] g.state = "dirty" /\ lost -> "read hit on written data"
         [] g.state = "writing" /\ ~recycles /\ hit \in {"nomatch", "prepend"} -> "active write re-targeted"
         [] OTHER -> ""

\* watermark in blocks, of a percentage
Percent(part, water) == (part * water) \div 100
Watermark(r) ==
    LET water == IF Reads(r) THEN config.readwater ELSE config.writewater
    IN IF config.reqwater THEN Larger(1, Percent(Smaller(config.segsize, bcount(r)), water))
       ELSE (config.segsize * water + 99) \div 100

\* A write empties the unused segments that hold some of its blocks.
Emptied_Never(d, r, s, t) == FALSE
Emptied(d, r, s, t) ==
    t # s /\ ~Reads(r) /\ d.seg[t].state = "clean" /\ d.seg[t].reqs = <<>> /\ Overlap(d.seg[t], r)

Seated(d, r, s) ==
    LET later == SelectInSeq(d.seg[s].reqs, LAMBDA t : d.req[t].iol /\ blkno(r) < blkno(t))
        first == d.seg[s].reqs = <<>> /\ d.seg[s].access.type = "none"
    IN [d EXCEPT
         !.seglist = Append(SelectSeq(@, LAMBDA t : t # s), s),
         !.req[r].watermark = Watermark(r),
         !.seg = [t \in Segs |->
                   IF Emptied(d, r, s, t) THEN [@[t] EXCEPT !.state = "empty"]
                   ELSE IF t # s THEN @[t]
                   ELSE [@[s] EXCEPT
                          !.reqs = IF later = 0 THEN Append(@, r) ELSE InsertAt(@, later, r),
                          !.access = IF ~first THEN @
                                     ELSE [type |-> "nil", blkno |-> blkno(r), count |-> 0,
                                           read |-> Reads(r), bg |-> FALSE]]]]

Joins(stop, r, s) ==
    IF ~stop.ok \/ Faulty(stop.d) THEN Fault(stop.d, "active read segment re-targeted")
    ELSE Seated(stop.d, r, s)
SetSegment(d, r) ==
    LET s == d.req[r].seg
        asks == /\ d.seg[s].state = "reading" /\ d.seg[s].recyclereq # r
                /\ ~Reads(r) \/ d.req[r].hittype = "nomatch"
        misfit == Misfit(d, r, s)
    IN IF Faulty(d) THEN d
       ELSE IF s = none THEN Fault(d, "no segment to set")
       ELSE IF misfit # "" THEN Fault(d, misfit)
       ELSE Joins(IF asks THEN Stopable(d, r) ELSE [ok |-> TRUE, d |-> d], r, s)
=============================================================================
