------------------------------ MODULE DiskCtlr ------------------------------
(***************************************************************************)
(* The controller of a disk (disksim_diskctlr.c): how a request gets the    *)
(* head and the bus, how the sectors of the medium and the transfers of the *)
(* bus follow one another and how the disk takes its leave.  Each operator  *)
(* named after a C function returns the state after the call.  The functions *)
(* that start one another (the head is given away, the next request gets it, *)
(* the bus is offered to it ...) leave the calls still to be made in the     *)
(* list calls, first one first, and Run makes them; once the program has     *)
(* stopped (fault) nothing happens any more.                                 *)
(*                                                                         *)
(* A message to the host waits in buswait: it asks for the bus (ask), or is *)
(* on its way (transit).  Its answer comes after it has arrived.            *)
(***************************************************************************)
EXTENDS DiskBuffer

NoMessage == [kind |-> "none"]
Message(kind, r) == [kind |-> kind, r |-> r]

\* disk_send_event_up_path.  Two messages asking for the bus are reported as an
\* error; what the bus makes of them is not modelled.
SendUp(d, kind, r) ==
    LET m == [kind |-> kind, r |-> r, st |-> IF d.busowned THEN "transit" ELSE "ask"]
    IN IF Faulty(d) THEN d
       ELSE IF ~d.busowned /\ d.buswait # <<>> THEN Fault(d, "multiple bus requestors")
       ELSE [d EXCEPT !.buswait = <<m>> \o @]

Answered(d, kind, r) == [d EXCEPT !.answer = Message(kind, r)]

\* The calls of the functions that start one another, and what a function still
\* has to do after one of them.
Then(d, calls) == IF Faulty(d) THEN d ELSE [d EXCEPT !.calls = calls \o @]
CallCheckHda(r, okbus) == [call |-> "disk_check_hda", r |-> r, okbus |-> okbus]
CallCheckBus(r) == [call |-> "disk_check_bus", r |-> r]
CallReleaseHda(r) == [call |-> "disk_release_hda", r |-> r]
CallCheckPrefetchSwap == [call |-> "disk_check_prefetch_swap"]
CallActivate(r, setseg, okbus) == [call |-> "disk_activate", r |-> r, setseg |-> setseg, okbus |-> okbus]
CallSendUp(kind, r) == [call |-> "disk_send_event_up_path", kind |-> kind, r |-> r]

----------------------------------------------------------------------------
\* disk_find_new_seg_owner: a reader that had the head, else a write that is
\* appended, else the request at the head.
FindNewOwner(d, s) ==
    LET g == d.seg[s]
        hadhead == SelectSeq(g.reqs, LAMBDA t : /\ t # d.effectivehda /\ d.req[t].hdaowned
                                                /\ d.req[t].iol /\ Reads(t))
        appended == SelectSeq(g.reqs, LAMBDA t : d.req[t].hittype = "append")
        h == d.effectivehda
        athead == IF h # none /\ d.req[h].seg = s THEN <<h>> ELSE <<>>
        heirs == hadhead \o appended \o athead
    IN IF Faulty(d) THEN d
       ELSE IF g.recyclereq # none THEN Fault(d, "recycled segment given an owner")
       ELSE IF RealOwner(d, s) # none \/ heirs = <<>> THEN d
       ELSE AttemptOwnership(d, Head(heirs))

\* A request leaves its segment, which goes to the request that recycles it or
\* to another request in it.  The last reader leaves it empty if there is no cache.
PassOn(d, s, last) ==
    LET heir == d.seg[s].recyclereq
        used == d.seg[s].reqs # <<>>
    IN IF Faulty(d) THEN d
       ELSE IF heir # none
       THEN IF used THEN Fault(d, "recycled segment still in use")
            ELSE [AttemptOwnership(SetSegment(d, heir), heir) EXCEPT !.seg[s].recyclereq = none]
       ELSE IF used THEN FindNewOwner(d, s)
       ELSE [d EXCEPT !.seg[s].state = IF last THEN "empty" ELSE @]
LeaveSegment(d, r, last) ==
    IF Faulty(d) THEN d ELSE PassOn(Free(RemoveFromSeg(d, r), r), d.req[r].seg, last)

----------------------------------------------------------------------------
\* disk_request_needs_bus: the message that would be sent, and the state without
\* the transfer that was held back (outwait) if it is that one.  A segment in use
\* is never longer than its size: it is wrapped whenever it grows.
HasForHost(d, r, watermark) ==
    LET q == d.req[r]
        g == d.seg[q.seg]
    IN /\ g.endblkno > q.outblkno /\ g.startblkno <= q.outblkno
       /\ watermark => g.endblkno >= End(r) \/ g.endblkno - q.outblkno >= q.watermark

FirstTransfer(d, r) == d.req[r].outblkno = blkno(r) /\ d.req[r].hittype # "append"
Owner(d, r) == IF RealOwner(d, d.req[r].seg) = none THEN r ELSE RealOwner(d, d.req[r].seg)

WantsFromHost(d, r, watermark) ==
    LET q == d.req[r]
        g == d.seg[q.seg]
    IN \/ q.inblkno >= End(r)
       \/ FirstTransfer(d, r)
       \/ /\ g.endblkno = q.outblkno /\ g.endblkno < End(r)
          /\ g.endblkno - d.req[Owner(d, r)].inblkno < config.segsize
          /\ watermark => g.endblkno - q.inblkno <= q.watermark

NeedsBus(d, r, watermark) ==
    LET q == d.req[r]
        nothing == [msg |-> NoMessage, d |-> d]
        message == [msg |-> IF d.outwait # NoMessage THEN d.outwait ELSE Message("reconnect", r),
                    d |-> [d EXCEPT !.outwait = NoMessage]]
    IN IF Faulty(d) \/ (d.outstate # "idle" /\ d.outwait = NoMessage) THEN nothing
       ELSE IF fixed THEN IF r = d.currenthda /\ q.ready THEN message ELSE nothing
       ELSE IF q.seg = none \/ ~q.iol \/ q.sent THEN nothing
       ELSE IF d.seg[q.seg].recyclereq = r THEN nothing
       ELSE IF Reads(r) /\ q.outblkno >= End(r)
       THEN [msg |-> NoMessage, d |-> Fault(d, "read complete already")]
       ELSE IF IF Reads(r) THEN HasForHost(d, r, watermark) ELSE WantsFromHost(d, r, watermark)
       THEN message ELSE nothing

----------------------------------------------------------------------------
\* disk_select_bus_request: the request on the list that has most to gain, the
\* oldest of equals.  A candidate is what one request of the list offers: its
\* worth (none when it needs no bus), its message, the state after it was asked,
\* and whether it holds a segment on trial only (set).
Candidate(worth, need, set) == [worth |-> worth, msg |-> need.msg, d |-> need.d, set |-> set]
NoCandidate(d) == Candidate(-100, [msg |-> NoMessage, d |-> d], FALSE)
Needing(worth, need) ==
    IF need.msg = NoMessage THEN NoCandidate(need.d) ELSE Candidate(worth, need, FALSE)

\* A segment is tried for a request that has none.
Tried(x, r, worth, need) ==
    LET value == IF Reads(r) /\ x.req[r].hittype = "whole" THEN worth + 1 ELSE worth
    IN IF need.msg = NoMessage THEN NoCandidate(GiveBack(need.d, r)) ELSE Candidate(value, need, TRUE)
TryChosen(x, r, worth) ==
    IF Faulty(x) \/ x.req[r].seg = none THEN NoCandidate(x)
    ELSE IF Reads(r) /\ x.req[r].hittype = "nomatch" THEN NoCandidate([x EXCEPT !.req[r].seg = none])
    ELSE Tried(x, r, worth, NeedsBus([x EXCEPT !.req[r].watermark = Watermark(r)], r, TRUE))
OnTrial(d, r, worth) == TryChosen(SelectSegment(d, r, FALSE), r, worth)

\* A read that is no longer a hit leaves its segment if it has not begun.
NoLongerHit(some, r) == IF some.msg = NoMessage THEN RemoveFromSeg(some.d, r) ELSE some.d
Kept(d, r, need) ==
    IF need.msg # NoMessage
    THEN Candidate(IF d.seg[d.req[r].seg].endblkno >= End(r) THEN 6 ELSE 5, need, FALSE)
    ELSE IF d.req[r].outblkno = blkno(r) THEN NoCandidate(NoLongerHit(NeedsBus(d, r, FALSE), r))
    ELSE NoCandidate(need.d)
TryAgain(c, r, best) ==
    IF c.d.req[r].seg # none \/ best > 4 \/ Faulty(c.d) THEN c ELSE OnTrial(c.d, r, 3)
SneakyRead(d, r, best) ==
    TryAgain(IF d.req[r].seg = none THEN NoCandidate(d) ELSE Kept(d, r, NeedsBus(d, r, TRUE)), r, best)

Prebuffered(d, r, best) ==
    LET s == d.req[r].seg
        Serves(h) == h # none /\ d.req[h].seg = s
        worth == IF Serves(d.effectivehda) THEN 2 ELSE IF Serves(d.currenthda) THEN 1 ELSE 0
    IN IF s # none THEN Needing(worth, NeedsBus(d, r, TRUE))
       ELSE IF best <= -1 THEN OnTrial(d, r, -1)
       ELSE NoCandidate(d)

Offer(d, r, best) ==
    LET q == d.req[r]
        worth == IF ~q.hdaowned THEN 7
                 ELSE IF r = d.effectivehda THEN 9 ELSE IF r = d.currenthda THEN 8 ELSE 10
    IN IF ~q.iol THEN NoCandidate(Fault(d, "prefetch in the bus queue"))
       ELSE IF q.seg # none /\ d.seg[q.seg].recyclereq = r THEN NoCandidate(d)
       ELSE IF q.hdaowned \/ (best <= 7 /\ config.fastwrites = 1 /\ q.hittype = "append")
       THEN Needing(worth, NeedsBus(d, r, TRUE))
       ELSE IF best <= 6 /\ config.sneakyintermediatereadhits /\ Reads(r) THEN SneakyRead(d, r, best)
       ELSE IF best <= 2 /\ config.writeprebuffering /\ ~Reads(r) THEN Prebuffered(d, r, best)
       ELSE NoCandidate(d)

WeighOffer(a, r, c) ==
    IF Faulty(a.d) \/ Faulty(c.d) THEN [a EXCEPT !.d = c.d]
    ELSE IF c.worth >= a.best
    THEN [d |-> IF a.set THEN GiveBack(c.d, a.r) ELSE c.d,
          best |-> c.worth, set |-> c.set, r |-> r, msg |-> c.msg]
    ELSE [a EXCEPT !.d = IF c.set THEN GiveBack(c.d, r) ELSE c.d]
RECURSIVE BestOffer(_, _)
BestOffer(a, list) ==
    IF list = <<>> THEN a
    ELSE BestOffer(WeighOffer(a, Head(list), Offer(a.d, Head(list), a.best)), Tail(list))

OnceChosen(a) == [r |-> a.r, msg |-> a.msg, d |-> IF a.set THEN SetSegment(a.d, a.r) ELSE a.d]
SelectBus(d) ==
    OnceChosen(BestOffer([d |-> d, best |-> -99, set |-> FALSE, r |-> none, msg |-> NoMessage], d.pendxfer))

----------------------------------------------------------------------------
\* disk_check_bus: the request on the bus goes on, or another one gets it.
\* ForBus(d, r): which request, with which message.
ForBus(d, r) ==
    LET front == IF d.effectivebus # none THEN d.effectivebus ELSE d.currentbus
        asks == IF r # none THEN r ELSE front
        For(need) == [r |-> IF need.msg = NoMessage THEN none ELSE asks, msg |-> need.msg, d |-> need.d]
    IN IF r # none /\ front \notin {none, r} THEN [r |-> none, msg |-> NoMessage, d |-> d]
       ELSE IF asks = none THEN SelectBus(d)
       ELSE For(NeedsBus(d, asks, TRUE))

\* The request chosen for the bus is activated, and reconnects.
Contact(d, r, msg) ==
    LET dequeued == IF r \in {d.currentbus, d.effectivebus} THEN d
                    ELSE IF Contains(d.pendxfer, r)
                    THEN [d EXCEPT !.pendxfer = SelectSeq(@, LAMBDA t : t # r)]
                    ELSE Fault(d, "request not in the bus queue")
    IN Then([dequeued EXCEPT !.currentbus = r, !.effectivebus = r],
            <<CallActivate(r, FALSE, FALSE), [call |-> "reconnect", r |-> r, msg |-> msg]>>)

Reconnect(d, r, msg) ==
    LET s == d.req[r].seg
    IN IF s = none /\ ~fixed THEN Fault(d, "null segment")
       ELSE SendUp([d EXCEPT
                     !.extradisc_diskreq = IF @ = r THEN none ELSE @,
                     !.outstate = "wait",
                     !.seg = [t \in Segs |-> IF t = s /\ ~fixed THEN [@[t] EXCEPT !.outstate = "contacting"]
                                             ELSE @[t]]], msg.kind, msg.r)

Go(next) == IF next.r = none \/ Faulty(next.d) THEN next.d ELSE Contact(next.d, next.r, next.msg)
CheckBus(d, r) == IF d.buswait # <<>> THEN d ELSE Go(ForBus(d, r))

\* disk_check_prefetch_swap: a request that waits may take over from a prefetch.
MaySwap(next) ==
    IF next.r = none THEN next.d
    ELSE Then(IF next.d.req[next.r].seg = none THEN SelectSegment(next.d, next.r, FALSE) ELSE next.d,
              <<CallActivate(next.r, next.d.req[next.r].seg = none, TRUE)>>)
CheckPrefetchSwap(d) ==
    LET s == IF d.effectivehda = none THEN none ELSE d.req[d.effectivehda].seg
    IN IF s = none THEN Fault(d, "no prefetch to swap")
       ELSE IF ~d.seg[s].access.bg \/ ~d.seg[s].access.read THEN Fault(d, "not a pure prefetch")
       ELSE MaySwap(ShowNextRequest(d))

----------------------------------------------------------------------------
Unfinished(d, s, r) ==
    SelectInSeq(d.seg[s].reqs, LAMBDA t : t # r /\ d.req[t].iol /\ ~Reads(t) /\ d.req[t].inblkno < End(t))

WriteReleased_Counted(d, s, r, at) ==
    IF at # 0 THEN [d EXCEPT !.seg[s].state = "dirty"]
    ELSE [d EXCEPT !.seg[s].state = "clean"]
WriteReleased(d, s, r, at) ==
    LET seen == IF at = 0 THEN d.seg[s].reqs ELSE SubSeq(d.seg[s].reqs, 1, at)
        clean == Len(d.seg[s].reqs) > 1 \/ (config.enablecache /\ config.readhitsonwritedata)
    IN IF \E i \in DOMAIN seen : seen[i] # r /\ ~d.req[seen[i]].iol
       THEN Fault(d, "prefetch among writes")
       ELSE IF at # 0 THEN [d EXCEPT !.seg[s].state = "dirty"]
       ELSE IF d.numdirty - 1 \notin 0..config.numwritesegs THEN Fault(d, "count of dirty segments")
       ELSE [d EXCEPT !.seg[s].state = IF clean THEN "clean" ELSE "empty", !.numdirty = @ - 1]

ReadReleased(d, s, r) ==
    LET kept == config.enablecache \/ Len(d.seg[s].reqs) > 1 \/ (d.req[r].iol /\ ~d.req[r].sent)
    IN [d EXCEPT !.seg[s].state = IF kept THEN "clean" ELSE "empty"]

NextOfWrite(d, s, r, at) ==
    IF at = 0 \/ config.fastwrites # 1 THEN none
    ELSE IF d.req[d.seg[s].reqs[at]].hittype = "append" /\ blkno(d.seg[s].reqs[at]) = End(r)
    THEN d.seg[s].reqs[at] ELSE none

\* The head is without a request, and the next one is looked for.
Headless(d, s, next) ==
    IF ~Faulty(d) /\ d.seg[s].access.type # "nil" THEN Fault(d, "head released during an access")
    ELSE Then([d EXCEPT !.currenthda = IF @ = d.effectivehda THEN none ELSE @, !.effectivehda = none],
              <<CallCheckHda(next, TRUE)>>)

MayPreseek(q) == config.preseeking = 2 \/ (config.preseeking = 1 /\ q.sent)

ReleaseHda(d, r) ==
    LET s == d.req[r].seg
        q == d.req[r]
        writes == q.iol /\ ~Reads(r)
        frees == ~q.iol \/ (writes /\ q.received)
        at == Unfinished(d, s, r)
        released == IF writes THEN WriteReleased(d, s, r, at) ELSE ReadReleased(d, s, r)
        next == IF frees /\ d.seg[s].recyclereq # none THEN d.seg[s].recyclereq
                ELSE IF writes THEN NextOfWrite(d, s, r, at) ELSE none
    IN IF r # d.effectivehda \/ s = none THEN Fault(d, "head released by another request")
       ELSE IF ~q.iol /\ ~q.received THEN Fault(d, "prefetch before its completion")
       ELSE IF ~(frees \/ MayPreseek(q)) THEN d
       ELSE Headless(IF frees THEN LeaveSegment(released, r, FALSE) ELSE released, s, next)

----------------------------------------------------------------------------
\* disk_initiate_seek: a read-ahead does not leave the track or the cylinder it
\* is told to stay on.
InitiateSeek(d, s) ==
    LET a == d.seg[s].access
        t == Track(a.blkno)
        leaves == \/ config.contread = "cyl" /\ Cylinder(t) # Cylinder(d.track)
                  \/ config.contread = "track" /\ t # d.track
        stays == a.bg /\ a.read /\ leaves
    IN IF a.blkno \notin Blocks
       THEN [ok |-> FALSE, d |-> Fault(d, "seek beyond the end of the disk")]
       ELSE [ok |-> ~stays, d |-> [d EXCEPT !.seg[s].access.type = IF stays THEN "nil" ELSE "seek"]]

\* The request at the head starts its seek, or gives the head away at once.
SeekOrRelease(go, r) == IF go.ok THEN go.d ELSE Then(go.d, <<CallReleaseHda(r)>>)

\* disk_check_hda.  FindForHda: the request at hand if it may have the head, or
\* the next one of the queue, gets a segment and the head.
Recycles(spare, r) ==
    IF spare.seg = none THEN spare.d
    ELSE [spare.d EXCEPT !.req[r].seg = spare.seg, !.seg[spare.seg].recyclereq = r]
Placed(x, r) ==
    IF Faulty(x) THEN x
    ELSE IF x.req[r].seg # none THEN AttemptOwnership(SetSegment(x, r), r)
    ELSE Recycles(RecyclableSegment(x, Reads(r)), r)
AtHead(x, r) ==
    IF Faulty(x) \/ x.req[r].seg = none THEN x
    ELSE [GetSpecific(x, r) EXCEPT !.currenthda = r, !.effectivehda = r, !.req[r].hdaowned = TRUE]
GivenHda(next) ==
    LET r == next.r
        d == next.d
        s == d.req[r].seg
    IN IF Faulty(d) \/ r = none THEN d
       ELSE IF d.req[r].hdaowned THEN Fault(d, "head owned already")
       ELSE AtHead(IF s = none THEN Placed(SelectSegment(d, r, FALSE), r)
                   ELSE IF d.seg[s].recyclereq # r THEN OwnIfNot(d, r) ELSE d, r)

OrNext(e, r) == IF e.ok THEN [r |-> r, d |-> e.d] ELSE ShowNextRequest(e.d)
FindForHda(d, r) ==
    IF d.currenthda # none
    THEN IF r \notin {none, d.currenthda} THEN Fault(d, "head held by another request")
         ELSE [d EXCEPT !.effectivehda = d.currenthda]
    ELSE GivenHda(OrNext(IF r # none /\ d.req[r].iol THEN Enabled(d, r) ELSE [ok |-> r # none, d |-> d], r))

\* What the head has to do for its request: seek, or give the head back at once.
\* The operators below return the state with the segment prepared, and that.
Idle(d, s) == d.seg[s].access.type = "nil"

StartRead(d, r) ==
    LET s == d.req[r].seg
        g == d.seg[s]
        recycles == g.recyclereq # none
        missing == g.endblkno < End(r) \/ g.startblkno > d.req[r].outblkno
        Start(ahead, more) ==
            LET bg == ~recycles /\ ~missing /\ more
            IN [d |-> [ahead EXCEPT
                        !.immed = config.immedread,
                        !.seg[s].state = "reading",
                        !.seg[s].access.read = TRUE, !.seg[s].access.bg = bg,
                        !.seg[s].access.blkno = IF recycles THEN d.req[r].outblkno
                                                ELSE IF Idle(d, s) THEN g.endblkno ELSE @],
                seek |-> Idle(d, s) /\ (recycles \/ missing \/ (bg /\ config.readaheadifidle)),
                release |-> Idle(d, s) /\ ~recycles /\ ~missing /\ ~more]
        Extended(x) ==
            IF Faulty(x) THEN [d |-> x, seek |-> FALSE, release |-> FALSE]
            ELSE Start(x, g.endblkno < Larger(x.seg[s].maxra, MaxReadahead(d, s, r)))
    IN Extended(IF recycles THEN d ELSE ExtendReadahead(d, s, r))

StartWrite(d, r) ==
    LET s == d.req[r].seg
        fresh == d.seg[s].state \notin {"writing", "dirty"}
        todo == d.req[r].inblkno < End(r)
        x == [d EXCEPT !.immed = config.immedwrite,
                       !.numdirty = IF fresh THEN @ + 1 ELSE @,
                       !.seg[s].state = "writing",
                       !.seg[s].access.read = FALSE, !.seg[s].access.bg = d.req[r].received,
                       !.seg[s].access.blkno = d.req[r].inblkno]
    IN [d |-> IF ~Idle(d, s) THEN Fault(d, "write over an access under way")
              ELSE IF fresh /\ d.numdirty >= config.numwritesegs THEN Fault(d, "count of dirty segments")
              ELSE x,
        seek |-> todo, release |-> ~todo]

StartPrefetch(d, r) ==
    LET s == d.req[r].seg
        g == d.seg[s]
        x == [d EXCEPT !.seg[s].state = "reading"]
    IN IF g.endblkno >= g.maxra THEN [d |-> x, seek |-> FALSE, release |-> TRUE]
       ELSE [d |-> [x EXCEPT !.immed = config.immedread,
                             !.seg[s].access.read = TRUE, !.seg[s].access.bg = TRUE,
                             !.seg[s].access.blkno = IF Idle(d, s) THEN g.endblkno ELSE @],
             seek |-> Idle(d, s), release |-> FALSE]

Start(d, r) ==
    IF ~d.req[r].iol THEN StartPrefetch(d, r) ELSE IF Reads(r) THEN StartRead(d, r) ELSE StartWrite(d, r)

\* The bus is offered to the request before the head moves; a prefetch may then
\* be swapped for another request.
HeadMoves(start, h, s, okbus) ==
    Then(start.d,
         (IF start.d.req[h].iol /\ okbus /\ start.d.extradisc_diskreq # h THEN <<CallCheckBus(h)>> ELSE <<>>)
         \o <<[call |-> "move_head", r |-> h, seg |-> s, seek |-> start.seek, release |-> start.release]>>
         \o (IF start.release THEN <<>> ELSE <<[call |-> "swap_if_prefetching", seg |-> s]>>))
WithHead(d, okbus) ==
    LET h == d.effectivehda
    IN IF Faulty(d) \/ h = none THEN d ELSE HeadMoves(Start(d, h), h, d.req[h].seg, okbus)
CheckHda(d, r, okbus) ==
    IF fixed \/ d.effectivehda # none THEN d ELSE WithHead(FindForHda(d, r), okbus)

MoveHead(d, f) ==
    IF f.seek THEN SeekOrRelease(InitiateSeek(d, f.seg), f.r)
    ELSE IF f.release THEN Then(d, <<CallReleaseHda(f.r)>>)
    ELSE d

SwapIfPrefetching(d, s) ==
    IF d.seg[s].state = "reading" /\ d.seg[s].access.bg THEN Then(d, <<CallCheckPrefetchSwap>>) ELSE d

----------------------------------------------------------------------------
\* disk_buffer_stop_access: the prefetch ends here.
NewOwnerIfUsed(d, s) == IF Faulty(d) \/ d.seg[s].reqs = <<>> THEN d ELSE FindNewOwner(d, s)
StopAccess(d) ==
    LET h == d.effectivehda
        s == d.req[h].seg
        q == d.req[h]
        kept == ~q.received \/ config.enablecache \/ Len(d.seg[s].reqs) > 1
        stopped == [d EXCEPT !.seg[s].access.type = "nil",
                             !.seg[s].state = IF kept THEN "clean" ELSE "empty"]
    IN IF h = none \/ h # d.currenthda THEN Fault(d, "no access to stop")
       ELSE IF ~(d.seg[s].access.bg /\ d.seg[s].access.read) THEN Fault(d, "not a prefetch to stop")
       ELSE IF q.received /\ q.iol THEN Fault(d, "prefetch with a request")
       ELSE [(IF q.received THEN NewOwnerIfUsed(Free(RemoveFromSeg(stopped, h), h), s) ELSE stopped)
             EXCEPT !.currenthda = none, !.effectivehda = none]

\* disk_buffer_attempt_access_swap: a read hit takes over a prefetch behind it.
AccessSwap(d, r) ==
    LET h == d.effectivehda
        s == d.req[h].seg
        q == d.req[h]
        forward == h = d.currenthda /\ d.seg[s].access.bg /\ (~q.iol \/ blkno(h) < blkno(r))
        Shared(x) ==
            [x EXCEPT !.seg[s].access.read = Reads(r),
                      !.seg[s].access.bg = x.seg[s].endblkno >= End(r) /\ x.seg[s].endblkno < x.seg[s].maxra]
    IN IF ~d.seg[s].access.read THEN Fault(d, "swap of a write")
       ELSE IF ~forward THEN d
       ELSE IF q.received = q.iol THEN Fault(d, "prefetch with a request, or a read without")
       ELSE [(IF q.received THEN Free(RemoveFromSeg(d, h), h) ELSE Shared(ExtendReadahead(d, s, r)))
             EXCEPT !.currenthda = none, !.effectivehda = none]

\* What disk_activate_read and disk_activate_write have in common: the segment is
\* set, or given back when the head could not be had, and the head is asked for.
AskForHda(x, r, okbus) ==
    IF Faulty(x) \/ x.req[r].hdaowned \/ x.req[r].hittype = "collision" THEN x
    ELSE Then(x, <<CallCheckHda(r, okbus)>>)
OwnIfSet(x, r) == IF Faulty(x) \/ x.req[r].seg = none THEN x ELSE OwnIfNot(x, r)
Obtain(d, r, setseg, okbus) ==
    LET s == d.req[r].seg
        seated == IF s = none \/ ~setseg THEN d
                  ELSE IF d.effectivehda = none THEN SetSegment(d, r)
                  ELSE GiveBack([d EXCEPT !.seg[s].recyclereq = IF @ = r THEN none ELSE @], r)
    IN IF Faulty(d) THEN d ELSE AskForHda(OwnIfSet(seated, r), r, okbus)

FixedAccess(d, r) ==
    [d EXCEPT !.currenthda = r, !.effectivehda = r, !.currentbus = r, !.timers = @ \union {r}]

\* Another request has the head, and this one may try to take it.
Rivals(d, r) == ~d.req[r].hdaowned /\ d.effectivehda \notin {none, r}
Elsewhere(x, r) == x.req[r].seg # x.req[x.effectivehda].seg

\* disk_activate_read
ReadTakesHead(stop, r) ==
    IF Elsewhere(stop.d, r) \/ stop.d.req[r].hittype = "nomatch" THEN StopAccess(stop.d)
    ELSE AccessSwap(stop.d, r)

\* disk_activate_write
WriteTakesHead(stop, r) ==
    IF Elsewhere(stop.d, r) \/ stop.d.req[r].hittype # "append" THEN StopAccess(stop.d) ELSE stop.d

IfStopped(stop, r) ==
    IF ~stop.ok \/ Faulty(stop.d) THEN stop.d
    ELSE IF Reads(r) THEN ReadTakesHead(stop, r) ELSE WriteTakesHead(stop, r)
TakesHead(d, r) ==
    LET s == d.req[r].seg
        tries == /\ d.req[r].hittype # "collision"
                 /\ s = none \/ d.seg[s].recyclereq = r \/ d.seg[s].state # "dirty"
    IN IF Rivals(d, r) /\ (Reads(r) => tries) THEN IfStopped(Stopable(d, r), r) ELSE d

Activate(d, r, setseg, okbus) ==
    IF fixed /\ d.currenthda = none THEN FixedAccess(d, r)
    ELSE IF fixed /\ Reads(r) THEN d
    ELSE Obtain(TakesHead(d, r), r, setseg, okbus)

----------------------------------------------------------------------------
\* Blocks cross the bus: what the host gets of a read is what the segment holds,
\* or garbage (-1) if the block is not in it.
Cross(d, r, n) ==
    LET q == d.req[r]
        s == q.seg
        moved == q.outblkno .. (q.outblkno + n - 1)
        held == d.seg[s].startblkno .. (d.seg[s].endblkno - 1)
    IN [d EXCEPT !.req[r].outblkno = @ + n,
                 !.req[r].got = IF ~Reads(r) THEN @
                                ELSE [b \in Blocks |-> IF b \notin moved THEN @[b]
                                                       ELSE IF b \in held THEN d.seg[s].data[b] ELSE -1],
                 !.seg[s].data = IF Reads(r) THEN @
                                 ELSE [b \in Blocks |-> IF b \in moved THEN r ELSE @[b]]]

\* disk_request_complete
ActivateIfAny(next) ==
    IF next.r = none THEN next.d ELSE Then(next.d, <<CallActivate(next.r, FALSE, TRUE)>>)
NextFixed(d, r) ==
    LET freed == [PhysicalAccessDone(GetSpecific(d, r), r)
                  EXCEPT !.currentbus = none, !.currenthda = none, !.effectivehda = none]
    IN IF d.req[r].hdaowned THEN Fault(d, "head owned on a disk of fixed access time")
       ELSE ActivateIfAny(ShowNextRequest(freed))

\* The data of a read whose last block has crossed, unless it is kept
Erased(d, r) ==
    LET s == d.req[r].seg
    IN IF config.keeprequestdata # -1 \/ Len(d.seg[s].reqs) > 1 THEN d
       ELSE IF d.req[r].outblkno > d.seg[s].endblkno THEN Fault(d, "data to erase not in the segment")
       ELSE [d EXCEPT !.seg[s].startblkno = d.req[r].outblkno]

ReadServed(d, r) ==
    Erased(PhysicalAccessDone(IF d.req[r].hdaowned THEN d ELSE GetSpecific(d, r), r), r)

LeaveHead(d, r) ==
    IF r \notin {d.effectivehda, d.currenthda} THEN d
    ELSE IF Idle(d, d.req[r].seg) THEN Then(d, <<CallReleaseHda(r)>>)
    ELSE IF Reads(r) /\ config.preseeking # 0 THEN Then(d, <<CallCheckPrefetchSwap>>) ELSE d

RequestComplete(d, r) ==
    LET sent == Then([d EXCEPT !.req[r].sent = TRUE], <<CallSendUp("completion", r)>>)
    IN IF r # d.effectivebus THEN Fault(d, "completion of another request")
       ELSE IF fixed THEN NextFixed(sent, r) ELSE LeaveHead(IF Reads(r) THEN ReadServed(sent, r) ELSE sent, r)

\* disk_buffer_transfer_size: n blocks may cross now; 0 the request is complete,
\* -1 the disk disconnects, -2 it holds the bus until there is something.
Sized(n, d) == [n |-> n, d |-> d]
Held(d, s, hold) ==
    IF hold \/ config.neverdisconnect
    THEN Sized(-2, [d EXCEPT !.seg[s].outstate = "transfering", !.seg[s].outbcount = 0])
    ELSE Sized(-1, [d EXCEPT !.seg[s].outstate = "idle"])
Crossing(d, s, n) ==
    Sized(n, [d EXCEPT !.seg[s].outstate = "transfering", !.seg[s].outbcount = n])

ReadSize(d, r) ==
    LET s == d.req[r].seg
        Size(x, out, end) ==
            IF out >= End(r) THEN Sized(0, [x EXCEPT !.seg[s].outstate = "idle"])
            ELSE IF end > out THEN Crossing(x, s, Smaller(end, End(r)) - out)
            ELSE Held(x, s, config.hold_bus_for_whole_read_xfer)
        Crossed(x) == Size(x, x.req[r].outblkno, x.seg[s].endblkno)
    IN Crossed(IF d.seg[s].outstate = "transfering" THEN Cross(d, r, d.seg[s].outbcount) ELSE d)

\* After a transfer the segment covers what has crossed, and the data held back
\* for a prepended write is there again.
Written(d, r, s) ==
    LET out == d.req[r].outblkno
        Checked(x) == IF x.req[Owner(d, r)].inblkno \notin x.seg[s].startblkno .. x.seg[s].endblkno
                      THEN Fault(x, "block to write not in the segment") ELSE x
        Rejoined(x) ==
            IF x.seg[s].hold_bcount = 0 \/ x.seg[s].endblkno # x.seg[s].hold_blkno THEN x
            ELSE IF out # End(r) THEN Fault(d, "held data reached too early")
            ELSE [x EXCEPT !.seg[s].endblkno = @ + x.seg[s].hold_bcount, !.seg[s].hold_bcount = 0]
        Wrapped(x) == Checked([x EXCEPT !.seg[s] = Wrap(@, @.endblkno)])
    IN Wrapped(Rejoined([d EXCEPT !.seg[s].startblkno = Smaller(@, blkno(r)),
                                  !.seg[s].endblkno = Larger(@, out)]))

WriteSize(d, r) ==
    LET s == d.req[r].seg
        transfered == d.seg[s].outstate = "transfering"
        Size(x, out, full) ==
            IF transfered /\ out >= End(r)
            THEN Sized(IF config.fastwrites = 0 THEN -1 ELSE 0, [x EXCEPT !.seg[s].outstate = "idle"])
            ELSE IF transfered /\ full > config.segsize
            THEN Sized(0, Fault(x, "buffer needs to wrap around"))
            ELSE IF (~x.req[r].segowned /\ x.seg[s].endblkno < out) \/ full >= config.segsize \/ out >= End(r)
            THEN Held(x, s, config.hold_bus_for_whole_write_xfer)
            ELSE Crossing(x, s, Smaller(config.segsize - full, End(r) - out))
        Crossed(x) == IF Faulty(x) THEN Sized(0, x)
                      ELSE Size(x, x.req[r].outblkno, x.req[r].outblkno - x.req[Owner(d, r)].inblkno)
    IN IF d.req[r].outblkno = End(r) /\ d.req[r].inblkno >= End(r)
       THEN Sized(0, [d EXCEPT !.seg[s].outstate = "idle"])
       ELSE Crossed(IF transfered THEN Written(Cross(d, r, d.seg[s].outbcount), r, s) ELSE d)

TransferSize(d, r) ==
    LET s == d.req[r].seg
        Size(x) == IF Reads(r) THEN ReadSize(x, r) ELSE WriteSize(x, r)
    IN IF fixed THEN Sized(IF d.req[r].ready THEN 0 ELSE -2, d)
       ELSE IF s = none
       THEN Sized(-2, IF config.neverdisconnect THEN d ELSE Fault(d, "transfer without a segment"))
       ELSE Size(UpdateInbuffer(d, s))

\* disk_reconnection_or_transfer_complete, for the event of request r
ReconnectionOrTransferComplete(d, r) ==
    LET c == IF d.effectivebus = none THEN d.currentbus ELSE d.effectivebus
        HeldBack(x) == IF x.outwait # NoMessage THEN Fault(x, "two transfers held back")
                       ELSE [x EXCEPT !.outwait = Message("data", r)]
        Goes(n, x) ==
            IF Faulty(x) THEN x
            ELSE CASE n = -2 -> HeldBack(x)
                   [] n = -1 -> [SendUp(x, "disconnect", r) EXCEPT !.outstate = "wait"]
                   [] n = 0 -> RequestComplete(x, c)
                   [] OTHER -> SendUp(x, "data", r)
        Sizes(size) == Goes(size.n, size.d)
    IN IF c = none THEN Fault(d, "no request on the bus")
       ELSE IF blkno(r) # blkno(c) THEN Fault(d, "event of another request")
       ELSE IF d.outstate \notin {"wait", "transfering"} THEN Fault(d, "not waiting to transfer")
       ELSE Sizes(TransferSize([d EXCEPT !.effectivebus = c, !.outstate = "transfering"], c))

----------------------------------------------------------------------------
\* disk_disconnect
Released_Keeps(d) == IF ~d.busowned THEN d ELSE [d EXCEPT !.busowned = FALSE]
Released(d) ==
    IF ~d.busowned THEN d
    ELSE [d EXCEPT !.busowned = FALSE, !.outstate = IF d.buswait # <<>> THEN "wait" ELSE "idle"]

Disconnect(d, r) ==
    LET c == d.effectivebus
        extra == d.req[c].extradisc /\ d.extradisc_diskreq = c
        Waits(x) == IF c = d.currentbus /\ extra THEN [x EXCEPT !.timers = @ \union {c}]
                    ELSE Then([x EXCEPT !.currentbus = IF @ = c THEN none ELSE @,
                                        !.pendxfer = <<c>> \o @], <<CallCheckBus(none)>>)
    IN IF c = none THEN Fault(d, "no request on the bus")
       ELSE IF blkno(r) # blkno(c) THEN Fault(d, "event of another request")
       ELSE Waits(Released([d EXCEPT !.effectivebus = none]))

\* disk_completion
ReadCompleted(d, r) ==
    LET s == d.req[r].seg
        x == [d EXCEPT !.req[r].iol = FALSE]
    IN IF r \notin {d.effectivehda, d.currenthda} THEN LeaveSegment(x, r, ~config.enablecache)
       ELSE Then(x, IF Idle(x, s) THEN <<CallReleaseHda(r)>> ELSE <<CallCheckPrefetchSwap>>)

WriteCompleted(d, r) ==
    LET s == d.req[r].seg
    IN IF d.req[r].inblkno < End(r) THEN [d EXCEPT !.seg[s].access.bg = @ \/ d.req[r].segowned]
       ELSE IF r \in {d.effectivehda, d.currenthda} THEN Then(d, <<CallReleaseHda(r)>>)
       ELSE LeaveSegment([d EXCEPT !.req[r].iol = FALSE], r, FALSE)

Completed(d, r) ==
    IF fixed THEN Free(d, r)
    ELSE IF Reads(r) THEN ReadCompleted(Then(d, <<CallCheckHda(none, TRUE), CallCheckBus(none)>>), r)
    ELSE WriteCompleted(Then(d, <<CallCheckHda(none, TRUE), CallCheckBus(none)>>), r)
Completion(d, r) ==
    LET c == d.effectivebus
    IN IF c = none THEN Fault(d, "no request on the bus")
       ELSE IF ~d.req[c].sent THEN Fault(d, "answer to a completion not sent")
       ELSE IF d.req[c].seg = none /\ ~fixed THEN Fault(d, "completion without a segment")
       ELSE IF blkno(r) # blkno(c) THEN Fault(d, "event of another request")
       ELSE Completed([d EXCEPT !.req[c].received = TRUE, !.effectivebus = none,
                                !.currentbus = IF @ = c THEN none ELSE @,
                                !.busowned = FALSE, !.outstate = IF d.busowned THEN "idle" ELSE @,
                                !.done = @ \union {c}], c)

----------------------------------------------------------------------------
\* disk_request_arrive: the segment is chosen, and the request either starts on
\* the bus at once or is queued and the disk disconnects.
MayStop(d, r) == IF d.effectivehda = none THEN [ok |-> TRUE, d |-> d] ELSE Stopable(d, r)

\* Enough of a partial hit is there to begin with.
EnoughReady(d, r) ==
    LET g == d.seg[d.req[r].seg]
        least == Smaller(Watermark(r), bcount(r))
    IN CASE d.req[r].hittype = "whole" -> TRUE
         [] d.req[r].hittype = "partial" ->
              \/ config.immedtrans_any_readhit
              \/ g.endblkno > blkno(r) /\ g.endblkno - blkno(r) >= least
         [] OTHER -> FALSE

\* Does the request start on the bus (ok), and with which message?
ReadStart(d, r) ==
    LET hit == d.req[r].hittype
        could == EnoughReady(d, r) /\ d.currentbus = none /\ ~fixed
        sneaks == \/ config.sneakyfullreadhits /\ hit = "whole"
                  \/ config.sneakypartialreadhits /\ hit = "partial"
    IN IF config.neverdisconnect \/ (could /\ sneaks) THEN "yes"
       ELSE IF could /\ d.pendxfer = <<>> THEN "if it can stop" ELSE "no"

WriteStart(d, r) ==
    LET could == d.req[r].seg # none /\ d.currentbus = none /\ ~fixed
    IN IF config.neverdisconnect \/ (could /\ config.writeprebuffering) THEN "yes"
       ELSE IF could /\ d.pendxfer = <<>> THEN "if it can stop" ELSE "no"

SeatedFor(d, r, outstate) ==
    IF d.req[r].seg = none THEN d ELSE SetSegment([d EXCEPT !.seg[d.req[r].seg].outstate = outstate], r)
Begins(d, r) ==
    LET extra == ~Reads(r) /\ d.req[r].extradisc /\ ~fixed
        seated == SeatedFor([d EXCEPT !.currentbus = r, !.extradisc_diskreq = IF extra THEN r ELSE @], r,
                            IF extra THEN "idle" ELSE "contacting")
    IN Then(SendUp(seated, IF extra THEN "disconnect" ELSE "ready", r), <<CallActivate(r, FALSE, TRUE)>>)
GoesAway(d, r) ==
    Then(SendUp([d EXCEPT !.req[r].extradisc = @ /\ Reads(r)], "disconnect", r), <<CallActivate(r, TRUE, TRUE)>>)

StartsOrNot(stop, r) == IF stop.ok THEN Begins(stop.d, r) ELSE GoesAway(stop.d, r)
Chosen(d, r) ==
    LET start == IF Reads(r) THEN ReadStart(d, r) ELSE WriteStart(d, r)
    IN IF Faulty(d) THEN d
       ELSE StartsOrNot(IF start = "if it can stop" THEN MayStop(d, r) ELSE [ok |-> start = "yes", d |-> d], r)

RequestArrive(d, r) ==
    LET x == [d EXCEPT !.busowned = TRUE, !.outstate = "wait", !.effectivebus = r,
                       !.req[r] = NewDiskreq(r, d.done), !.arrived = r,
                       !.queue = Append(@, [r |-> r, out |-> FALSE])]
    IN IF blkno(r) < 0 \/ bcount(r) <= 0 \/ End(r) > config.numblocks
       THEN Fault(d, "invalid set of blocks")
       ELSE Chosen(SelectSegment(x, r, TRUE), r)

----------------------------------------------------------------------------
\* disk_buffer_seekdone: the head has arrived; where it comes down on the track is
\* the platter's choice when any sector will do.
From(d, s) ==
    LET b == d.seg[s].access.blkno
        t == Track(b)
        anywhere == d.immed \/ (config.readanyfreeblocks /\ d.seg[s].access.read /\ b # TrackStart(t))
    IN IF anywhere THEN TrackStart(t) .. (TrackEnd(t) - 1) ELSE {b}

SeekDone(d, s, at) ==
    LET h == d.effectivehda
        t == Track(d.seg[s].access.blkno)
        x == [d EXCEPT !.track = t]
    IN IF h = none \/ d.req[h].seg # s THEN Fault(d, "seek done without the head")
       ELSE IF d.seg[s].outstate = "preempt"
       THEN Then([x EXCEPT !.seg[s].access.type = "nil"], <<CallReleaseHda(h)>>)
       ELSE [x EXCEPT !.immedstart = TrackEnd(t), !.immedend = TrackEnd(t),
                      !.seg[s].access.type = "sector", !.seg[s].access.blkno = at,
                      !.seg[s].access.count = 0]

\* disk_buffer_update_outbuffer: of the transfer under way, moved blocks have crossed.
UpdateOutbuffer(d, s, moved) ==
    LET c == d.effectivebus
        Checked(x) == IF /\ x.seg[s].state = "writing"
                         /\ x.req[Owner(d, c)].inblkno \notin x.seg[s].startblkno .. x.seg[s].endblkno
                      THEN Fault(x, "block to write not in the segment") ELSE x
        Grown(x, end) == Checked([x EXCEPT !.seg[s] = Wrap([@ EXCEPT !.endblkno = end, !.outbcount = @ - moved], end)])
        Crossed(x) == Grown(x, Larger(x.seg[s].endblkno, x.req[c].outblkno))
    IN IF c = none THEN d
       ELSE IF d.req[c].seg # s THEN Fault(d, "transfer of another segment")
       ELSE IF d.req[c].outblkno \notin Wanted(c) THEN Fault(d, "transfer beyond the request")
       ELSE IF d.outwait # NoMessage THEN d
       ELSE Crossed(Cross(d, c, moved))

----------------------------------------------------------------------------
\* The next sector, or the next track.
NextSector(d, r, s, first) ==
    LET a == d.seg[s].access
        end == TrackEnd(d.track)
        next == IF a.blkno + 1 = end THEN TrackStart(d.track) ELSE a.blkno + 1
        skips == /\ config.read_direct_to_buffer \/ ~a.read
                 /\ d.seg[s].recyclereq = r \/ ~BlockAvailable(d, s, a.blkno)
    IN IF first = end
       THEN SeekOrRelease(InitiateSeek([d EXCEPT !.seg[s].access.blkno = end], s), r)
       ELSE [d EXCEPT !.seg[s].access.blkno = next, !.seg[s].access.count = IF skips THEN 2 ELSE 1]

\* disk_buffer_request_complete, after each sector: is the access done (done), is
\* there enough in the segment, or little enough, to ask for the bus (watermark)?
Halt(d, r, s) == Then([d EXCEPT !.seg[s].access.type = "nil"], <<CallReleaseHda(r)>>)

AsksForBus(g, done, watermark) == ~g.access.bg /\ g.outstate = "idle" /\ (done \/ watermark)
BufferDone(d, r, s, first) ==
    LET g == d.seg[s]
        q == d.req[r]
        bg == g.access.bg
        reading == g.state = "reading"
        watermark == IF reading THEN g.endblkno - q.outblkno >= q.watermark
                     ELSE g.endblkno - q.inblkno <= q.watermark /\ g.endblkno < End(r)
        done == IF reading THEN g.endblkno >= IF bg THEN g.maxra ELSE End(r)
                ELSE IF bg THEN g.endblkno = q.inblkno ELSE q.inblkno >= End(r)
        woken == IF d.outwait = NoMessage THEN d
                 ELSE [Answered(d, "data", d.outwait.r) EXCEPT !.outwait = NoMessage]
        asks == AsksForBus(g, done, watermark)
    IN IF (bg /\ done /\ reading) \/ g.outstate = "preempt" THEN Halt(woken, r, s)
       ELSE Then(woken, (IF asks THEN <<CallCheckBus(r)>> ELSE <<>>)
                        \o <<[call |-> "sector_used", r |-> r, seg |-> s, first |-> first,
                              bg |-> bg, reading |-> reading, done |-> done]>>)

\* The bus has been offered.  A read that is done goes on reading ahead; a
\* prefetch that has its minimum, or begins, may be swapped for another request.
MayLeave(d, r) == d.req[r].received \/ MayPreseek(d.req[r])

Swapped(d, f) ==
    Then([d EXCEPT !.seg[f.seg].access.type = "nil"],
         <<CallCheckPrefetchSwap,
           [call |-> "prefetch_on", r |-> f.r, seg |-> f.seg, first |-> f.first,
            type |-> d.seg[f.seg].access.type]>>)
PrefetchOn(d, f) ==
    IF d.seg[f.seg].outstate = "preempt" \/ d.effectivehda # f.r THEN d
    ELSE NextSector([d EXCEPT !.seg[f.seg].access.type = f.type], f.r, f.seg, f.first)

SectorUsed(d, f) ==
    LET g == d.seg[f.seg]
        atmin == f.bg /\ f.reading /\ g.endblkno = g.minra /\ MayLeave(d, f.r)
        ahead == f.reading /\ ~f.bg /\ f.done /\ config.contread # "no" /\ g.endblkno < g.maxra
        becomes == [d EXCEPT !.seg[f.seg].access.bg = TRUE]
        tells == ~d.req[f.r].sent /\ g.outstate = "idle"
    IN IF atmin THEN Swapped(d, f)
       ELSE IF ahead THEN IF MayLeave(d, f.r) THEN Swapped(becomes, f) ELSE NextSector(becomes, f.r, f.seg, f.first)
       ELSE IF ~f.done THEN NextSector(d, f.r, f.seg, f.first)
       ELSE IF f.reading THEN Halt(d, f.r, f.seg)
       ELSE Then(PhysicalAccessDone([d EXCEPT !.seg[f.seg].access.type = "nil"], f.r),
                 (IF tells THEN <<CallCheckBus(f.r)>> ELSE <<>>)
                 \o <<[call |-> "halt", r |-> f.r, seg |-> f.seg]>>)

----------------------------------------------------------------------------
\* disk_buffer_sector_done.  The sector that has passed under the head is the one
\* before access.blkno; of the blocks looked for, first .. last - 1, those
\* taken ahead of their turn are immedstart .. immedend - 1.
Passed(d, s) ==
    LET b == d.seg[s].access.blkno
    IN IF b = TrackStart(d.track) THEN TrackEnd(d.track) - 1 ELSE b - 1

Sought(d, r, s) ==
    LET g == d.seg[s]
        end == TrackEnd(d.track)
    IN IF g.recyclereq = r THEN [first |-> d.req[r].inblkno, last |-> Smaller(End(r), end)]
       ELSE IF g.state # "reading" THEN [first |-> d.req[r].inblkno, last |-> Smaller(g.endblkno, end)]
       ELSE [first |-> g.endblkno, last |-> Smaller(IF g.access.bg THEN g.maxra ELSE End(r), end)]

\* Which part of the blocks sought the sector b is
Place(d, r, s, b, first, last) ==
    LET end == TrackEnd(d.track)
        reading == d.seg[s].state = "reading"
        between == b < last /\ b > first
        behind == b >= last /\ reading /\ config.contread # "no" /\ b < d.req[r].inblkno
    IN CASE b = first -> "first"
         [] b # first /\ b < d.seg[s].startblkno -> "before"
         [] b # first /\ b >= d.seg[s].startblkno ->
              IF d.immed /\ d.immedstart >= end THEN IF between \/ behind THEN "ahead" ELSE "none"
              ELSE IF b = d.immedend /\ (b < last \/ b < d.req[r].inblkno) THEN "next ahead"
              ELSE IF b > d.immedend /\ b < last THEN "ahead" ELSE "none"

\* The sector is taken: the state, and the first block still looked for.  Its data
\* goes to the segment, or from there to the medium.
Take(d, r, s, b, first, place) ==
    LET reading == d.seg[s].state = "reading"
        x == IF reading THEN [d EXCEPT !.seg[s].data[b] = d.media[b]] ELSE [d EXCEPT !.media[b] = d.seg[s].data[b]]
        past == TrackEnd(d.track) + 1
        From1(f, y) == [first |-> f, d |-> y]
    IN CASE place = "first" /\ b + 1 # d.immedstart -> From1(b + 1, x)
         [] place = "first" /\ b + 1 = d.immedstart ->
              From1(d.immedend, [x EXCEPT !.immedstart = past, !.immedend = past])
         [] place = "before" ->
              IF reading /\ config.readanyfreeblocks THEN From1(b + 1, [x EXCEPT !.seg[s].startblkno = b])
              ELSE From1(first, Fault(d, "block before the segment"))
         [] place = "ahead" -> From1(first, [x EXCEPT !.immedstart = b, !.immedend = b + 1])
         [] place = "next ahead" -> From1(first, [x EXCEPT !.immedend = b + 1, !.seg[s] = Wrap(@, b + 1)])
         [] place = "none" -> From1(first, d)

\* What has been taken is noted in the segment or in the write.
Noted(x, h, s, first) ==
    IF Faulty(x) THEN x
    ELSE BufferDone(IF x.seg[s].state = "reading" THEN [x EXCEPT !.seg[s] = Wrap([@ EXCEPT !.endblkno = first], first)]
                    ELSE [x EXCEPT !.req[h].inblkno = first, !.seg[s] = Wrap(@, @.endblkno)], h, s, first)
OnceTaken(take, h, s, moved) ==
    Noted(IF take.d.seg[s].outstate = "transfering" /\ ~Faulty(take.d) THEN UpdateOutbuffer(take.d, s, moved)
          ELSE take.d, h, s, take.first)

SectorDone(d, s, moved) ==
    LET h == d.effectivehda
        a == d.seg[s].access
        b == Passed(d, s)
        sought == Sought(d, h, s)
        missed == ~config.read_direct_to_buffer /\ a.read /\ ~BlockAvailable(d, s, b)
    IN IF h = none \/ d.req[h].seg # s THEN Fault(d, "sector done without the head")
       ELSE IF d.seg[s].recyclereq = h THEN NextSector(d, h, s, sought.first)
       ELSE OnceTaken(IF a.count # 1 \/ missed THEN [first |-> sought.first, d |-> d]
                      ELSE Take(d, h, s, b, sought.first, Place(d, h, s, b, sought.first, sought.last)),
                      h, s, moved)

----------------------------------------------------------------------------
\* The calls still to be made are made.
Perform(d, f) ==
    CASE f.call = "disk_check_hda" -> CheckHda(d, f.r, f.okbus)
      [] f.call = "disk_check_bus" -> CheckBus(d, f.r)
      [] f.call = "disk_release_hda" -> ReleaseHda(d, f.r)
      [] f.call = "disk_check_prefetch_swap" -> CheckPrefetchSwap(d)
      [] f.call = "disk_activate" -> Activate(d, f.r, f.setseg, f.okbus)
      [] f.call = "disk_send_event_up_path" -> [SendUp(d, f.kind, f.r) EXCEPT !.outstate = "wait"]
      [] f.call = "reconnect" -> Reconnect(d, f.r, f.msg)
      [] f.call = "move_head" -> MoveHead(d, f)
      [] f.call = "swap_if_prefetching" -> SwapIfPrefetching(d, f.seg)
      [] f.call = "sector_used" -> SectorUsed(d, f)
      [] f.call = "prefetch_on" -> PrefetchOn(d, f)
      [] f.call = "halt" -> Halt(d, f.r, f.seg)

RECURSIVE Run(_)
Run(d) ==
    IF Faulty(d) \/ d.calls = <<>> THEN [d EXCEPT !.calls = <<>>]
    ELSE Run(Perform([d EXCEPT !.calls = Tail(@)], Head(d.calls)))

----------------------------------------------------------------------------
\* disk_event_arrive.  The events the disk may be sent: the next request of the
\* host, whenever the bus is free (the host wins against a disk that asks for
\* it); the answer to a message or to a transfer; the end of a delay (timers);
\* and those of the medium.  at is the block a seek ends at, or how much of a
\* transfer under way has crossed when a sector passes: any part but the last
\* block, since then it is over.
Event(type, r, s, at) == [type |-> type, r |-> r, seg |-> s, at |-> at]

\* The access of a disk of fixed access time outlasts the messages under way.
Messages == disk.buswait # <<>> \/ disk.answer # NoMessage
MayArrive == disk.arrived + 1 \in Reqs /\ ~disk.busowned /\ disk.answer = NoMessage
AtMedium(type) == {s \in Segs : disk.seg[s].access.type = type}
Events ==
    (IF MayArrive THEN {Event("request", disk.arrived + 1, none, 0)} ELSE {})
    \cup (IF disk.answer # NoMessage THEN {Event(disk.answer.kind, disk.answer.r, none, 0)} ELSE {})
    \cup {Event("prepare", r, none, 0) : r \in {t \in disk.timers : fixed => ~Messages}}
    \cup UNION {{Event("seek", none, s, at) : at \in From(disk, s)} : s \in AtMedium("seek")}
    \cup UNION {{Event("sector", none, s, at) : at \in 0..(Larger(disk.seg[s].outbcount, 1) - 1)}
                   : s \in AtMedium("sector")}

\* disk_prepare_for_data_transfer
PrepareForDataTransfer(d, r) ==
    Then([d EXCEPT !.timers = @ \ {r}, !.req[r].ready = TRUE], <<CallCheckBus(r)>>)

Handled(d, e) ==
    CASE e.type = "request" -> RequestArrive(d, e.r)
      [] e.type = "disconnect" -> Disconnect([d EXCEPT !.answer = NoMessage], e.r)
      [] e.type = "completion" -> Completion([d EXCEPT !.answer = NoMessage], e.r)
      [] e.type = "prepare" -> PrepareForDataTransfer(d, e.r)
      [] e.type = "seek" -> SeekDone(d, e.seg, e.at)
      [] e.type = "sector" -> SectorDone(d, e.seg, e.at)
      [] OTHER -> ReconnectionOrTransferComplete([d EXCEPT !.answer = NoMessage], e.r)

EventArrive(e) == ~Faulty(disk) /\ disk' \in {Run(Handled(disk, e))} /\ UNCHANGED config

\* disk_bus_ownership_grant
Grant ==
    /\ ~Faulty(disk) /\ ~disk.busowned /\ disk.answer = NoMessage
    /\ \E i \in DOMAIN disk.buswait :
          /\ disk.buswait[i].st = "ask"
          /\ disk' = [disk EXCEPT !.busowned = TRUE, !.buswait[i].st = "transit"]
    /\ UNCHANGED config

\* disk_bus_delay_complete: the message arrives; it must be the first of the list.
Deliver ==
    /\ ~Faulty(disk) /\ disk.answer = NoMessage
    /\ \E i \in DOMAIN disk.buswait :
          /\ disk.buswait[i].st = "transit"
          /\ disk' = IF i = 1
                     THEN Answered([disk EXCEPT !.buswait = Tail(@)], disk.buswait[1].kind, disk.buswait[1].r)
                     ELSE Fault(disk, "message delivered out of turn")
    /\ UNCHANGED config

Next == Grant \/ Deliver \/ \E e \in Events : EventArrive(e)

vars == <<config, disk>>
Spec == Init /\ [][Next]_vars

\* The medium turns for ever, and the host, the bus and the delays go on for ever,
\* whatever the other does: weak fairness of each, with what enables it spelled out.
Turns(e) == e.type \in {"seek", "sector"}
MediumGoesOn == \E e \in Events : Turns(e) /\ EventArrive(e)
BusGoesOn == Grant \/ Deliver \/ \E e \in Events : ~Turns(e) /\ EventArrive(e)
MediumTurns == ~Faulty(disk) /\ \E e \in Events : Turns(e)
BusBusy ==
    /\ ~Faulty(disk)
    /\ \/ \E e \in Events : ~Turns(e)
       \/ /\ disk.answer = NoMessage
          /\ \E i \in DOMAIN disk.buswait : disk.buswait[i].st = "ask" => ~disk.busowned
FairSpec ==
    /\ Spec
    /\ []<>~MediumTurns \/ []<><<MediumGoesOn>>_vars
    /\ []<>~BusBusy \/ []<><<BusGoesOn>>_vars
=============================================================================
