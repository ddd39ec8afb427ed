------------------------------- MODULE Cache -------------------------------
(***************************************************************************)
(* The block cache of disksim_cache.c as the smart controller of            *)
(* disksim_ctlrsmart.c uses it.  A request locks its blocks one after the   *)
(* other, waits for the locks of others, for a line to replace, for the     *)
(* write-back of a dirty line and for the fill of what is missing, moves    *)
(* its data to or from the host, and releases.                             *)
(*                                                                         *)
(* Whoever frees a lock runs the requests that waited for it at once, inside *)
(* the call that frees it: stack holds the calls in progress, innermost     *)
(* first, and the next event is handled when it is empty.                   *)
(*                                                                         *)
(* The data of blocks is a ghost: the request that wrote them last (0 for   *)
(* what was on the disk, Unfilled while a fill is on its way).              *)
(***************************************************************************)
EXTENDS Integers, Sequences, FiniteSets, FiniteSetsExt, SequencesExt

CONSTANTS Reqs,
          Lines,        \* the lines of the cache
          Configs,      \* the cache parameters and requests considered
          None,
          MaxFlushes    \* bound on the background flushes

\* What cache_readparams accepts.  replacepolicy is "SLRU" or one of the others.
Configurable(c) ==
    /\ {c.linesize, c.atomsperbit, c.lockgran} \subseteq Nat
    /\ c.linesize >= 1 /\ c.atomsperbit >= 1 /\ c.lockgran >= 1
    /\ c.linesize % c.atomsperbit = 0 /\ c.linesize % c.lockgran = 0
    /\ c.numsegs \in 1..2
    /\ (Cardinality(Lines) * c.linesize) - (IF c.numsegs = 2 THEN c.maxactive ELSE 0) > 0
    /\ c.replacepolicy \in {"SLRU", "FIFO", "RANDOM", "LIFO"}
    /\ c.writescheme \in {"SYNCONLY", "THRU", "BACK"}
    /\ {c.prefetch, c.writefill} \subseteq {"NONE", "FRONT", "REST", "ALL"}
    /\ {c.sharedreadlocks, c.nondirty, c.line_by_line} \subseteq BOOLEAN
    /\ c.maxscatgath >= 0

ASSUME CacheAssumption ==
    /\ IsFiniteSet(Reqs) /\ IsFiniteSet(Lines) /\ MaxFlushes \in Nat
    /\ None \notin Reqs /\ None \notin Int
    /\ None \notin ({"request"} \X Reqs) \cup ({"flush"} \X Int) \cup (Lines \X Nat)
    /\ \A c \in Configs :
          /\ Configurable(c)
          /\ c.read \in [Reqs -> BOOLEAN] /\ c.blkno \in [Reqs -> Nat] /\ c.bcount \in [Reqs -> Nat \ {0}]
          /\ c.last \in Nat /\ \A r \in Reqs : c.blkno[r] + c.bcount[r] - 1 <= c.last

VARIABLES
    config,
    line,        \* [Lines -> [tag, valid, dirty, data]]
    lru,         \* [segments -> Seq(Lines)], the next to be replaced first
    freelist,    \* Seq(Lines)
    lock,        \* [Lines \X granules -> [w, rs, q, hollow]]
    linewaiters, \* Seq of requests that wait for a line
    desc,        \* [requests -> cache_event]
    iowait,      \* the IOwaiters list
    accesses,    \* the accesses at the disk
    stack,
    host,        \* [busy, waiters]: the transfer with the host
    arrived, done,
    fault,       \* an ASSERT fails, or a null pointer is followed
    flushes,     \* background flushes so far
    disk, latest \* ghosts: what the disk holds, and the last write of a block

vars == <<config, line, lru, freelist, lock, linewaiters, desc, iowait, accesses, stack,
          host, arrived, done, fault, flushes, disk, latest>>
storage == <<line, lru, freelist, lock, linewaiters>>
ghosts  == <<disk, latest>>

Blocks == 0..config.last
Unfilled == -1

linesize == config.linesize
lockgran == config.lockgran
atomsperbit == config.atomsperbit
Read(r)  == config.read[r]
Start(r) == config.blkno[r]
Size(r)  == config.bcount[r]
End(r)   == Start(r) + Size(r) - 1

Offsets  == 0..linesize - 1
Granules == 0..(linesize \div lockgran) - 1
Off(b)   == b % linesize

\* cache_find_atom: the line that holds block b, and the lock that covers it
find_atom(b) == {l \in Lines : line[l].tag = b \div linesize}
LineOf(b)    == CHOOSE l \in Lines : line[l].tag = b \div linesize
Lock(b)      == <<LineOf(b), Off(b) \div lockgran>>
Resident(b)  == find_atom(b) # {}
Valid(b)     == Off(b) \in line[LineOf(b)].valid

islocked(k)      == lock[k].w # None \/ lock[k].rs # {}
LineLocked(l)    == \E g \in Granules : islocked(<<l, g>>)

\* The owners of locks: requests, and the write-backs of dirty blocks
Owner(r)      == <<"request", r>>
FlushOwner(b) == <<"flush", b>>

Continue(r) == [call |-> "continue", req |-> r]
\* Mutant: the loop over the waiters starts as if one had been given the lock.
Free_Given(k) == [call |-> "lock_free", lock |-> k, writelocked |-> TRUE, loop |-> FALSE, stale |-> FALSE]

Free(k)     == [call |-> "lock_free", lock |-> k, writelocked |-> FALSE, loop |-> FALSE, stale |-> FALSE]
Release(mode, o, ks) == [call |-> "release", mode |-> mode, owner |-> o, locks |-> ks]
Call(name, r)        == [call |-> name, req |-> r]

Quiet == stack = <<>> /\ ~fault
On(name) == stack # <<>> /\ ~fault /\ stack[1].call = name
Pop == Tail(stack)

UpTo(s, e)   == [n \in 1..(IF s <= e THEN e - s + 1 ELSE 0) |-> s + n - 1]
DownTo(e, s) == Reverse(UpTo(s, e))
Locks(bs)    == [n \in DOMAIN bs |-> Lock(bs[n])]
------------------------------------------------------------------------------
\* cache_access: line l moves to the end of the next segment, and a segment that
\* is full passes its first line down.  Only the segmented LRU keeps the lists.
SegmentsOf(l)  == {s \in DOMAIN lru : l \in ToSet(lru[s])}
NextSegment(l) == IF SegmentsOf(l) = {} THEN 0 ELSE Min({Max(SegmentsOf(l)) + 1, config.numsegs - 1})
Moved(l) == [s \in DOMAIN lru |-> LET rest == SelectSeq(lru[s], LAMBDA x : x # l)
                                  IN IF s = NextSegment(l) THEN Append(rest, l) ELSE rest]

cache_access(l) ==
    LET s == NextSegment(l)
        m == Moved(l)
    IN IF config.replacepolicy # "SLRU" THEN lru
       ELSE IF s > 0 /\ Len(m[s]) = config.maxactive
         THEN [m EXCEPT ![s] = Tail(@), ![s - 1] = Append(@, Head(m[s]))]
         ELSE m

\* cache_initiate_dirty_block_flush: the runs of line l from offset o on that are
\* written back, each from a dirty block to a dirty block with no invalid or
\* write-locked block between.
Open(l, o)      == lock[<<l, o \div lockgran>>].w = None
DirtyOf(l, o)   == {d \in line[l].dirty : d >= o /\ Open(l, d)}
Joined(l, s, e) == \A d \in s..e : d \in line[l].valid /\ Open(l, d)
DirtyRuns(l, o) ==
    {run \in DirtyOf(l, o) \X DirtyOf(l, o) :
        /\ run[1] <= run[2] /\ Joined(l, run[1], run[2])
        /\ \A d \in DirtyOf(l, o) : /\ d < run[1] => ~Joined(l, d, run[2])
                                    /\ d > run[2] => ~Joined(l, run[1], d)}

BlocksOf(l, run) == <<line[l].tag * linesize + run[1], line[l].tag * linesize + run[2]>>

\* cache_issue_flushreq for each run: what is written back counts as clean at
\* once, and stays locked until it is.  The waiter w waits for all runs.
Flush(l, o, w) ==
    LET blocks == {BlocksOf(l, run) : run \in DirtyRuns(l, o)}
        Owners(k) == {FlushOwner(line[l].tag * linesize + run[1]) :
                        run \in {x \in DirtyRuns(l, o) : k[2] \in (x[1] \div lockgran)..(x[2] \div lockgran)}}
    IN /\ line' = [line EXCEPT ![l].dirty = @ \ DirtyOf(l, o)]
       /\ lock' = [k \in DOMAIN lock |->
             IF k[1] # l \/ Owners(k) = {} THEN lock[k]
             ELSE IF config.sharedreadlocks THEN [lock[k] EXCEPT !.rs = @ \cup Owners(k)]
             ELSE [lock[k] EXCEPT !.w = CHOOSE x \in Owners(k) : TRUE]]
       /\ accesses' = accesses \cup {[op |-> "write", from |-> f[1], to |-> f[2]] : f \in blocks}
       /\ iowait' = iowait \cup {[w EXCEPT !.blocks = blocks]}

\* cache_replace_waitforline: a request that has waited before goes to the front.
waitforline(r) ==
    /\ linewaiters' = IF desc[r].linelocked THEN <<r>> \o linewaiters ELSE Append(linewaiters, r)
    /\ desc' = [desc EXCEPT ![r].linelocked = TRUE, ![r].lockstop = desc[r].i, ![r].waiting = TRUE]
    /\ stack' = Pop
    /\ UNCHANGED <<line, lru, freelist, lock, iowait, accesses>>

\* Mutant: the valid bits of the line's last block group stay.
TakeLine_StaysValid(l, b) ==
    /\ line' = [line EXCEPT ![l].tag = b \div linesize, ![l].dirty = {}]
    /\ freelist' = SelectSeq(freelist, LAMBDA x : x # l)
    /\ lru' = [s \in DOMAIN lru |-> SelectSeq(lru[s], LAMBDA x : x # l)]
    /\ UNCHANGED <<lock, linewaiters, desc, iowait, accesses, stack>>

\* cache_allocate_space_continue: line l is to hold block b
TakeLine(l, b) ==
    /\ line' = [line EXCEPT ![l] = [tag |-> b \div linesize, valid |-> {}, dirty |-> {},
                                    data |-> [o \in Offsets |-> Unfilled]]]
    /\ freelist' = SelectSeq(freelist, LAMBDA x : x # l)
    /\ lru' = [s \in DOMAIN lru |-> SelectSeq(lru[s], LAMBDA x : x # l)]
    /\ UNCHANGED <<lock, linewaiters, desc, iowait, accesses, stack>>

\* cache_allocate_space, cache_get_free_atom and cache_replace: a free line, or
\* the first line of segment 0 that nobody has locked.  A dirty one is written
\* back first: the request waits for that, or, when it may (nondirty), looks for a
\* clean line behind it.
Allocate(r, b) ==
    LET open == SelectSeq(lru[0], LAMBDA l : ~LineLocked(l))
        l    == open[1]
    IN CASE freelist # <<>> -> TakeLine(freelist[1], b)
         [] freelist = <<>> /\ open = <<>> -> waitforline(r)
         [] freelist = <<>> /\ open # <<>> /\ line[l].dirty = {} -> TakeLine(l, b)
         [] OTHER ->
              /\ Flush(l, 0, [kind |-> IF config.nondirty THEN "SYNC" ELSE "ALLOCATE",
                              req |-> r, blocks |-> {}])
              /\ IF config.nondirty THEN UNCHANGED <<desc, stack>>
                 ELSE stack' = Pop /\ desc' = [desc EXCEPT ![r].lockstop = desc[r].i, ![r].waiting = TRUE]
              /\ UNCHANGED <<lru, freelist, linewaiters>>

\* cache_issue_fillreq: the blocks s..e are read, and what is missing of the line
\* before and behind them, up to a block that is valid or, at the border of a
\* lock, locked.
Missing(b) == ~Valid(b)
FrontOfLine(s) ==
    LET to == s - Off(s)
        ok(p) == \A b \in p..s - 1 : Missing(b) /\ (b % lockgran = lockgran - 1 => ~islocked(Lock(b)))
    IN CHOOSE p \in to..s : ok(p) /\ (p > to => ~ok(p - 1))
RestOfLine(e) ==
    LET to == e - Off(e) + linesize - 1
        ok(p) == \A b \in e + 1..p : Missing(b) /\ (b % lockgran = 0 => ~islocked(Lock(b)))
    IN CHOOSE p \in e..to : ok(p) /\ (p < to => ~ok(p + 1))

Fill(r, s, e, prefetch, d) ==
    LET from  == IF prefetch \in {"FRONT", "ALL"} THEN FrontOfLine(s) ELSE s
        to    == IF prefetch \in {"REST", "ALL"} THEN RestOfLine(e) ELSE e
        extra == (from..s - 1) \cup (e + 1..to)
        marked == extra \cup (IF Read(r) THEN s..e ELSE d.filling)
    IN /\ line' = [l \in Lines |-> [line[l] EXCEPT !.valid = @ \cup
                      {o \in Offsets : line[l].tag # None /\ (line[l].tag * linesize + o) \in marked}]]
       /\ lock' = [k \in DOMAIN lock |->
             IF \E b \in extra : k = Lock(b) THEN [lock[k] EXCEPT !.w = Owner(r)] ELSE lock[k]]
       /\ accesses' = accesses \cup {[op |-> "read", from |-> from, to |-> to]}
       /\ iowait' = iowait \cup {[kind |-> "EXTRA", req |-> r, blocks |-> {<<from, to>>}]}
       /\ desc' = [desc EXCEPT ![r] = [d EXCEPT !.validpoint = None, !.waiting = TRUE]]
       /\ stack' = Pop
       /\ UNCHANGED <<lru, freelist, linewaiters>>
------------------------------------------------------------------------------
\* cache_read_continue and cache_write_continue walk from block index i of the
\* request to the end of its line, rounded up to whole valid bits; j counts from i.
At(r)   == Start(r) + desc[r].i + desc[r].j
Rounded(n) == ((n + atomsperbit - 1) \div atomsperbit) * atomsperbit
Rest(b) == linesize - Off(b)
Stop(r) == Min({Rounded(Size(r) - desc[r].i), Rest(Start(r) + desc[r].i)})

Resume(d, at)  == [d EXCEPT !.i = at, !.j = 0, !.upgrade = None, !.curlock = 2, !.fresh = TRUE, !.got = FALSE, !.filling = {}]
FromStart(r)   == -(Start(r) % atomsperbit)
NextLine(r, d) == LET i == desc[r].i IN Resume(d, i + Rest(Start(r) + i))

WaitLock(r, k, type, from) ==
    /\ lock' = [lock EXCEPT ![k].q = Append(@, r)]
    /\ desc' = [desc EXCEPT ![r].locktype = type, ![r].lockstop = from, ![r].waiting = TRUE]
    /\ stack' = Pop

\* Mutant: a reader does not wait for who writes.
GetReadLock_PastWriter(r, b, d, from) ==
    LET k == Lock(b)
    IN /\ lock' = [lock EXCEPT ![k].rs = @ \cup {Owner(r)}, ![k].w = None]
       /\ desc' = [desc EXCEPT ![r] = d]
       /\ stack' = IF lock[k].w = None THEN stack ELSE <<Free(k)>> \o stack

\* cache_get_read_lock, on a shared lock, and cache_get_write_lock.  A request
\* that reads what it has filled turns its write lock into a read lock, which
\* runs those that wait.
GetReadLock(r, b, d, from) ==
    LET k == Lock(b)
    IN IF lock[k].w \notin {None, Owner(r)} THEN WaitLock(r, k, 0, from)
       ELSE /\ lock' = [lock EXCEPT ![k].rs = @ \cup {Owner(r)}, ![k].w = None]
            /\ desc' = [desc EXCEPT ![r] = d]
            /\ stack' = IF lock[k].w = None THEN stack ELSE <<Free(k)>> \o stack

\* Mutant: readers are not waited for.
GetWriteLock_PastReaders(r, b, d, from) ==
    LET k == Lock(b)
    IN IF lock[k].w \notin {None, Owner(r)} THEN WaitLock(r, k, 1, from)
       ELSE /\ lock' = [lock EXCEPT ![k].w = Owner(r)]
            /\ desc' = [desc EXCEPT ![r] = d]
            /\ UNCHANGED stack

GetWriteLock(r, b, d, from) ==
    LET k == Lock(b)
    IN IF lock[k].w # Owner(r) /\ islocked(k) THEN WaitLock(r, k, 1, from)
       ELSE /\ lock' = [lock EXCEPT ![k].w = Owner(r)]
            /\ desc' = [desc EXCEPT ![r] = d]
            /\ UNCHANGED stack

Holds(r, b) == Owner(r) \in lock[Lock(b)].rs \cup {lock[Lock(b)].w}

\* What an upgrade from a read lock to a write lock (locktype 3 of
\* cache_get_rw_lock) frees first
FreeForUpgrade(r, b) ==
    LET k == Lock(b)
    IN /\ lock' = [lock EXCEPT ![k] = IF config.sharedreadlocks THEN [@ EXCEPT !.rs = @ \ {Owner(r)}]
                                      ELSE [@ EXCEPT !.w = None]]
       /\ stack' = IF lock[k].rs \subseteq {Owner(r)} THEN <<Free(k)>> \o stack ELSE stack
       /\ desc' = [desc EXCEPT ![r].upgrade = k]
CanFree(r, b) == IF config.sharedreadlocks THEN Owner(r) \in lock[Lock(b)].rs ELSE lock[Lock(b)].w = Owner(r)

\* The write lock that it takes then.  If the line has been given to other
\* blocks meanwhile, the request lets go and looks for its block again.
Upgrade(r, b) ==
    LET k == desc[r].upgrade
        d == [desc[r] EXCEPT !.upgrade = None]
    IN /\ IF islocked(k) THEN WaitLock(r, k, 1, d.i + d.j)
          ELSE IF line[k[1]].tag = b \div linesize
            THEN /\ lock' = [lock EXCEPT ![k].w = Owner(r)]
                 /\ desc' = [desc EXCEPT ![r] = [d EXCEPT !.curlock = 2, !.fresh = FALSE, !.got = TRUE]]
                 /\ UNCHANGED stack
          ELSE /\ desc' = [desc EXCEPT ![r] = Resume(d, d.i)]
               /\ stack' = <<Free(k)>> \o stack
               /\ UNCHANGED lock
       /\ UNCHANGED <<line, lru, freelist, linewaiters, iowait, accesses>>

\* A read takes the lock of block b: shared if the block is valid, else exclusive.
Covered(r, b) == ~desc[r].fresh /\ b % lockgran # 0
LockToRead(r, b) ==
    LET d       == desc[r]
        type    == IF Valid(b) THEN 1 ELSE 2
        upgrade == type > d.curlock
        next    == [d EXCEPT !.curlock = type, !.fresh = FALSE, !.got = TRUE]
    IN /\ IF ~upgrade /\ Covered(r, b) THEN desc' = [desc EXCEPT ![r] = next] /\ UNCHANGED <<lock, stack>>
          ELSE IF upgrade /\ CanFree(r, b) THEN FreeForUpgrade(r, b)
          ELSE IF type = 1 /\ config.sharedreadlocks THEN GetReadLock(r, b, next, d.i + d.j)
          ELSE GetWriteLock(r, b, next, d.i + d.j)
       /\ UNCHANGED <<line, lru, freelist, linewaiters, iowait, accesses>>

SetValid(b) == line' = [line EXCEPT ![LineOf(b)].valid = @ \cup {Off(b)}]

\* cache_concatok, for the fill of s..e
Concatok(s, e) == config.maxscatgath = 0 \/ (((e + 1) \div linesize) - (s \div linesize)) <= config.maxscatgath

\* With the lock: what is missing is filled from validpoint on, as far as the
\* next valid block or, line by line, the end of the line.
AfterReadLock(r, b) ==
    LET d     == desc[r]
        first == IF Valid(b) \/ d.validpoint # None THEN d.validpoint ELSE b
        last  == d.j + 1 = Stop(r)
        ahead == [d EXCEPT !.validpoint = first, !.got = FALSE, !.end = b]
    IN IF Valid(b) /\ d.validpoint # None
         THEN Fill(r, d.validpoint, b - 1, config.prefetch, [d EXCEPT !.lockstop = FromStart(r)])
       ELSE IF last /\ first # None /\ (config.line_by_line \/ ~Concatok(first, b))
         THEN Fill(r, first, b, config.prefetch, d)
       ELSE /\ SetValid(b)
            /\ desc' = [desc EXCEPT ![r] = IF last THEN NextLine(r, ahead) ELSE [ahead EXCEPT !.j = @ + 1]]
            /\ UNCHANGED <<lru, freelist, lock, linewaiters, iowait, accesses, stack>>

\* Mutant: the host is answered while blocks are missing.
ReadEnd_Unfilled(r) == /\ stack' = <<Call("reply", r)>> \o Pop
                       /\ UNCHANGED <<storage, desc, iowait, accesses>>

\* All blocks are locked: the fill, or the transfer to the host.
ReadEnd(r) ==
    LET d == desc[r]
    IN IF d.validpoint # None
       THEN Fill(r, d.validpoint, d.end, config.prefetch, [d EXCEPT !.lockstop = FromStart(r)])
       ELSE /\ stack' = <<Call("reply", r)>> \o Pop
            /\ UNCHANGED <<storage, desc, iowait, accesses>>

\* A write takes exclusive locks, and from the start of the line again when it
\* had to wait.
LockToWrite(r, b) ==
    LET next == [desc[r] EXCEPT !.fresh = FALSE, !.got = TRUE]
    IN /\ IF Covered(r, b) THEN desc' = [desc EXCEPT ![r] = next] /\ UNCHANGED <<lock, stack>>
          ELSE GetWriteLock(r, b, next, desc[r].i)
       /\ UNCHANGED <<line, lru, freelist, linewaiters, iowait, accesses>>

\* What shares a valid bit with the request and is missing is filled first.
AfterWriteLock(r, b) ==
    LET d      == desc[r]
        beside == ~Valid(b) /\ (b < Start(r) \/ (b > End(r) /\ b < Rounded(End(r) + 1)))
        fill   == d.filling \cup (IF beside THEN {b} ELSE {})
        next   == [d EXCEPT !.filling = fill, !.got = FALSE]
    IN IF d.j + 1 < Stop(r) \/ fill = {}
       THEN /\ IF beside THEN SetValid(b) ELSE UNCHANGED line
            /\ desc' = [desc EXCEPT ![r] = IF d.j + 1 < Stop(r) THEN [next EXCEPT !.j = @ + 1] ELSE NextLine(r, next)]
            /\ UNCHANGED <<lru, freelist, lock, linewaiters, iowait, accesses, stack>>
       ELSE Fill(r, Min(fill), Max(fill), config.writefill, next)

WriteEnd(r) == /\ stack' = <<Call("reply", r)>> \o Pop
               /\ UNCHANGED <<storage, desc, iowait, accesses>>

\* One block of the walk.  It starts where the request had to stop.
ContinueRequest ==
    /\ On("continue")
    /\ LET r == stack[1].req
           d == desc[r]
       IN IF d.waiting
            THEN /\ desc' = [desc EXCEPT ![r] = [Resume(d, d.lockstop) EXCEPT !.waiting = FALSE]]
                 /\ UNCHANGED <<storage, iowait, accesses, stack>>
          ELSE IF d.j = 0 /\ d.i >= Size(r) THEN IF Read(r) THEN ReadEnd(r) ELSE WriteEnd(r)
          ELSE IF d.upgrade # None THEN Upgrade(r, At(r))
          ELSE IF d.j = 0 /\ ~Resident(At(r)) THEN Allocate(r, At(r))
          ELSE IF d.got THEN IF Read(r) THEN AfterReadLock(r, At(r)) ELSE AfterWriteLock(r, At(r))
          ELSE IF Read(r) THEN LockToRead(r, At(r)) ELSE LockToWrite(r, At(r))
    /\ UNCHANGED <<config, host, arrived, done, fault, flushes, ghosts>>
------------------------------------------------------------------------------
\* cache_lock_free: those that wait for the lock are run in turn, up to the first
\* that wants it for itself.  The list comes in structures that are freed when a
\* loop has passed them: while a request runs, and when the loop stops, an emptied
\* one stays (hollow).  A call made meanwhile frees it under the loop that is in it
\* (stale), which a null or wild pointer then leads on.  Only when there is no list
\* does a line that is free now run a request that waits for one.
LockFree ==
    /\ On("lock_free")
    /\ LET f     == stack[1]
           k     == lock[f.lock]
           t     == k.q[1]
           alone == ~config.sharedreadlocks \/ desc[t].locktype = 1
           inThis(g) == g.call = "lock_free" /\ g.lock = f.lock /\ g.loop
           below == [n \in DOMAIN Pop |-> IF k.hollow /\ inThis(Pop[n]) THEN [Pop[n] EXCEPT !.stale = TRUE]
                                          ELSE Pop[n]]
       IN IF ~f.loop /\ k.q = <<>> /\ ~k.hollow
            THEN /\ IF linewaiters # <<>> /\ ~LineLocked(f.lock[1])
                      THEN linewaiters' = Tail(linewaiters) /\ stack' = <<Continue(linewaiters[1])>> \o Pop
                      ELSE stack' = Pop /\ UNCHANGED linewaiters
                 /\ UNCHANGED <<lock, fault>>
          ELSE IF f.writelocked \/ k.w # None
            THEN stack' = Pop /\ UNCHANGED <<lock, linewaiters, fault>>
          ELSE IF f.stale THEN fault' = TRUE /\ UNCHANGED <<lock, linewaiters, stack>>
          ELSE IF k.q = <<>>
            THEN /\ lock' = [lock EXCEPT ![f.lock].hollow = FALSE]
                 /\ stack' = below /\ UNCHANGED <<linewaiters, fault>>
          ELSE IF alone /\ k.rs # {}
            THEN /\ lock' = [lock EXCEPT ![f.lock].hollow = FALSE]
                 /\ stack' = <<[f EXCEPT !.loop = TRUE, !.writelocked = TRUE]>> \o below
                 /\ UNCHANGED <<linewaiters, fault>>
          ELSE /\ lock' = [lock EXCEPT ![f.lock] = [k EXCEPT !.q = Tail(@), !.hollow = Len(k.q) = 1]]
               /\ stack' = <<Continue(t), [f EXCEPT !.loop = TRUE, !.writelocked = alone]>> \o below
               /\ UNCHANGED <<linewaiters, fault>>
    /\ UNCHANGED <<config, line, lru, freelist, desc, iowait, accesses, host, arrived, done, flushes, ghosts>>

\* cache_free_read_lock, cache_free_write_lock and, of a write that goes through,
\* cache_get_read_lock, for a list of locks.  Their owner must hold them.
ReleaseLocks ==
    /\ On("release")
    /\ LET f == stack[1]
           k == f.locks[1]
           o == f.owner
           shared == config.sharedreadlocks /\ f.mode = "read"
           next == IF Len(f.locks) = 1 THEN Pop ELSE <<[f EXCEPT !.locks = Tail(@)]>> \o Pop
           held == IF shared THEN o \in lock[k].rs ELSE lock[k].w = o
           left == CASE shared -> [lock[k] EXCEPT !.rs = @ \ {o}]
                     [] ~shared /\ f.mode = "downgrade" /\ config.sharedreadlocks -> [lock[k] EXCEPT !.rs = @ \cup {o}, !.w = None]
                     [] ~shared /\ f.mode = "downgrade" /\ ~config.sharedreadlocks -> lock[k]
                     [] ~shared /\ f.mode # "downgrade" -> [lock[k] EXCEPT !.w = None]
           free == left.w = None /\ (shared => left.rs = {})
       IN IF f.locks = <<>> THEN stack' = Pop /\ UNCHANGED <<lock, fault>>
          ELSE IF ~held THEN fault' = TRUE /\ UNCHANGED <<lock, stack>>
          ELSE /\ lock' = [lock EXCEPT ![k] = left]
               /\ stack' = (IF free THEN <<Free(k)>> ELSE <<>>) \o next
               /\ UNCHANGED fault
    /\ UNCHANGED <<config, line, lru, freelist, linewaiters, desc, iowait, accesses, host, arrived, done, flushes, ghosts>>

------------------------------------------------------------------------------
\* controller_smart_host_data_transfer: one transfer with the host at a time
Reply ==
    /\ On("reply")
    /\ stack' = Pop
    /\ host' = IF host.busy = None THEN [host EXCEPT !.busy = stack[1].req]
               ELSE [host EXCEPT !.waiters = Append(@, stack[1].req)]
    /\ UNCHANGED <<config, storage, desc, iowait, accesses, arrived, done, fault, flushes, ghosts>>

\* controller_smart_host_data_transfer_complete
HostTransferComplete ==
    /\ Quiet /\ host.busy # None
    /\ LET r == host.busy
       IN stack' = <<IF Read(r) THEN [call |-> "free_clean", req |-> r, from |-> Start(r)]
                     ELSE [call |-> "free_dirty", req |-> r, from |-> Start(r) + FromStart(r)],
                     Call("next_transfer", r)>>
    /\ UNCHANGED <<config, storage, desc, iowait, accesses, host, arrived, done, fault, flushes, ghosts>>

\* Mutant: those that wait for the host are dropped.
NextTransfer_Drops ==
    /\ On("next_transfer")
    /\ stack' = Pop
    /\ host' = [busy |-> None, waiters |-> <<>>]
    /\ UNCHANGED <<config, storage, desc, iowait, accesses, arrived, done, fault, flushes, ghosts>>

NextTransfer ==
    /\ On("next_transfer")
    /\ stack' = Pop
    /\ host' = IF host.waiters = <<>> THEN [host EXCEPT !.busy = None]
               ELSE [busy |-> Head(host.waiters), waiters |-> Tail(host.waiters)]
    /\ UNCHANGED <<config, storage, desc, iowait, accesses, arrived, done, fault, flushes, ghosts>>

\* Mutant: only the locks whose blocks are all among them.
LocksTo_Whole(b, e) == Locks(SelectSeq(UpTo(b, e), LAMBDA x : x % lockgran = lockgran - 1))

\* The locks of blocks b..e of a line, each freed at the last of its blocks
LocksTo(b, e)  == Locks(SelectSeq(UpTo(b, e), LAMBDA x : x % lockgran = lockgran - 1 \/ x = e))
EndOfLine(b, e) == Min({b + Rest(b) - 1, e})

\* cache_free_block_clean, line by line, of a request that has read
FreeClean ==
    /\ On("free_clean")
    /\ LET r == stack[1].req
           b == stack[1].from
           e == EndOfLine(b, End(r))
       IN IF b > End(r)
            THEN /\ stack' = Pop /\ done' = done \cup {r}
                 /\ UNCHANGED <<lru, fault>>
          ELSE IF ~Resident(b) THEN fault' = TRUE /\ UNCHANGED <<lru, stack, done>>
          ELSE /\ lru' = cache_access(LineOf(b))
               /\ stack' = <<Release("read", Owner(r), LocksTo(b, e)), [stack[1] EXCEPT !.from = e + 1]>> \o Pop
               /\ UNCHANGED <<fault, done>>
    /\ UNCHANGED <<config, line, freelist, lock, linewaiters, desc, iowait, accesses, host, arrived, flushes, ghosts>>

\* cache_free_block_dirty, line by line: the blocks are new, and dirty in a cache
\* that writes back.  Else they are written to the disk, read-locked until they
\* are there, and the request is done at once or (SYNCONLY) then.
LastDirty(r) == Start(r) + FromStart(r) + Rounded(Size(r) - FromStart(r)) - 1
WriteBack    == config.writescheme = "BACK"

FreeDirty ==
    /\ On("free_dirty")
    /\ LET r == stack[1].req
           b == stack[1].from
           e == EndOfLine(b, LastDirty(r))
           l == LineOf(b)
           os == {Off(x) : x \in b..e}
           mine == {x \in b..e : Start(r) <= x /\ x <= End(r)}
       IN IF b > LastDirty(r)
            THEN /\ stack' = Pop
                 /\ done' = IF config.writescheme = "SYNCONLY" THEN done ELSE done \cup {r}
                 /\ IF WriteBack THEN UNCHANGED <<accesses, iowait>>
                    ELSE LET f == <<Start(r) + FromStart(r), LastDirty(r)>>
                         IN /\ accesses' = accesses \cup {[op |-> "write", from |-> f[1], to |-> f[2]]}
                            /\ iowait' = iowait \cup {[kind |-> "WRITE", req |-> r, blocks |-> {f}]}
                 /\ UNCHANGED <<line, lru, fault, latest>>
          ELSE IF ~Resident(b) THEN fault' = TRUE /\ UNCHANGED <<line, lru, stack, done, accesses, iowait, latest>>
          ELSE /\ lru' = cache_access(l)
               /\ line' = [line EXCEPT ![l].valid = @ \cup os,
                                       ![l].dirty = IF WriteBack THEN @ \cup os ELSE @,
                                       ![l].data = [o \in Offsets |-> IF \E x \in mine : Off(x) = o THEN r ELSE @[o]]]
               /\ latest' = [x \in Blocks |-> IF x \in mine THEN r ELSE latest[x]]
               /\ stack' = <<Release(IF WriteBack THEN "write" ELSE "downgrade", Owner(r), LocksTo(b, e)),
                             [stack[1] EXCEPT !.from = e + 1]>> \o Pop
               /\ UNCHANGED <<done, accesses, iowait, fault>>
    /\ UNCHANGED <<config, freelist, lock, linewaiters, desc, host, arrived, flushes, disk>>

\* cache_unlock_attached_prefetch: the locks of what was filled beside the request
AttachedLocks(r, f) ==
    LET s == (Start(r) \div lockgran) * lockgran
        e == ((End(r) + lockgran) \div lockgran) * lockgran
    IN Locks(SelectSeq(DownTo(s - 1, f[1]), LAMBDA x : x % lockgran = lockgran - 1)
             \o SelectSeq(UpTo(e, f[2]), LAMBDA x : x % lockgran = 0))

\* Mutant: any access of the device.
Matches_Device(a, w) == w.blocks # {}

Matches(a, w) == \E f \in w.blocks : f[1] = a.from

\* cache_disk_access_complete: the access is that of the waiter with its block, and
\* what it brought or took is still in the cache.
AccessComplete(a, w) ==
    /\ Quiet /\ a \in accesses /\ w \in iowait /\ Matches(a, w)
    /\ accesses' = accesses \ {a}
    /\ LET f    == CHOOSE x \in w.blocks : x[1] = a.from
           left == w.blocks \ {f}
           span == IF w.kind = "WRITE" THEN <<Start(w.req), End(w.req)>> ELSE f
           release == Release("read", FlushOwner(f[1]), LocksTo(f[1], f[2]))
       IN IF \E b \in span[1]..span[2] : ~Resident(b)
            THEN fault' = TRUE /\ UNCHANGED <<iowait, stack, line, disk>>
          ELSE
          /\ iowait' = (iowait \ {w}) \cup (IF left = {} THEN {} ELSE {[w EXCEPT !.blocks = left]})
          /\ stack' = CASE w.kind = "EXTRA" -> <<Release("write", Owner(w.req), AttachedLocks(w.req, f)), Continue(w.req)>>
                        [] w.kind = "ALLOCATE" -> <<release>> \o (IF left = {} THEN <<Continue(w.req)>> ELSE <<>>)
                        [] w.kind = "SYNC" -> <<release>>
                        [] w.kind = "IDLESYNC" -> <<release>> \o (IF left = {} THEN <<Call("idle", None)>> ELSE <<>>)
                        [] w.kind = "WRITE" ->
                             <<Release("read", Owner(w.req), LocksTo(Start(w.req), End(w.req))), Call("written", w.req)>>
          /\ line' = IF a.op = "write" THEN line
                     ELSE [l \in Lines |-> [line[l] EXCEPT !.data = [o \in Offsets |->
                            IF line[l].tag # None /\ (line[l].tag * linesize + o) \in a.from..a.to
                              THEN disk[line[l].tag * linesize + o] ELSE @[o]]]]
          /\ disk' = IF a.op = "read" THEN disk
                     ELSE [b \in Blocks |-> IF b \in a.from..a.to /\ Resident(b) THEN line[LineOf(b)].data[Off(b)] ELSE disk[b]]
          /\ UNCHANGED fault
    /\ UNCHANGED <<config, lru, freelist, lock, linewaiters, desc, host, arrived, done, flushes, latest>>

\* The request that was written through is done, if it was not before.
Written ==
    /\ On("written")
    /\ stack' = Pop /\ done' = done \cup {stack[1].req}
    /\ UNCHANGED <<config, storage, desc, iowait, accesses, host, arrived, fault, flushes, ghosts>>

------------------------------------------------------------------------------
\* cache_periodic_flush: every line of the lists, from the next to be replaced on.
\* A list without a line is followed all the same, and faults.
Flushing(ls) == [call |-> "flush", lines |-> ls]

EmptyList == \E s \in DOMAIN lru : lru[s] = <<>>

PeriodicFlush ==
    /\ Quiet /\ config.flush = "periodic" /\ flushes < MaxFlushes
    /\ flushes' = flushes + 1
    /\ EmptyList => config.flushempty
    /\ IF EmptyList THEN fault' = TRUE /\ UNCHANGED stack
       ELSE stack' = <<Flushing(IF config.numsegs = 2 THEN lru[0] \o lru[1] ELSE lru[0])>> /\ UNCHANGED fault
    /\ UNCHANGED <<config, storage, desc, iowait, accesses, host, arrived, done, ghosts>>

FlushLine ==
    /\ On("flush")
    /\ IF stack[1].lines = <<>>
         THEN stack' = Pop /\ UNCHANGED <<line, lock, accesses, iowait>>
       ELSE LET l == stack[1].lines[1]
            IN /\ stack' = <<Flushing(Tail(stack[1].lines))>> \o Pop
               /\ IF DirtyOf(l, 0) = {} THEN UNCHANGED <<line, lock, accesses, iowait>>
                  ELSE Flush(l, 0, [kind |-> "SYNC", req |-> None, blocks |-> {}])
    /\ UNCHANGED <<config, lru, freelist, linewaiters, desc, host, arrived, done, fault, flushes, ghosts>>

\* cache_idletime_detected: the first line that has something to write back, with
\* nothing waiting at the disk, and the next when it is done
IdleFlush ==
    /\ \/ Quiet /\ accesses = {} /\ flushes < MaxFlushes /\ flushes' = flushes + 1
       \/ On("idle") /\ UNCHANGED flushes
    /\ config.flush = "idle" /\ (accesses = {} /\ lru[0] = <<>> => config.flushempty)
    /\ LET ls   == SelectSeq(lru[0], LAMBDA l : DirtyOf(l, 0) # {})
           rest == IF stack = <<>> THEN <<>> ELSE Pop
       IN IF accesses # {} THEN stack' = rest /\ UNCHANGED <<line, lock, accesses, iowait, fault>>
          ELSE IF lru[0] = <<>> THEN fault' = TRUE /\ UNCHANGED <<line, lock, accesses, iowait, stack>>
          ELSE IF ls = <<>> THEN stack' = rest /\ UNCHANGED <<line, lock, accesses, iowait, fault>>
          ELSE /\ Flush(ls[1], 0, [kind |-> "IDLESYNC", req |-> None, blocks |-> {}])
               /\ stack' = rest /\ UNCHANGED fault
    /\ UNCHANGED <<config, lru, freelist, linewaiters, desc, host, arrived, done, ghosts>>

------------------------------------------------------------------------------
\* controller_smart_request_arrive and cache_get_block
RequestArrive(r) ==
    /\ Quiet /\ r \notin arrived
    /\ arrived' = arrived \cup {r}
    /\ stack' = <<Continue(r)>>
    /\ UNCHANGED <<config, storage, desc, iowait, accesses, host, done, fault, flushes, ghosts>>

NewDesc(r) == [lockstop |-> FromStart(r), i |-> 0, j |-> 0, curlock |-> 2, fresh |-> TRUE, got |-> FALSE,
               end |-> 0, validpoint |-> None, filling |-> {}, upgrade |-> None, locktype |-> 0, linelocked |-> FALSE, waiting |-> TRUE]

Init ==
    /\ config \in Configs
    /\ line = [l \in Lines |-> [tag |-> None, valid |-> {}, dirty |-> {}, data |-> [o \in Offsets |-> Unfilled]]]
    /\ lru = [s \in 0..config.numsegs - 1 |-> <<>>]
    /\ freelist = SetToSeq(Lines)
    /\ lock = [k \in Lines \X Granules |-> [w |-> None, rs |-> {}, q |-> <<>>, hollow |-> FALSE]]
    /\ linewaiters = <<>>
    /\ desc = [r \in Reqs |-> NewDesc(r)]
    /\ iowait = {} /\ accesses = {} /\ stack = <<>>
    /\ host = [busy |-> None, waiters |-> <<>>]
    /\ arrived = {} /\ done = {} /\ fault = FALSE /\ flushes = 0
    /\ disk = [b \in Blocks |-> 0] /\ latest = [b \in Blocks |-> 0]

Event == \/ \E r \in Reqs : RequestArrive(r)
         \/ HostTransferComplete
         \/ \E a \in accesses, w \in iowait : AccessComplete(a, w)
         \/ PeriodicFlush
         \/ IdleFlush

Inside == \/ ContinueRequest \/ LockFree \/ ReleaseLocks \/ Reply \/ NextTransfer
          \/ FreeClean \/ FreeDirty \/ Written \/ FlushLine

Next == Event \/ Inside
Spec == Init /\ [][Next]_vars
FairSpec == Spec /\ WF_vars(Inside) /\ WF_vars(\E r \in Reqs : RequestArrive(r)) /\ WF_vars(HostTransferComplete)
                 /\ WF_vars(IdleFlush /\ On("idle"))
                 /\ \A b \in 0..11 : WF_vars(\E a \in accesses, w \in iowait : a.from = b /\ AccessComplete(a, w))
------------------------------------------------------------------------------
InCache(b) == Resident(b) /\ Valid(b)
Data(b)    == line[LineOf(b)].data[Off(b)]
Transferring == ToSet(host.waiters) \cup ({host.busy} \ {None})
Writing(b) == \E a \in accesses : a.op = "write" /\ b \in a.from..a.to

\* No assertion of the cache fails, and a request that is done has freed its locks
\* unless its data is still on the way to the disk.
CacheInv ==
    /\ ~fault
    /\ Quiet => \A k \in DOMAIN lock, r \in done :
          Owner(r) \in lock[k].rs \cup {lock[k].w} => \E w \in iowait : w.req = r

\* No block is in two lines, and a lock is held for writing or for reading.
LocksExclude ==
    /\ \A l, m \in Lines : line[l].tag = line[m].tag /\ line[l].tag # None => l = m
    /\ \A k \in DOMAIN lock : lock[k].w = None \/ lock[k].rs = {}

\* What a fill is to bring counts as valid already: until it is there, its request
\* holds all of it locked for itself, also what it only fetches ahead.
FillsLocked ==
    \A w \in iowait : w.kind = "EXTRA" => \A f \in w.blocks : \A b \in f[1]..f[2] :
        Resident(b) /\ lock[Lock(b)].w = Owner(w.req)

\* The last write of a block is never lost: between two events the cache holds
\* it, unless the block is locked for writing, and the disk is behind only with
\* what is dirty or on its way.
Coherent ==
    Quiet => \A b \in Blocks :
        /\ InCache(b) /\ lock[Lock(b)].w = None => Data(b) = latest[b]
        /\ disk[b] # latest[b] => InCache(b) /\ (Off(b) \in line[LineOf(b)].dirty \/ Writing(b))

\* While a request moves its data to the host, all its blocks are in the cache, as
\* last written, and locked: a fill has ended before, and no write has begun.
ReadsLatest ==
    Quiet => \A r \in Transferring : Read(r) => \A b \in Start(r)..End(r) :
        InCache(b) /\ Data(b) = latest[b] /\ Holds(r, b)

\* A completed access finds exactly one waiter by its device and block.
OneWaiter == \A a \in accesses : Cardinality({w \in iowait : Matches(a, w)}) = 1

\* A request that waits for a line waits for somebody: not every line is free to
\* be replaced.
LineWait == Quiet /\ linewaiters # <<>> => \E l \in Lines : LineLocked(l)

\* A request that is not done moves its data, or waits for a lock somebody holds,
\* for a line, or for the disk: no wake-up is lost.
WaitsFor(r) == \/ \E k \in DOMAIN lock : islocked(k) /\ r \in ToSet(lock[k].q)
               \/ r \in ToSet(linewaiters)
               \/ \E w \in iowait : w.req = r
NoLostWaiter ==
    /\ LineWait
    /\ Quiet => \A r \in arrived \ done : r \in Transferring \/ WaitsFor(r)

\* Every request is done in the end.
AllDone == \A r \in Reqs : r \in arrived ~> r \in done
=============================================================================
