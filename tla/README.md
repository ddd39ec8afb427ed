# DiskSim: models, checks and proofs

DiskSim 1.0 (`src/DiskSim_1.0/`) is an event-driven simulator of storage
subsystems: a process-flow simulator with synthetic workloads, a device driver
with request queues and logical organisations (striping, mirroring, parity),
buses, controllers with and without caches, and disks with their buffers and
mechanics. This directory models its core logic in TLA+, checks the models with
TLC, and proves what matters most with TLAPS.

Time is abstracted everywhere: what the simulator orders by floating-point
times, the models let happen in any order that the code's own conditions allow.
Every behaviour of the simulator is then a behaviour of the model.

## 1. Inventory

### Components, state, operations

| Component (source under `src/DiskSim_1.0/src/`) | State | Operations | Makes it correct |
|---|---|---|---|
| **Request queue** `disksim_ioqueue.c` | three subqueues (base, timeout, priority): list of iobufs, four counters, scan position and direction; idle timer | add (with concatenation), get next, access done (with overlap completion), raise priority, tick, idle timer | nothing lost, doubled or regrouped; counters match lists; rank and sweep order; no starvation under a timeout |
| **Device driver** `disksim_iodriver.c`, `disksim_intr.c` | per device a queue; per controller a count and the oversized requests; 53C700: pending I/Os and a busy flag | request, schedule access, interrupt (complete, disconnect, ready) | one access per request at a time, whole requests, limits respected, queue never forgotten |
| **Logical organisation** `disksim_logorg.c`, `disksim_redun.c` | outstanding requests with counts and dependencies; copy toggle; accesses per disk; parity table | map a request, complete an access | right blocks read and written, copies and parity kept, old values read before new are written, every request done once |
| **Bus** `disksim_bus.c` | owned or free, the winner to be told, the waiting events | get, release, withdraw, grant | one owner, order of grants, no starvation |
| **Controllers** `disksim_controller.c`, `disksim_ctlrdumb.c`, `disksim_ctlrsmart.c` | state, connections, waiting bus events, delayed transfers; in the smart one a cache and host/disk requests | request arrives, interrupts from above and below, ownership granted, delay complete | no protocol error exit, buses given back, every request answered |
| **Controller cache** `disksim_cache.c` | lines with tag, valid and dirty bits; a write lock, read locks and waiters per lock granule; free list, replacement segments, requests waiting for a line, waiters of disk accesses | get block, free block, fill, write back, idle and periodic flush | locks exclude, dirty data is not lost, reads see the last write, every waiter is woken |
| **Disk controller** `disksim_diskctlr.c`, `disksim_disk.c` | the requests that have and are to have the head and the bus, the requests to be transferred, connection and the message it waits for | request arrives, disconnect, reconnect, seek done, sector got, transfer goes on, completion sent | no error exit, no transfer waits for ever, every write reaches the medium |
| **Disk buffer** `disksim_diskcache.c` | segments: extent, state, requests, owner, read-ahead limits; number of dirty ones | choose, reuse, own, release a segment; find a hit; extend read-ahead | never serves overwritten blocks; lists, owners and counters agree |
| **Geometry, mechanics** `disksim_diskmap.c`, `disksim_diskmech.c` | none to speak of | block to cylinder/surface/sector, seek and rotation times | maps are one-to-one |
| **Event kernel** `disksim.c` | event list, free events, clock | add, remove, next | time order, first in first out among equals, no event lost |
| **Process-flow simulator** `disksim_pfsim.c`, `disksim_pfdisp.c`, `disksim_intr.c` | processors with their stacks of interrupts, processes with their event lists, dispatch queue, sleep queue, pending and done I/O | context switch, sleep, wake up, issue I/O, take and end an interrupt, clock tick | no process lost, no lost wake-up, no idle processor with work to do |
| **Synthetic workload** `disksim_synthio.c` | per generator the last request and the count of requests made | write the next requests, sleeps and think times of a process into its event list | requests lie on the device, the run stops |
| **Traces, statistics, tools** `disksim_iotrace.c`, `disksim_interface.c`, `disksim_stat.c`, ... | counters and files | | (not modelled, see section 8) |

### How they interact

Everything runs in one thread; components call each other and leave events for
later. A process of the process-flow simulator issues a request and may sleep on
it; the request enters as `IO_REQUEST_ARRIVE` at `iodriver_request`, which asks
`logorg_maprequest` for the accesses it amounts to, puts each in the queue of its
device, and sends what may be sent (`check_send_out_request`) with
`iodriver_schedule` down a path of buses and controllers to a disk. Controllers
and disks get buses by `bus_ownership_get`; a grant is an event. A smart controller
answers from its cache or makes disk accesses of its own. The disk answers with
interrupts up the same path; `iodriver_access_complete` gives the completion to the
queue (`ioqueue_physical_access_done`) and to `logorg_mapcomplete`, which may make
new requests (the writes of a read-modify-write), asks the queue for the next, and
wakes the process that waits.

### What is hard

There are no threads, yet nearly every component lives through interleavings:
between an event's being made and its being handled, other events change the
state it was made from. Nothing is persisted, so there is no crash recovery; no
message is lost. The hazards are those of event handlers: queues whose counters
are kept at a dozen places, buffers moved between lists and freed by
concatenation, requests whose flags decide later where they are looked for,
bus grants under way when the request is withdrawn, dependencies counted down
by completions in any order, waiters that only a certain completion wakes, a head
that reads ahead for a request that is over, a process that goes to sleep while
the interrupt that is to wake it is handled, and boundary arithmetic of layouts.
`PROJECT.json` lists each with its line and the properties that watch it, or why
none does.

## 2. Plan

Order of work, the most important first.

1. **Request queue** - `SubQueue` (subqueue and its disciplines, operators only),
   `IoQueue` (the queue and its entry points), `IoQueueProperties`, abstract
   specification `RequestPool`. *Done and proved.*
2. **Bus** - `BusArbitration` (operators), `Bus`, abstract specification `BusLock`.
   *Done and proved.*
3. **Driver** - `IoDriver`, on top of a request pool. *Done and proved.*
4. **Process flow** - `Agenda` (the event queue of `disksim.c`) with `Selection`,
   `ProcessFlow`. *Done and proved.*
5. **Cache** of the smart controller. *Done; checked only.*
6. **Logical organisation** - `ArrayMap` (layout operators), `ParityTable`, `LogOrg`.
   *Done;
   the counts (`OrgInv`) proved, the contents of the accesses checked only.*
7. **Disk** - `DiskState`, `DiskBuffer`, `DiskCtlr`, `DiskProperties`. *Done; the buffer
   chooses its segments recursively, so it is checked only.*
8. **ScsiPath** - composes `BusArbitration` with the pass-through and 53C700
   controllers and disks that disconnect and reconnect: no error exit, one user
   of a bus, every request completes. *Left.*
9. The disciplines of the request queue that need the geometry, and the sparing maps
   of `disksim_diskmap.c`, if a model of the geometry proves worth its size.

Runs are merged by choosing the configuration in `Init` (as most modules do), so
that one run asks one question of all the configurations it has.

## 3. Modules and the code

### SubQueue, IoQueue, IoQueueProperties (`disksim_ioqueue.c`)

`SubQueue` holds the pure part: a subqueue is a record of its list of iobufs (a
sequence, each iobuf with the sequence of its requests) and the four counters
`listlen`, `iobufcnt`, `numoutstanding`, `reqoutstanding`, which are kept as the
code keeps them, never derived. Insertion by block or at the tail with
concatenation to both sides (`InsertNewRequest`, `CheckConcat`), the disciplines
FCFS, ELEVATOR, CYCLE, SSTF and VSCAN by block number (`Pick`), and completion.

`IoQueue` has one action per entry point: `AddNewRequest`, `GetNextRequest`,
`PhysicalAccessDone`, `RaisePriority`, `Tick`, the idle timer, and the clock.
`flags` are those of the requests, separate from the iobuf's own as in the code.
Error exits and failing ASSERTs set `fault` and stop the model; so does the one
list walk of `ioqueue_implement_timeouts` that may leave an emptied list.
Wait times are capped at `MaxWait` (one more than any limit they are compared
with), simulated time at `MaxTime`.

`IoQueueProperties` has the properties and the refinement mapping to
`RequestPool`, which says what any queue promises: requests added wait until they
are handed out, alone or in a batch, batches complete as they were handed out,
and only waiting requests may be completed by overlap.

### BusArbitration, Bus, BusLock (`disksim_bus.c`)

`BusArbitration` has the operations as operators on a bus record, so that several
buses can share them. `Bus` is one bus and the devices on it; `holder` is the
device that acts as owner. `Get`, `Granted`, `Release`, `Leave` are
`bus_ownership_get`, the `BUS_OWNERSHIP_GRANTED` event, `bus_ownership_release` and
`bus_remove_from_arbitration`. The kind of arbitration is a field of the bus,
chosen in `Init`. `BusLock` is the abstract lock.

### IoDriver (`disksim_iodriver.c`)

`Request` is `iodriver_request` with `handle_new_request` and, for the stand-alone
driver, `iodriver_schedule`; `ScheduleAccess` is `iodriver_schedule` of an event;
`PieceComplete` and `AccessComplete` are the two ways through
`iodriver_access_complete`. The queue of a device is a request pool (`waiting`,
`out`): any waiting request may be next. The constant `dependents` stands for the
requests that `logorg_mapcomplete` returns. The subsystem is the set `below` of
accesses it was sent, completed in any order.

### ArrayMap, ParityTable, LogOrg (`disksim_logorg.c`, `disksim_redun.c`)

`ArrayMap` is the layout arithmetic, each function of the code one operator; the
loops of `logorg_mapstriped` and `logorg_parity_rotate_updates` are recursive
functions over the steps of the loop, with the loop's own variables as a record.

`ParityTable` is the parity of a striped organisation: the left-symmetric table
(`CreateTable`), the parts of a request unit by unit (`Parts`), the rows they belong
to (`Groups`), the choice between reading what is overwritten (`ReadOld`) and what is
left alone (`Recon`), the joining of neighbours on a disk (`Joined`) and the lists of
accesses with their dependencies (`WithDependencies`). The loops over the linked
lists of the code are folds and set comprehensions over the parts.

`LogOrg` is `logorg_maprequest` (`MapRequest`) and `logorg_mapcomplete`
(`MapComplete`, with `logorg_check_dependencies`). The dependency lists are sets
of entries (place, writes held up) and the counters that the code keeps in
`opid` of the held-up writes are the function `waits`. Physical disk numbers
differ from numbers within the organisation, as `devs[]` makes them; the lookup
of the second and later accesses is modelled as written (`TableEntry`), with any
entry for an index outside the table: an organisation whose first disk is not
number 0 sends second accesses to the wrong disk (`disksim_logorg.c:792`, against
`doc/disksim-doc.ps:8443-8450`), so the runs give every organisation disk 0 as its
first. `issued` and `requests` are history variables for the properties. When a mapping
is a list that does not lead back to the request (`Unclosed`), `logorg_maprequest` follows
a null pointer: `fault` is set, the request never becomes outstanding, and nothing more happens.

### Cache (`disksim_cache.c`, `disksim_ctlrsmart.c`)

A request is a descriptor (`desc`) with the fields of `ioreq_event` and
`cache_wait_struct` that its next step depends on, so that `ContinueRequest` goes on
where `cache_get_block` was left: lock the next block (`GetReadLock`,
`GetWriteLock`), turn a read lock that covers a block to be filled into a write lock
(`FreeForUpgrade`, `Upgrade`: it lets go, and the line may be another when it has the
lock again), allocate a line (`Allocate`, `TakeLine`), write back a dirty one
(`Flush`), fill what is missing (`Fill`), answer the host (`Reply`). Freeing a lock
resumes waiters inside the call, and they free locks themselves, so `stack` is the
list of calls in progress: `LockFree`, `ReleaseLocks`, `FreeClean`, `FreeDirty`,
`NextTransfer` each take one step of the innermost. A structure of the list of waiters
that has been emptied under the loop stays in it (`hollow`); a nested call that frees
the structure an outer loop walks makes that loop `stale`, and its next step a fault. An event is handled only when
the stack is empty. `AccessComplete` is the completion of a disk access with its
search for the waiter; `PeriodicFlush` and `IdleFlush` are the background. The
smart controller is its requests, one transfer with the host at a time
(`host`), and the disk accesses; the disks answer in any order. The content of
blocks is a ghost: the number of the request that wrote them last.

### DiskState, DiskBuffer, DiskCtlr, DiskProperties (`disksim_disk*.c`)

The whole state of a disk is one record `disk`, and each C function is an operator
from states to states with its name: `DiskBuffer` chooses and owns segments and
extends read-ahead (`disksim_diskcache.c`), `DiskCtlr` connects, transfers, moves the
head and answers (`disksim_diskctlr.c`). Functions that call each other in a circle
(`disk_check_hda`, `disk_activate_read`, `disk_release_hda`, ...) leave their calls in
`disk.calls`, and `Run` makes them, the first one first, before the step ends. A step is
an event (`EventArrive`: the next request of the host, its answer to a message or a
transfer, the end of a delay, the head at its track, a sector under the head), a grant
of the bus (`Grant`) or the arrival of a message (`Deliver`). A seek may end at any block
of the track and any part of a transfer may have crossed when a sector passes.
Error exits, failing ASSERTs and null pointers set `fault`. A disk of fixed
access time (`acctime`) has actions of its own.

### Agenda, ProcessFlow (`disksim.c`, `disksim_pfsim.c`, `disksim_pfdisp.c`, `disksim_intr.c`, `disksim_synthio.c`)

`Agenda` is the event queue: events due now, in the order in which they were put in
(`soon`), and events with a positive delay (`later`), from which up to `atonce` of the same
time become due together. `ProcessFlow` handles one event per step, as the loop of
`disksim.c` does. Each processor has its stack of interrupts and each process its
event list; `ProcessorEvent` runs the next event of the innermost list, with one
handler per kind of event (`HandleCSwitch`, `HandleSleep`, `HandleIoreq`, ...).
`IoIntr` and `ClockIntr` push an interrupt. The generator appends to its process's list what
`synthio_appendio` does: think time, request, the sleep of a time-critical request, and
that of a time-limited one at its place in time (`InsertLimit`).

## 4. Runs

| Run | Question | Instance |
|---|---|---|
| IoQueue | ranks, sweeps and counters under two-level half timeouts; does concatenation lose or regroup anything; what overlap scheme 2 completes, and the idle timer | 3 queues of 3 requests: ELEVATOR base with FCFS timeout and CYCLE priority; SSTF with 3 sequential requests, at most 4 blocks together; V-SCAN with three requests on the same blocks |
| IoQueueStarvation | does the timeout queue end starvation | 2 requests that return for ever, SSTF base |
| Bus | ownership, order, lock, starvation | 5 bus events in 3 slots, both kinds of arbitration |
| IoDriver | pieces, limits, counts, dependents, forgotten queues | 8 requests, 3 devices, one controller for two of them |
| LogOrg | layout, dependencies, completion | 12 organisations, three of them with a parity table; every covered request of the chosen sizes, then (without a table) one that meets it |
| Cache | locks, waiters, write-back, fills, flushes | 7 caches of two lines, 4 requests each, one background flush |
| ProcessFlow | lost wake-ups, idle processors, nested interrupts, the end of the run | 4 configurations of two generators on one or two processors and devices |
| Disk | the buffer, the head and the bus in any interleaving | 20 disks of two segments, up to 3 requests each |
Runs that are expected to fail, one for each disagreement between the code and
its documentation (quoted in `PROJECT.json`, "findings"):

| Run | What it shows |
|---|---|
| IoQueueHalfTimeout | with half timeouts and one priority level, a timed-out request is sought in the wrong subqueue and the simulation stops |
| IoDriverLeak | each further piece of an oversized request is counted as outstanding for ever |
| CacheFifo | with FIFO (random, LIFO) replacement no line is ever put on the replacement list, and a request waits for a line that nobody holds |
| DiskStale | a segment that reads ahead over blocks that are being written keeps the old ones, beside a segment with the new |

### What the properties say

IoQueue: `NoFault` (no error exit), `QueueInv` (counters match the lists, sorted lists
are sorted, the idle timer runs only when the queue is empty), `WaitingIsOffered` (the
guards of `ioqueue_get_next_request` never hide a waiting request), `RankRespected`,
`OrderKept` (no waiting iobuf ahead of the sweep or cycle is passed),
`SubsumedIsCovered` (what overlap completion ends unserved, an access to the same blocks
has served since it arrived), `ImplementsPool`, `EventuallyHandedOut`.

Bus: `BusInv` (one owner, nobody in the arbitration twice), `GrantOrder`,
`ImplementsLock`, `NobodyStarves` (FIFO only: slot priority does starve low slots).

IoDriver: `DriverInv` (one access each; the count of a controller is never short),
`WithinLimits`, `WholeRequests`, `WaitsOnlyWhenFull`, `EventuallyServed`. The last two
are about devices with queues of their own: behind a controller that queues for
several devices a completion asks the queue of its own device only, and a request
of another one can wait with room to spare.

LogOrg: `RightBlocks` compares what the accesses of a finished request touched
with a layout defined block by block from the documentation's description,
independent of the loops of the code; `WritesAfterReads` says when, and no later,
held-up writes are issued; `OrgInv` ties the request's count to the accesses under
way and held up, ties the numbers for the time stamps to the accesses under way and the
writes released uncounted (in every scheme, whether it reads old values or not), keeps
accesses on member disks and follows no null pointer; `CopiesInTurn`; `EventuallyDone`: every
request that is sent completes, and none stops in `logorg_maprequest`.
For a parity table: every row that is written has its parity written, and what is
read first suffices to compute it, either the old values or the rest of the row.

Cache: `CacheInv` (no ASSERT fails, nothing locked for a request that is over),
`LocksExclude` (no block in two lines, no lock both written and read), `FillsLocked`
(what a fill is to bring is in the cache and locked by its request), `Coherent` (the last write of a
block is in the cache or on the disk, and what the disk lacks is dirty or on its way),
`ReadsLatest` (what is moved to the host is locked and as last written), `OneWaiter` (a
completed access finds one waiter), `NoLostWaiter` (who waits, waits for something
that is held), `AllDone`.

ProcessFlow: `PfInv` (the status of a process says where it is, and it is nowhere
twice; one event per busy processor; requests lie on the device), `NoFault`,
`WakeupComes` (who sleeps on a request is woken by its completion), `WorkIsRun` (the
processor of the interrupts is not idle beside work), `EventuallyStops`.

Disk: `DiskInv` (segments, owners, counters and pointers agree), `NoFault`,
`ReadsLatest` (a read returns nothing older than a write whose completion the host had
seen), `ReachesMedium` (a disk at rest has written everything), `EventuallyServed`.
Every property of a passing run has a mutant: a plausible bug in one definition
(an operator next to it, named `<definition>_<bug>`) under which TLC finds the
property violated.

## 5. Bounds, and why they are enough

- IoQueue: with three requests there is one handed out, one waiting and one that
  arrives, moves or is raised. `to_time` 1 moves requests at once and half-way; the
  violation takes 2, which gives distinct half and full limits. Requests come back
  after completion, so runs are not bounded in length; `MaxTime` bounds the clock that
  overlap completion and the idle timer read.
- Bus: five events in three slots give two devices in one slot, a higher and a
  lower slot, and a queue of four behind an owner.
- IoDriver: limits of one and two, requests of one, two and a half and exactly two
  pieces, a dependent on the same and on another device.
- IoQueue: concatenation is not combined with timeouts or priorities, because the counters
  and with them `QueueInv` fail when chains move (section 7); what happens to an iobuf that is absorbed while it
  moves (`disksim_ioqueue.c:2194`) is therefore covered by the theorems only: `QueueImplementsPool`,
  `QueueKeepsOrder`, `QueueNeverFaults`.
- LogOrg: units that do and do not fill the disks, requests from within a unit to
  more than a stripe, disks of 5, 9, 12 and 18 blocks, parity units of one and two
  units in both directions. `MaxRequests` 2: requests are independent but for
  the copy toggle and the disks' counts, which two of them meet; an organisation with
  a parity table reads neither, so it maps one. `SeqGive` is 1 where the code has 32,
  with units of 2 and 4 blocks where it has dozens: gaps that are joined and gaps that
  are not both occur.
- Cache: two lines of two blocks and four requests, so that requests share a
  block, share a line, and drive each other's lines out; lock granules and valid bits of
  one block and of the line; one background flush at any moment.
- ProcessFlow: four requests in all (`endiocnt`) by two processes, so that one sleeps
  while the other computes, and both sleep; delays are 0 or positive (`Agenda`), think times -1, 0 and 1;
  `atonce` 2 lets two later events fall on the same time.
- Disk: three requests that overlap, follow each other or lie apart, on two tracks
  of four blocks with two segments of four (or eight) blocks, so that a third request must reuse a
  segment; twenty combinations of the flags of `disk_read_specs`, each with a
  request stream that the flags are about. Disks with errors of their own (section 8) are
  not among them.
The workload ends in IoDriver, LogOrg, Cache, ProcessFlow and Disk, so deadlock is
not checked there; that all requests are done is the liveness property of each.

## 6. Fairness

- IoQueue: the driver asks for the next request at every completion
  (`iodriver_access_complete`), so `GetNextRequest` is weakly fair; the disks complete
  what they were given; the clock interrupt ticks as long as a tick changes
  anything (`Aging`). Arrivals are not fair.
- Bus: a grant is an event on the event list and is delivered; an owner gives the
  bus up when its transfer is done. Asking and withdrawing are not fair.
- IoDriver: events on the event list are delivered, the subsystem completes
  every access.
- LogOrg: the disks complete the accesses of every request. Arrivals are not fair.
- Cache: the calls in progress go on, the host transfers end, the disks complete
  every access (weak fairness for each first block). Flushes are not fair.
- ProcessFlow: weak fairness of the whole (`Next`) and strong fairness of what is not
  the clock (`Progress`). Delays are finite and an interrupted event keeps only what is left of its
  delay, so clock ticks do not put it off for ever.
- Disk: the medium goes on and the bus goes on, each whenever it can: weak
  fairness of each, with what enables it spelled out (`FairSpec`).
## 7. Proofs

Checked by TLAPS for all values of the constants under the named assumptions of
the modules (`BusAssumption`, `IoDriverAssumption`, `IoQueueAssumption`,
`LogOrgAssumption`, `ProcessFlowAssumption`), which TLC evaluates in the runs. The runs show the properties on
small instances; the theorems hold for any number of devices, processors, processes and
requests, and the request queue's for any set of configurations that `ioqueue_readparams`
accepts. What a theorem supposes beyond that is in its statement, and `MCIoQueue` and
`MCLogOrg` have TLC evaluate it for the configurations of the runs.

### Lists

`ListProofs` has the lemmas about the operators the models take from the community
modules: what `InsertAt`, `RemoveAt`, `ReplaceAt`, `SelectInSeq` and `Selection` (the
elements of a sequence at a set of places, in their order) return; that the places
of the new list are those of the old, renumbered (`Renumbered`); and sums, over a
list (`Total`, a `FoldLeft`) and over a set of its places (`SumOf`, a
`SumFunctionOnSet`): they exist, and one element more adds its value. These
operators recur, and the library's induction rules take an operator no prover here
can instantiate; the induction is made instead on a set of naturals, which has a
least element (`LeastElement`, `AllUpTo`).

### Request queue

`IoQueueProofs`: every theorem rests on `QueueSound`, which has the types and says
that no request is in the queue twice. Its base is what a list of iobufs *stands
for* (`StandsFor`): the requests that wait and the batches that are out. Each
operation on a list has a lemma that says what it makes of this - an insertion adds
the iobuf's requests, a concatenation changes nothing, a hand out makes one
batch of one iobuf -, `ChangedSubqueue` carries it to the whole queue, and `Kept`
says of a move, of a raise and of each step of the walk over the timeouts
(`TimeoutStepWalks`, `TimeoutsKeep`) that nothing is lost or gained.

- `QueueImplementsPool` is the refinement `ImplementsPool`, step by step, for every
  discipline and every priority, timeout, concatenation and overlap scheme.
  `RequestPoolProofs` has what a pool promises: nothing is handed out twice.
- `QueueKeepsOrder` (types and sorted lists) holds in every configuration, and so do
  `DisciplinesKeepOrder` (`OrderKept`: `Pick` is the least of a set of places, or
  the nearer of two, and the lists are sorted) and `OverlapIsCovered`
  (`SubsumedIsCovered`, from `QueueTimes`: an access starts after its requests arrived).
- `QueueIsConsistent` is `QueueInv`. Counters are followed by accounts (`Books`): what
  each change of a list adds to the number of its requests, of its iobufs on
  their way and of the requests in those. The counters do *not* match in every
  configuration: `ioqueue_insert_new_request` adds one to `listlen` for an iobuf that
  is moved, however many requests are chained to it. So the theorem supposes that no
  chain moves (`ChainsStay`: no concatenation, or one priority and no timeouts), as do
  `WaitingRequestIsOffered` and `RankIsRespected`, which need the counters because
  `ioqueue_get_next_request` trusts them.
- `QueueNeverFaults` is `NoFault`. Its invariant `QueueSafe` adds that the flags of
  a waiting request lead `ioqueue_physical_access_done` to the subqueue it is in
  (`Routed`), and the flags an access was handed out with to its iobuf (`OutFound`).
  Each move must flag a request for where it moves it (`Leads`), and with half
  timeouts and one priority it does not, which is what the run IoQueueHalfTimeout finds. The
  theorem therefore supposes `FaultFree`: not that scheme; no overlap completion among
  concatenated requests, where the ASSERT on `reqcnt` can fail; and an issuer that leaves
  TIMED_OUT and HALF_OUT to the queue, as `disksim_pfsim.c:542` takes care to.

### Bus

`BusProofs`: the invariant is `BusInv`: types, one owner, and nobody in the arbitration
twice. None of the last two is inductive alone: that the released bus goes to somebody who is not
in the list any more needs that he was in it once, and that a release finds no
grant under way needs ownership. From it follow `GrantsInOrder` (step by step,
from what `OwnershipRelease` removes, `RemoveAtProperties`) and
`BusImplementsLock` (each bus step is a lock step or a stutter).

### Driver

`IoDriverProofs`: the invariant adds to `DriverInv` the parts `Fresh` (what has
not been made is nowhere, and what is due to arrive is not queued) and
`PiecesHaveSize` (only controllers with a limit have oversized requests).
That the count is never short is what makes `WithinLimits` hold although the code's count is
not exact: the count only errs upwards. The lemmas `AfterHandsOut`,
`AfterFinishes` and `AfterSwaps` say what each kind of step does to the number
of requests at a controller.

`RequestsWhole`, built on that invariant, is the action property
`WholeRequests`: a request leaves the driver when its last piece has been completed, and not
before. `NeverWaitsInVain` is `WaitsOnlyWhenFull`. With `IInv` it is
inductive, device by device (`WaitsFull`): the hard step is the completion, which must replace what it takes
away, in the device or among what is due to arrive, unless nothing waits.

### Process flow

`ProcessFlowProofs` begins with the lemmas about the event queue: what is pending after
an event is put, cancelled, put back or becomes due, and that an event pending at
most once stays so. They hide the order of the queue from everything else. It
shows `CoreInv`, which is three invariants that need each other:

- `BaseInv`: the types of every record and list; a processor has its event in the
  queue exactly once when it is busy and not at all when it is idle; in an
  interrupt this event is due now; the interrupts on a stack nest and remember whether they came upon a
  busy or an idle processor; every list of a process ends with what
  refills or leaves it, so the list of a process that runs is never found empty.
- `WorkIsRun`. Its hard cases are the ends of interrupts: the processor goes back to what it did, and
  what the interrupt put in the dispatch queue is run only if
  the interrupt remembered rightly that it came upon nothing.
- `WakeupComes`: whoever sleeps on a request is marked in the list of pending I/O,
  or his wakeup is on the list of an interrupt that has yet to run it. The
  wakeup is made in the middle of a completion, so the proof follows it from
  `pf_io_done_notify` through the list of the interrupt to `pf_wakeup`.

`ProcessorsRun`, `WaitingWorkIsRun` and `SleepersAreWoken` are the theorems.

`ProcessFlowPlaceProofs` shows first that no ASSERT fails (`NothingFails`). Most of them follow from
`CoreInv`, but one does not: a completion must find its request in the list of pending
I/O, and it does only if no request completes twice. The invariant added for this, `Placed`, is
one of custody: a request is in one place at a time - at one place in the list
of its process, in the queue of a device, in the event queue as an interrupt
(which is there at most once), on the stack of processor 1 or in the list of one
of its interrupts -; from the moment it is issued it is in the list of pending
I/O until its completion; and no request has a number that its generator has yet to give.
Places in a list are counted from the end (`At`), so that what is put before a list or taken from
its head leaves a request where it is. The lemma `CustodyMoves` gives what every step has to show: each
request stays, disappears, or goes to one place from the place where it was.

Then it shows where the processes are (`ProcessesInPlace`): each is on the dispatch
queue, on the sleep queue, or on a processor or on its way to one, as its status says.
`InItsPlace` is far from inductive. Its invariant, `PlaceInv`, has two parts.

- `InPlace` counts. Two processors can have the same process for a while: the one it goes to, and the
  one it slept on and has yet to leave. So the places of a process - processors that have it, and context
  switches to it at the head of a list - are as many as it is dispatched (once or not) plus
  one if its own list begins with a switch away (`Balanced`). A switch is only ever
  the first event of a list (`FirstOnly`), an idle loop has at most one
  (`IdleOne`), and both queues hold exactly the processes of their status (`Queued`).
- `Ordered` is about events of the same time, and the code needs it: `pf_handle_intend_event` asks for
  the process of its processor, not for a switch that waits in the idle loop, so an interrupt that came
  between the dispatch and the switch would, at its end, find the processor free and dispatch a second
  process to it. It cannot come, because a processor with a switch to make has its event due now (`Prompt`), and
  processor 1 with one in its idle loop comes after every interrupt
  that is due (`LastOfAll`). The proof follows this through `Put`, `Cancel` and `TimeLeft`, step by step.

`SimulatorIsSound` is the whole of `PfInv`: with `TypeOK` and `OneCpuEvent`, which follow from `CoreInv`, and
`OnTheDevice`. Only the last needs the hypothesis of the theorem, that no size is negative, because
`synthio_initialize_generator` does not refuse one (section 8); a request that is drawn later is on the device without it.

### Logical organisations

`LogOrgProofs`: `OrganisationCounts` is `OrgInv`, for every organisation that
`logorg_readparams` and `logorg_initialize` accept (`Configurable`), with disks, units and
requests of any size, and its accesses completed in any order. The proof has two parts.

The first is an inductive invariant of requests whose mappings fit (`Fits`: the accesses are on the
disks and no two are the same, a held-up write is counted once for each entry that names it, each entry is
that of a read that is sent). `OrgSound` adds to the counts why they stay right
(`OutFits`): an entry of the dependency list belongs to an access that is under way, so a write that
is held up has one that will release it; no two entries are for the same place, so taking the first one
(`logorg_check_dependencies`) takes all; and a write is released only when the last of its
entries goes, so it is not released twice and was not issued before. The numbers per disk (`NumoutExact`)
have two invariants: `CountsOut` where no write is held up; `CountsShort` in every scheme, that a number is
never more than what is under way and falls short of it by no more than the writes, by all of them
where every write is released by reads. That nothing follows a null pointer (`fault`) rests on `Fits`, too:
a list that is not closed has nothing to send.

The second part shows that the mappings fit. The loops of `logorg_mapstriped` and
`logorg_parity_rotate_updates` are recursive functions over their steps, and each has an invariant of
its own, carried through them by `AllUpTo`: the units are dealt to the disks from the first on, within the
rows of full units and then the row of what is left (`DealUnit`, `UnitsDealt`);
parity keeps out of the way of the data and within the disk (`RotateStep`, `RotatedLayout`).

`CopiesTakeTurns` is `CopiesInTurn`, from an invariant of its own (`ReadsEven`): every copy has been read
equally often, those before `reduntoggle` once more. A read makes several accesses and the turn goes from
one to the next, so the proof follows the accesses of a mapping one by one (`ReadsFollow`); what a
completion releases are writes, and does not count.

`DataAreRight` is `RightBlocks` for organisations without parity, shadowed, and with a
parity disk: that the accesses, which the loops produce disk by disk, are to the blocks that the layout,
which is defined block by block, gives those that the request names - each once, on one copy for a read and on
all of them for a write, with their parity, and no others. Its invariant is `SentRightly`: what has been issued of a
request and what is held up are together the accesses of one of its mappings, so that
a completion loses and adds nothing. The rest is about the layout (`StripeImage`, `UnitsPlaced`,
`InterleavedPlaced`). A request stops somewhere in a unit of a stripe; of each disk it covers what is
before that cut and not before the place where it started (`Cut`, `StartOn`), and a block of a disk is before
the cut exactly if its number in the array is before the last (`BeforeCut`).
While this was proved, `PlacesOf` had to be corrected for
an interleaved organisation that is addressed by disks: it left out the blocks of the disks
before. A twelfth organisation of the run is of this kind.

The theorems suppose `FirstAtZero` (only then is a disk looked up where it is, section 8),
`RequestsFit` (who issues a request to a disk by its number keeps to its blocks; the code does not check
it), and `TablesFit`: that the mappings of `ParityTable` fit is not proved, its lists
of parts and their joining being a chain of folds over each other. It is not so for all requests:
a synchronous write of whole rows makes a list that is not closed, on which the code stops (section 8), so
for such requests the theorems say nothing. TLC evaluates `TablesFit` for every request of the runs
(`FitInRuns` of `MCLogOrg`), which leave those out.

### Only model-checked

- Everything under fairness: liveness and ENABLED are beyond this prover.
  So `EventuallyHandedOut`, `NobodyStarves`, `EventuallyServed`, `EventuallyDone`,
  `AllDone` and `EventuallyStops` are properties of the runs.
- `RightBlocks` for rotating parity, with or without a table, and `WritesAfterReads`. The layout of
  rotating parity counts blocks (the kth block of a disk that does not hold parity), and the order of writes
  after reads is stated through it; the proofs say where those accesses are and how many, not
  that they are the blocks asked for.
- The cache: no theorem. A call of `cache_get_block` goes on through
  several operators for each block, and an invariant of its locks would have to be followed through all of them.
- The disk: `DiskBuffer` and `DiskCtlr` are recursive operators, since choosing a segment
  may stop the access under way, which chooses again; no theorem can be about them.

## 8. Not modelled, and why

- **Request queue**: disciplines by cylinder, seek curve or rotation (they need the
  geometry and floating point), PRI_VSCAN, `ioqueue_get_specific_request` (but see
  `DiskState`), enablement functions (the driver passes none), all statistics.
- **Driver**: waiting for a busy 53C700 (planned with ScsiPath), traced and constant
  access times, closed runs; with the process-flow simulator only its interrupts.
- **Logical organisations**: Ideal and Random (a random disk), several organisations at
  once (they share nothing but disks), time stamps and statistics,
  `logorg_raise_priority`; a request of ten or more accesses under synchronous
  writes, where the code copies dependency lists by tens (`disksim_redun.c:444`, `789`);
  the integrity exits of `logorg_parity_rotate_updates`.
- **Controllers**: the pass-through and 53C700 controllers (planned, section 2), and the buses of
  the smart one: `Cache` moves one request at a time to or from the host.
- **Cache**: `cache_flush_cluster` (several lines in one write, `disksim_cache.c:968`), writing
  line by line (2030-2086), more than two segments of the replacement list, a cache
  without lines, several disks mapped by `mapmask`, where random and LIFO replacement
  start, statistics.
- **Disk**: estimates of service times (`disksim_diskctlr.c:3451`), remapped
  sectors and translation sector by sector, the consistency checks
  `disk_buffer_check_read_segments` and `_write_segments`, a queue other than first
  come first served, an interleaved bus, statistics. The controller above the disk is
  reduced to what it answers.
- **Geometry and mechanics**: arithmetic of one call in floating point, with no state that
  interleaves.
- **Event kernel**: the pool of free events and checkpoints.
- **Process flow**: trace-driven processes and what only they do (system calls, traps, paging
  interrupts), the end time of a trace, `pf_idleloop` and
  `pf_get_specific_from_sleep_queue` (never called), statistics; one request
  outstanding at a device, and no array under it.
- **Traces, statistics, tools, validation runs**: parsing and output.

### Parameters with which the code goes wrong

The instances leave out parameters and requests with which the code does not do what it
is to do. Each was met while modelling it; those that are also expected runs are in
section 4.

*Request queue.* Overlap scheme 1 completes waiting requests that arrived after the
access began (`disksim_ioqueue.c:2360`; `doc/disksim-doc.ps:7977-7983`). The timeout
queue counts a concatenated request as one where it compares with the number of
requests (716, 1561, 1953), so one that is concatenated is passed over for base requests.

*Organisations.* The second and later accesses of a request look up their disk
without the first disk of the organisation (`disksim_logorg.c:792`); a request that ends
with the last block of an array is not covered (724). In the parity table
(`disksim_redun.c`): (a) a row is taken to be written as a whole when every unit of it is
touched (1112, 1120), so a write of part of each unit reads nothing and writes a parity
it cannot know, against `doc/disksim-doc.ps:8509-8518`: `WritesAfterReads` fails when `Sound`
of `MCLogOrg` admits it; (b) a request that begins in a last row of shorter units goes to the
wrong blocks (949): `RightBlocks` fails; (c) a write of nothing but whole rows with `writesync`
follows a null pointer: `logorg_parity_table_dodeps_sync` leaves its writes in a list that ends in
NULL (761-764) where all others lead back to the request, and `logorg_maprequest` goes through it until it meets
the request (`disksim_logorg.c:791-797`). `MapRequest` faults there; `OrgInv`, `RightBlocks` and
`EventuallyDone` fail when `Sound` admits it; (d) with `rmwpoint` 1 or less the
last row of a request of several rows is reconstructed from other units than those left
alone (1124).

*Cache.* Structures in the list of lock waiters that have been emptied but not removed
(689-744) wake nobody, and a nested call may free the one an outer loop walks; both are
modelled, and no instance loses a wake-up by the first or reaches the second. Read
locks stay behind when a valid bit covers more than a lock (1995-2027), so the
instances keep `atomsperbit` within `lockgran`. The periodic and idle flush follow a null pointer when a
replacement list is empty (1087-1174): the model does not flush then (`flushempty`). The size of the active segment is
compared in blocks with a number of lines (542). The concatenation check is off by one
(`Concatok`, as written). A request that needs more lines than there are waits for ever.

*Disk.* (A) see DiskStale. (B) With `preseeking` 2 a write whose completion is still to
be sent leaves its segment empty and is counted again as dirty. (C) With a fixed access time a
write that arrives while the disk is busy stops the simulation ("no access to stop",
`disksim_diskctlr.c:1826`, 3005). (D) `neverdisconnect` without fast writes disconnects
after the data of a write all the same (2795-2799; `doc/disksim-doc.ps:7289-7293`), and the
next read holds the bus for ever. (E) Two owners at the same block fail the ASSERT at
`disksim_diskcache.c:1499`. (F) With `disconnectinseek` the state `PREEMPT` is
never reset (3106, 3126) and the next access is stopped at its own seek. (G) Read-ahead while idle
seeks beyond the end of the disk (1469). None of these is among `Disks` of `MCDisk`. `disk_buffer_attempt_seg_ownership` reads `write_incomplete`
uninitialised (`disksim_diskcache.c:1419`, 1478) when every earlier write of the segment is complete: the model has
`config.garbage` for what it holds, TRUE, with which the ASSERT fails, in every disk of `MCDisk`; no disk of the runs gets there.

*Process flow.* A second processor that goes idle gets no work again: `pf_idle_cpu_recheck_dispq`
(`disksim_pfsim.c:389`) has no caller, so `WorkIsRun` is about processor 1. The
time limits of requests are not shortened by the think times that pass
(`disksim_synthio.c:249-262`). `initialize_generator` accepts a negative size (304), which the
later ones refuse (368). With two idle switches in a row the idle flag is reset again
(`disksim_pfsim.c:431-436`).

## 9. Running

    tlc -workers 2 -config LogOrg.cfg MCLogOrg
    tlapm BusProofs.tla

`PROJECT.json` maps every definition to the source lines it models.
