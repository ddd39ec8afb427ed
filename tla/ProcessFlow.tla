----------------------------- MODULE ProcessFlow -----------------------------
(***************************************************************************)
(* The process-flow simulator: processors that run the event lists of        *)
(* processes (disksim_pfsim.c), the dispatcher (disksim_pfdisp.c), the       *)
(* synthetic generators that write those lists (disksim_synthio.c) and the   *)
(* interrupt side of the device driver when it is not stand-alone            *)
(* (disksim_iodriver.c), driven by the main loop of disksim.c.               *)
(*                                                                         *)
(* A process issues a request, sleeps on it (time-critical), sleeps on it    *)
(* when its limit is over (time-limited) or goes on, and computes the next   *)
(* one.  The interrupt of the completion takes the processor away, tells the *)
(* device, wakes the sleepers, hands out the next request and gives the      *)
(* processor back.                                                          *)
(*                                                                         *)
(* Times are 0 or more (Agenda).  Below the driver a device raises the       *)
(* interrupts of config.causes one after the other; the next one waits for   *)
(* the driver to respond.  Each device takes one request at a time.          *)
(***************************************************************************)
EXTENDS Integers, Sequences, FiniteSets, SequencesExt, Agenda

CONSTANTS Procs,      \* 1..n: the processes, one for each generator
          Configs

\* What pf_readparams accepts
ConfigurableCpus(c) == c.numcpus \in 1..19

\* What synthio_readparams accepts, of all generators and of each.  A
\* distribution is the set of the values it may return; a probability that is
\* not 0 is a member of kinds or classes.
ConfigurableRun(c) == c.endiocnt \in Nat \ {0}

ConfigurableGenerator(c) ==
    /\ c.numdisks \in Nat \ {0} /\ c.blksperdisk \in Nat \ {0}
    /\ c.kinds \subseteq {"SEQ", "LOCAL", "GENERAL"} /\ c.kinds # {}
    /\ c.classes \subseteq {"CRITICAL", "LIMITED", "NONE"} /\ c.classes # {}
    /\ c.thinks \subseteq Int /\ c.tmlimits \subseteq Int
    /\ c.sizes \subseteq Int /\ c.locdists \subseteq Int

ASSUME ProcessFlowAssumption ==
    /\ IsFiniteSet(Procs) /\ Procs = 1..Cardinality(Procs)
    /\ \A c \in Configs :
          /\ ConfigurableCpus(c) /\ ConfigurableRun(c) /\ ConfigurableGenerator(c)
          /\ c.causes \in {<<"COMPLETION">>, <<"DISCONNECT", "RECONNECT", "COMPLETION">>}
          /\ c.consttime => c.causes = <<"COMPLETION">>
          /\ {c.consttime, c.longidle} \subseteq BOOLEAN /\ c.atonce \in Nat \ {0}

VARIABLES
    config,
    agenda,      \* the internal event queue
    cpus,        \* [processors -> [state, procp, intrs, idleevents]]
    procs,       \* [Procs -> [stat, chan, events]]
    pf_dispq,    \* Seq(Procs): ready to run
    sleepqueue,  \* Seq(Procs), the last to sleep first
    pendiolist, doneiolist,   \* sets of [opid, devno, limited, wanted]
    gens,        \* [Procs -> [blkno, bcount, devno, class, limits]]
    synthio_iocnt,
    queue,       \* [devices -> [waiting, out]]
    idlereset, stop_sim,
    fault        \* an ASSERT fails, a null pointer is followed, or exit(0)

vars == <<config, agenda, cpus, procs, pf_dispq, sleepqueue, pendiolist, doneiolist, gens,
          synthio_iocnt, queue, idlereset, stop_sim, fault>>

Cpus    == 1..config.numcpus
Devices == 0..config.numdisks - 1
Nobody  == 0
CpuStates == {"CPU_IDLE", "CPU_PROCESS", "CPU_IDLE_WORK", "CPU_INTR"}

Event(type, time, arg) == [type |-> type, time |-> time, arg |-> arg]
CpuEvent(c)     == [type |-> "CPU_EVENT", arg |-> c, cause |-> ""]
ClockInterrupt  == [type |-> "CLOCK_INTERRUPT", arg |-> 0, cause |-> ""]
Interrupt(o, cause) == [type |-> "IO_INTERRUPT", arg |-> o, cause |-> cause]

(***************************************************************************)
(* The generators.                                                          *)
(***************************************************************************)

\* The time-limited sleeps of a generator are a list of differences; When is
\* the time of the i-th counted from the head of the list.
When(limits, i) == FoldLeft(LAMBDA t, e : t + e.time, 0, SubSeq(limits, 1, i))

Later(e, by) == [e EXCEPT !.time = @ - by]

\* synthio_appendio: a sleep is put in the list.
InsertLimit(limits, sleep) ==
    LET n    == Cardinality({i \in DOMAIN limits : When(limits, i) <= sleep.time})
        here == Later(sleep, When(limits, n))
        rest == SubSeq(limits, n + 1, Len(limits))
    IN SubSeq(limits, 1, n) \o <<here>>
         \o (IF rest = <<>> THEN <<>> ELSE <<Later(Head(rest), here.time)>> \o Tail(rest))

\* What synthio_initialize_generator and synthio_generatenextio may draw.
General ==
    {[blkno |-> b, bcount |-> n, devno |-> d] :
        b \in 0..config.blksperdisk - 1, n \in config.sizes, d \in Devices}

\* Mutant: the sequential successor may end behind the device.
Fits_NextStart(g) == g.blkno + g.bcount < config.blksperdisk

Fits(g) == g.blkno + (2 * g.bcount) < config.blksperdisk

Inside(x) == x.bcount > 0 /\ x.blkno >= 0 /\ x.blkno + x.bcount < config.blksperdisk

\* synthio_initialize_generator
First == {x \in General : x.bcount # 0 /\ x.blkno + x.bcount < config.blksperdisk}

Drawn(g) ==
    (IF "SEQ" \in config.kinds /\ Fits(g)
       THEN {[blkno |-> g.blkno + g.bcount, bcount |-> g.bcount, devno |-> g.devno]} ELSE {})
    \cup (IF "LOCAL" \in config.kinds
            THEN {x \in {[blkno |-> g.blkno + d, bcount |-> n, devno |-> g.devno] :
                            d \in config.locdists, n \in config.sizes} : Inside(x)} ELSE {})
    \cup (IF "GENERAL" \in config.kinds \/ ("SEQ" \in config.kinds /\ ~Fits(g))
            THEN {x \in General : Inside(x)} ELSE {})

\* synthio_getrand is called until the time is not negative.
Values(distr) == {t \in distr : t >= 0}

Draws == Values(config.thinks) \X config.classes \X Values(config.tmlimits)

\* synthio_appendio: the sleep of a time-limited request is put in the list;
\* the request, thought about for think, goes before the events of its process,
\* a time-critical one with its sleep, and the sleeps whose limit is over before
\* it go first.
Listed(limits, opid, think, class, limit) ==
    IF class = "LIMITED" THEN InsertLimit(limits, Event("SLEEP_EVENT", limit + think, opid)) ELSE limits

Over(listed, think) == Cardinality({i \in DOMAIN listed : When(listed, i) < think})

\* The events of a process with the request before them
Appended(events, listed, over, opid, think, class) ==
    SubSeq(listed, 1, over)
      \o <<Event("IOREQ_EVENT", think - When(listed, over), opid)>>
      \o (IF class = "CRITICAL" THEN <<Event("SLEEP_EVENT", 0, opid)>> ELSE <<>>)
      \o events

\* synthio_generate_io_activity
MoreToMake(n) == n < config.endiocnt

Opid(p, n) == (config.endiocnt * (p - 1)) + n
Synthio == Event("SYNTHIO_EVENT", 0, 0)

(***************************************************************************)
(* Initialisation.                                                          *)
(***************************************************************************)

\* pf_initialize, pf_cpu_initialize, pf_dispatcher_init: the processes are on
\* the list in the opposite order, and the processors take the first.
Process(events, stat) == [events |-> events, stat |-> stat, chan |-> 0]
StartOrder == [i \in 1..Cardinality(Procs) |-> Cardinality(Procs) + 1 - i]
Dispatched(c) == IF c \in DOMAIN StartOrder THEN StartOrder[c] ELSE Nobody

Init ==
    /\ config \in Configs
    /\ \E first \in [Procs -> First],
         draw \in [Procs -> Draws] :
         LET listed == [p \in Procs |-> Listed(<<>>, Opid(p, 0), draw[p][1], draw[p][2], draw[p][3])]
             over   == [p \in Procs |-> Over(listed[p], draw[p][1])]
             events == [p \in Procs |->
                          Appended(<<Synthio>>, listed[p], over[p], Opid(p, 0), draw[p][1], draw[p][2])]
         IN /\ gens = [p \in Procs |-> [blkno |-> first[p].blkno, bcount |-> first[p].bcount,
                          devno |-> first[p].devno, class |-> draw[p][2],
                          limits |-> SubSeq(listed[p], over[p] + 1, Len(listed[p]))]]
            /\ procs = [p \in Procs |-> Process(events[p],
                          IF \E c \in Cpus : Dispatched(c) = p THEN "PROC_ONPROC" ELSE "PROC_RUN")]
            /\ agenda = PutAll(Put(EmptyAgenda, ClockInterrupt, 1), [c \in Cpus |-> CpuEvent(c)],
                               {c \in Cpus : Dispatched(c) # Nobody},
                               [c \in Cpus |-> Head(events[Dispatched(c)]).time])
    /\ cpus = [c \in Cpus |-> [state |-> IF Dispatched(c) = Nobody THEN "CPU_IDLE" ELSE "CPU_PROCESS",
                               procp |-> Dispatched(c), intrs |-> <<>>, idleevents |-> <<>>]]
    /\ pf_dispq = SubSeq(StartOrder, config.numcpus + 1, Cardinality(Procs))
    /\ sleepqueue = <<>> /\ pendiolist = {} /\ doneiolist = {}
    /\ synthio_iocnt = 0
    /\ queue = [d \in Devices |-> [waiting |-> {}, out |-> {}]]
    /\ idlereset = FALSE /\ stop_sim = FALSE /\ fault = FALSE

(***************************************************************************)
(* A processor works off the event list of its interrupt, of its process, or *)
(* of its idle loop.  A handler is an operator on the state C of the         *)
(* processors and P of the processes after the event was taken off its list; *)
(* pf_handle_cpu_event then schedules the next event of the list.            *)
(***************************************************************************)
Chain(k, P) ==
    IF k.intrs # <<>> THEN Head(k.intrs).events
    ELSE IF k.procp # Nobody THEN P[k.procp].events ELSE k.idleevents

WithChain(c, C, s) ==
    IF C[c].intrs # <<>> THEN [C EXCEPT ![c].intrs[1].events = s]
    ELSE IF C[c].procp # Nobody THEN C ELSE [C EXCEPT ![c].idleevents = s]

ProcWithChain(c, C, P, s) ==
    IF C[c].intrs = <<>> /\ C[c].procp # Nobody THEN [P EXCEPT ![C[c].procp].events = s] ELSE P

\* pf_get_time_to_next_process_event, pf_get_time_to_next_intr_event
NextDelay(chain) == IF chain = <<>> THEN 0 ELSE Head(chain).time

\* The last part of pf_handle_cpu_event: a process at the end of its list stops
\* the simulation, an interrupt at the end of its list fails an ASSERT.
Continue(c, C, P, q, stops, bad) ==
    \E k \in {C[c]}, R \in {P} :
        LET next  == Chain(k, R)
            idle  == k.intrs = <<>> /\ k.procp = Nobody
        IN /\ procs' = R
           /\ cpus' = [cpus EXCEPT ![c] = IF ~idle THEN k
                          ELSE [k EXCEPT !.state = IF next = <<>> THEN "CPU_IDLE" ELSE "CPU_IDLE_WORK"]]
           /\ agenda' = IF idle /\ next = <<>> THEN q ELSE Put(q, CpuEvent(c), NextDelay(next))
           /\ stop_sim' = (stops \/ (k.intrs = <<>> /\ k.procp # Nobody /\ next = <<>>))
           /\ fault' = (bad \/ (k.intrs # <<>> /\ next = <<>>))

\* pf_dispatch
NextProc == IF pf_dispq = <<>> THEN Nobody ELSE Head(pf_dispq)
OnProc(P, p) == IF p = Nobody THEN P ELSE [P EXCEPT ![p].stat = "PROC_ONPROC"]
Undispatched == IF pf_dispq = <<>> THEN <<>> ELSE Tail(pf_dispq)

CSwitch(p) == Event("CSWITCH_EVENT", 0, p)

\* pf_handle_cswitch_event: a processor without a process looks for work once more.
HandleCSwitch(c, C, P, q, ev) ==
    LET switched == [C EXCEPT ![c].procp = ev.arg,
                              ![c].state = IF ev.arg # Nobody THEN "CPU_PROCESS" ELSE "CPU_IDLE"]
        again == ev.arg = Nobody /\ pf_dispq # <<>>
    IN /\ idlereset' = (~idlereset /\ ev.arg = Nobody)
       /\ IF again
            THEN /\ Continue(c, [switched EXCEPT ![c].idleevents = <<CSwitch(NextProc)>> \o @],
                             OnProc(P, NextProc), q, FALSE, FALSE)
                 /\ pf_dispq' = Undispatched
            ELSE /\ Continue(c, [switched EXCEPT ![c].idleevents = <<>>], P, q, FALSE, FALSE)
                 /\ UNCHANGED pf_dispq
       /\ UNCHANGED <<sleepqueue, pendiolist, doneiolist, gens, synthio_iocnt, queue>>

\* pf_iowait: a sleeper marks the request it waits for; a request that is done
\* is not waited for.  Mutant: the request is not marked.
Wanted_Not(o) == pendiolist

Wanted(o) == {[x EXCEPT !.wanted = @ \/ x.opid = o] : x \in pendiolist}

\* pf_disp_sleep: process p sleeps on chan and switches to the next.
Asleep(P, p, chan) ==
    OnProc([P EXCEPT ![p].stat = "PROC_SLEEP", ![p].chan = chan,
                     ![p].events = <<CSwitch(NextProc)>> \o @], NextProc)

\* pf_disp_put_on_sleep_queue
PutOnSleepQueue(p) == <<p>> \o sleepqueue

\* pf_handle_sleep_event
HandleSleep(c, C, P, q, ev) ==
    LET p == C[c].procp
    IN /\ IF \E x \in pendiolist : x.opid = ev.arg
            THEN /\ pendiolist' = Wanted(ev.arg)
                 /\ sleepqueue' = PutOnSleepQueue(p)
                 /\ pf_dispq' = Undispatched
                 /\ Continue(c, C, Asleep(P, p, ev.arg), q, FALSE, FALSE)
                 /\ UNCHANGED doneiolist
            ELSE /\ doneiolist' = {x \in doneiolist : x.opid # ev.arg}
                 /\ Continue(c, C, P, q, FALSE, FALSE)
                 /\ UNCHANGED <<pendiolist, sleepqueue, pf_dispq>>
       /\ UNCHANGED <<gens, synthio_iocnt, queue, idlereset>>

\* pf_disp_get_from_sleep_queue, until it finds no more: the places of those
\* that sleep on chan
SleepersOn(P, chan) == {i \in DOMAIN sleepqueue : P[sleepqueue[i]].chan = chan}

\* pf_disp_wakeup, pf_disp_put_at_end_of_queue
Woken(P, s) == [p \in Procs |-> IF p \in ToSet(s) THEN [P[p] EXCEPT !.stat = "PROC_RUN"] ELSE P[p]]
PutAtEnd(s) == pf_dispq \o s

\* pf_handle_wakeup_event
HandleWakeup(c, C, P, q, ev) ==
    LET sleepers == SleepersOn(P, ev.arg)
        woken    == Selected(sleepqueue, sleepers)
    IN /\ sleepqueue' = Selected(sleepqueue, DOMAIN sleepqueue \ sleepers)
       /\ pf_dispq' = PutAtEnd(woken)
       /\ Continue(c, C, Woken(P, woken), q, FALSE, FALSE)
       /\ UNCHANGED <<pendiolist, doneiolist, gens, synthio_iocnt, queue, idlereset>>

\* pf_handle_synthio_event, synthio_generate_io_activity
HandleSynthio(c, C, P, q, ev) ==
    LET p == C[c].procp
        n == synthio_iocnt + 1
    IN /\ synthio_iocnt' = n
       /\ IF MoreToMake(n)
            THEN \E x \in Drawn(gens[p]), draw \in Draws :
                 \E listed \in {Listed(gens[p].limits, Opid(p, n), draw[1], draw[2], draw[3])} :
                 \E over \in {Over(listed, draw[1])} :
                    /\ gens' = [gens EXCEPT ![p] =
                          [blkno |-> x.blkno, bcount |-> x.bcount, devno |-> x.devno, class |-> draw[2],
                           limits |-> SubSeq(listed, over + 1, Len(listed))]]
                    /\ Continue(c, C, [P EXCEPT ![p].events =
                                         Appended(<<Synthio>> \o @, listed, over, Opid(p, n), draw[1], draw[2])],
                                q, FALSE, FALSE)
            ELSE /\ Continue(c, C, [P EXCEPT ![p].events = <<Synthio>> \o @], q, TRUE, FALSE)
                 /\ UNCHANGED gens
       /\ UNCHANGED <<pf_dispq, sleepqueue, pendiolist, doneiolist, queue, idlereset>>

(***************************************************************************)
(* The driver below the processes.                                          *)
(***************************************************************************)
Access(o) == Event("IO_ACCESS_ARRIVE", 0, o)

\* check_send_out_request and ioqueue_get_next_request, which chooses: the new
\* states of the queue of device d that holds W, with the access handed out.
HandedOut(d, W) ==
    IF queue[d].out = {} /\ W # {}
      THEN {<<[waiting |-> W \ {o}, out |-> {o}], <<Access(o)>>>> : o \in W}
      ELSE {<<[queue[d] EXCEPT !.waiting = W], <<>>>>}

\* pf_add_to_pendiolist
Pend(p, o) == [opid |-> o, devno |-> gens[p].devno, wanted |-> FALSE, limited |-> gens[p].class = "LIMITED"]

\* pf_handle_ioreq_event, iodriver_request
HandleIoreq(c, C, P, q, ev) ==
    LET p == C[c].procp
        d == gens[p].devno
    IN /\ pendiolist' = pendiolist \cup {Pend(p, ev.arg)}
       /\ \E h \in HandedOut(d, queue[d].waiting \cup {ev.arg}) :
            /\ queue' = [queue EXCEPT ![d] = h[1]]
            /\ Continue(c, C, [P EXCEPT ![p].events = h[2] \o @], q, FALSE, FALSE)
       /\ UNCHANGED <<pf_dispq, sleepqueue, doneiolist, gens, synthio_iocnt, idlereset>>

\* iodriver_schedule: the device raises its first interrupt, in its own time.
Scheduled(q, o) == Put(q, Interrupt(o, Head(config.causes)), 1)

\* pf_handle_io_internal_event, in the list of a process or of an interrupt
HandleAccess(c, C, P, q, ev) ==
    /\ Continue(c, C, P, Scheduled(q, ev.arg), FALSE, FALSE)
    /\ UNCHANGED <<pf_dispq, sleepqueue, pendiolist, doneiolist, gens, synthio_iocnt, queue, idlereset>>

\* iodriver_respond_to_device
HandleRespond(c, C, P, q, ev) ==
    LET cause == Head(C[c].intrs).cause
        i     == CHOOSE j \in DOMAIN config.causes : config.causes[j] = cause
        next  == IF config.consttime \/ cause = "COMPLETION" THEN q
                 ELSE Put(q, Interrupt(ev.arg, config.causes[i + 1]), 1)
    IN /\ Continue(c, C, P, next, FALSE, FALSE)
       /\ UNCHANGED <<pf_dispq, sleepqueue, pendiolist, doneiolist, gens, synthio_iocnt, queue, idlereset>>

\* ioqueue_get_next_request on completion: one of those that wait, if any.
\* Mutant: the next request is not asked for.
NextOut_None(waiting) == {<<>>}

NextOut(waiting) == IF waiting = {} THEN {<<>>} ELSE {<<o>> : o \in waiting}

\* iodriver_add_to_intrp_eventlist: the next access goes before the wakeup.
Relisted(next, wakeup, chain) == [i \in DOMAIN next |-> Access(next[i])] \o wakeup \o chain

\* iodriver_access_complete, pf_io_done_notify: X has the pending request; an
\* ASSERT fails if there is none.
HandleAccessComplete(c, C, P, q, ev) ==
    \E X \in {{x \in pendiolist : x.opid = ev.arg}} :
    \E next \in NextOut(UNION {queue[x.devno].waiting : x \in X}) :
        LET wakeup == IF \E x \in X : x.wanted THEN <<Event("WAKEUP_EVENT", 0, ev.arg)>> ELSE <<>>
        IN /\ pendiolist' = pendiolist \ X
           /\ doneiolist' = doneiolist \cup {x \in X : x.limited /\ ~x.wanted}
           /\ queue' = [d \in Devices |-> IF \E x \in X : x.devno = d
                           THEN [waiting |-> queue[d].waiting \ ToSet(next),
                                 out |-> (queue[d].out \ {ev.arg}) \cup ToSet(next)]
                           ELSE queue[d]]
           /\ Continue(c, WithChain(c, C, Relisted(next, wakeup, Chain(C[c], P))), P, q, FALSE, X = {})
           /\ UNCHANGED <<pf_dispq, sleepqueue, gens, synthio_iocnt, idlereset>>

Back(c, C) == [C EXCEPT ![c].intrs = Tail(@), ![c].state = Head(C[c].intrs).oldstate]

\* Mutant: a processor that was idle stays idle.
Free_Never(k) == FALSE

Free(k) == Tail(k.intrs) = <<>> /\ k.procp = Nobody

\* pf_handle_intend_event: the processor goes back to what it did; if that was
\* nothing it takes the next process.
HandleIntend(c, C, P, q, ev) ==
    /\ IF Free(C[c]) /\ pf_dispq # <<>>
         THEN /\ pf_dispq' = Undispatched
              /\ Continue(c, [Back(c, C) EXCEPT ![c].idleevents = <<CSwitch(NextProc)>> \o @],
                          OnProc(P, NextProc), q, FALSE, FALSE)
         ELSE /\ \E toolong \in BOOLEAN :
                    /\ toolong => (Free(C[c]) /\ idlereset /\ config.longidle)
                    /\ Continue(c, Back(c, C), P, q, toolong, FALSE)
              /\ UNCHANGED pf_dispq
    /\ UNCHANGED <<sleepqueue, pendiolist, doneiolist, gens, synthio_iocnt, queue, idlereset>>

(***************************************************************************)
(* The main loop.                                                           *)
(***************************************************************************)
Untouched == <<pf_dispq, sleepqueue, pendiolist, doneiolist, gens, synthio_iocnt, queue, idlereset>>

\* pf_handle_cpu_event takes the first event of the list; f is its handler.
\* (\E binds the values once.)
Handled(c, q, type, f(_, _, _, _, _)) ==
    \E chain \in {Chain(cpus[c], procs)} :
        /\ chain # <<>> /\ Head(chain).type = type
        /\ \E C \in {WithChain(c, cpus, Tail(chain))},
              P \in {ProcWithChain(c, cpus, procs, Tail(chain))} : f(c, C, P, q, Head(chain))
        /\ UNCHANGED config

\* pf_handle_event: the event of processor c is the next, q the rest of the agenda.
ProcessorEvent(c, q) ==
    \/ Handled(c, q, "CSWITCH_EVENT", HandleCSwitch)
    \/ Handled(c, q, "SLEEP_EVENT", HandleSleep)
    \/ Handled(c, q, "WAKEUP_EVENT", HandleWakeup)
    \/ Handled(c, q, "SYNTHIO_EVENT", HandleSynthio)
    \/ Handled(c, q, "IOREQ_EVENT", HandleIoreq)
    \/ Handled(c, q, "IO_ACCESS_ARRIVE", HandleAccess)
    \/ Handled(c, q, "IO_RESPOND_TO_DEVICE", HandleRespond)
    \/ Handled(c, q, "IO_ACCESS_COMPLETE", HandleAccessComplete)
    \/ Handled(c, q, "INTEND_EVENT", HandleIntend)

\* pf_handle_intr_event: processor 1 is interrupted.  What was left of the
\* delay of its event is kept at the head of the list it worked on.
Interrupted(q, intr, more) ==
    LET k     == cpus[1]
        busy  == k.state # "CPU_IDLE"
        chain == Chain(k, procs)
        kept  == IF busy /\ chain # <<>> THEN [chain EXCEPT ![1].time = TimeLeft(q, CpuEvent(1))] ELSE chain
        C     == WithChain(1, cpus, kept)
        known == ~busy \/ (Pending(q, CpuEvent(1)) /\ chain # <<>>)
        quiet == IF busy THEN Cancel(q, CpuEvent(1)) ELSE q
    IN /\ procs' = ProcWithChain(1, cpus, procs, kept)
       /\ cpus' = [C EXCEPT ![1].state = "CPU_INTR",
                            ![1].intrs = <<[intr EXCEPT !.oldstate = k.state]>> \o @]
       /\ agenda' = Put(IF more = {} THEN quiet ELSE Put(quiet, ClockInterrupt, 1), CpuEvent(1), 0)
       /\ fault' = ~known
       /\ UNCHANGED <<config, stop_sim>> /\ UNCHANGED Untouched

Intr(cause, events) == [cause |-> cause, oldstate |-> "CPU_IDLE", events |-> events]
Intend == Event("INTEND_EVENT", 0, 0)

\* pf_handle_clock_intr_arrive: the next clock interrupt is put in the queue.
ClockIntr(q) == Interrupted(q, Intr("CLOCK", <<Intend>>), {ClockInterrupt})

\* iodriver_interrupt_arrive.  Mutant: a disconnection completes the access.
IoIntrEvents_EachCompletes(e) ==
    <<Event("IO_RESPOND_TO_DEVICE", 0, e.arg), Event("IO_ACCESS_COMPLETE", 0, e.arg), Intend>>

IoIntrEvents(e) ==
    <<Event("IO_RESPOND_TO_DEVICE", 0, e.arg)>>
      \o (IF e.cause = "COMPLETION" THEN <<Event("IO_ACCESS_COMPLETE", 0, e.arg)>> ELSE <<>>)
      \o <<Intend>>

IoIntr(e, q) == Interrupted(q, Intr(e.cause, IoIntrEvents(e)), {})

\* disksim_simulate_event
Simulate(e, q) ==
    \/ e.type = "CPU_EVENT" /\ ProcessorEvent(e.arg, q)
    \/ e.type = "IO_INTERRUPT" /\ IoIntr(e, q)
    \/ e.type = "CLOCK_INTERRUPT" /\ ClockIntr(q)

Turn(events) ==
    /\ ~stop_sim /\ ~fault
    /\ \E t \in Turns(agenda, config.atonce) :
          /\ Head(t.soon) \in events
          /\ Simulate(Head(t.soon), Rest(t))

\* What is not the clock: an interrupt of a device, or an event in the list of a
\* process or of an idle loop
Pieces == {CpuEvent(c) : c \in {x \in Cpus : cpus[x].intrs = <<>>}}
            \cup {Interrupt(Opid(p, n), cause) :
                     p \in Procs, n \in 0..config.endiocnt, cause \in ToSet(config.causes)}
Ticks  == {ClockInterrupt} \cup {CpuEvent(c) : c \in {x \in Cpus : cpus[x].intrs # <<>>}}

Progress == Turn(Pieces)
Tick     == Turn(Ticks)
Next     == Progress \/ Tick

Spec == Init /\ [][Next]_vars

\* The delays are finite, so the clock does not tick for ever before another
\* event that is in the queue, and does not put off the event it interrupts for
\* ever: what is left of its delay gets shorter each time.
FairSpec == Spec /\ WF_vars(Next) /\ SF_vars(Progress)

(***************************************************************************)
(* Properties.                                                              *)
(***************************************************************************)
\* The context switches to p under way, each with its place on its list
OnList(p, s) == {i \in DOMAIN s : s[i] = CSwitch(p)}
Switching(p) ==
    (UNION {{<<"idle", c, i>> : i \in OnList(p, cpus[c].idleevents)} : c \in Cpus})
      \cup (UNION {{<<"process", o, i>> : i \in OnList(p, procs[o].events)} : o \in Procs})

RunningOn(p) == {c \in Cpus : cpus[c].procp = p}

TypeOK ==
    /\ \A c \in Cpus : /\ cpus[c].procp \in Procs \cup {Nobody}
                       /\ cpus[c].state \in CpuStates
                       /\ \A i \in DOMAIN cpus[c].intrs : cpus[c].intrs[i].events # <<>>
    /\ \A p \in Procs : procs[p].stat \in {"PROC_SLEEP", "PROC_RUN", "PROC_ONPROC"}
    /\ ToSet(pf_dispq) \subseteq Procs /\ ToSet(sleepqueue) \subseteq Procs
    /\ synthio_iocnt \in 0..config.endiocnt + config.numcpus
    /\ {idlereset, stop_sim, fault} \subseteq BOOLEAN

\* The status of a process says where it is: on the dispatch queue, on the
\* sleep queue, or on a processor or on its way to one, and nowhere twice
\* (pf_dispatch, pf_disp_sleep, pf_disp_wakeup, pf_handle_cswitch_event).
InItsPlace ==
    /\ IsInjective(pf_dispq) /\ IsInjective(sleepqueue)
    /\ \A p \in Procs :
         /\ procs[p].stat = "PROC_RUN" <=> p \in ToSet(pf_dispq)
         /\ procs[p].stat = "PROC_SLEEP" <=> p \in ToSet(sleepqueue)
         /\ procs[p].stat = "PROC_ONPROC" =>
               Cardinality(Switching(p)) + Cardinality(RunningOn(p)) >= 1

\* A processor has one event in the queue unless it is idle, and none then
\* (pf_handle_cpu_event, pf_handle_intr_event).
OneCpuEvent ==
    \A c \in Cpus :
        /\ Pending(agenda, CpuEvent(c)) <=> cpus[c].state # "CPU_IDLE"
        /\ Cardinality({i \in DOMAIN agenda.soon : agenda.soon[i] = CpuEvent(c)}) <= 1

\* A generator asks for blocks of the device (synthio_generatenextio).
OnTheDevice == \A p \in Procs : Inside(gens[p])

\* What must hold of the process-flow simulator between two events.
PfInv == TypeOK /\ InItsPlace /\ OneCpuEvent /\ OnTheDevice

\* No ASSERT fails, and no list is found empty that must have an event.
NoFault == ~fault

\* Whoever sleeps will be woken: the request it sleeps on is pending and
\* marked, or the wakeup is on the list of an interrupt (pf_iowait,
\* pf_io_done_notify, pf_handle_wakeup_event).
WakeupComes ==
    \A i \in DOMAIN sleepqueue :
        LET o == procs[sleepqueue[i]].chan
        IN \/ \E x \in pendiolist : x.opid = o /\ x.wanted
           \/ \E c \in Cpus : \E j \in DOMAIN cpus[c].intrs :
                 Event("WAKEUP_EVENT", 0, o) \in ToSet(cpus[c].intrs[j].events)

\* The processor that takes the interrupts is not idle while a process waits
\* for it (pf_handle_intend_event, pf_handle_cswitch_event).
WorkIsRun == pf_dispq # <<>> => cpus[1].state # "CPU_IDLE"

\* A simulation makes its requests and stops (synthio_generate_io_activity).
EventuallyStops == <>stop_sim
=============================================================================
