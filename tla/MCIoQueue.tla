----------------------------- MODULE MCIoQueue -----------------------------
(***************************************************************************)
(* Small instances of IoQueue for TLC.  Requests are numbers; the queues    *)
(* differ in where the requests lie, in the disciplines and in the schemes. *)
(***************************************************************************)
EXTENDS IoQueueProperties

Of(s) == [r \in Reqs |-> s[r]]
NoFlags     == [r \in Reqs |-> {}]
OneCritical == [r \in Reqs |-> IF r = 2 THEN {"TIME_CRITICAL"} ELSE {}]
Alg(b, t, p) == [base |-> b, timeout |-> t, priority |-> p]

\* No two requests are sequential, and from the middle one the lower is nearer.
\* Requests climb from an elevator base queue over a FIFO timeout queue to a
\* cyclic priority queue.
Ranked == [blkno |-> Of(<<4, 6, 9, 6>>), bcount |-> Of(<<1, 1, 1, 1>>), Reads |-> {1, 2},
         numblocks |-> 10, vscan_cyls |-> 2, seqscheme |-> {}, concatmax |-> 0,
         alg |-> Alg("ELEVATOR_LBN", "FCFS", "CYCLE_LBN"), pri_scheme |-> "TWOQUEUE",
         to_scheme |-> "HALFTIMEOUT", to_time |-> 1, comboverlaps |-> 0, idlework |-> FALSE,
         ArrivalFlags |-> NoFlags, MaxOutstanding |-> 2, MaxTime |-> 0]

\* 1, 2 and 3 follow each other on the disk and are concatenated.
Concat == [Ranked EXCEPT !.blkno = Of(<<2, 3, 5, 8>>), !.bcount = Of(<<1, 2, 1, 1>>), !.Reads = {},
           !.numblocks = 9, !.seqscheme = {"CONCAT_READS", "CONCAT_WRITES"}, !.concatmax = 4,
           !.alg = Alg("SSTF_LBN", "FCFS", "VSCAN_LBN"), !.pri_scheme = "ALLEQUAL",
           !.to_scheme = "NOTIMEOUT", !.to_time = 1]

\* 1, 2 and 3 name the same blocks, and the queue has an idle timer.
Overlap == [Ranked EXCEPT !.blkno = Of(<<4, 4, 4, 7>>), !.bcount = Of(<<2, 2, 2, 1>>), !.Reads = {2},
            !.alg = Alg("VSCAN_LBN", "FCFS", "FCFS"), !.to_scheme = "NOTIMEOUT", !.to_time = 1,
            !.comboverlaps = 2, !.idlework = TRUE, !.ArrivalFlags = OneCritical, !.MaxTime = 2]

\* A shortest-seek base queue with a timeout queue beside it.
Starvation == [Ranked EXCEPT !.alg = Alg("SSTF_LBN", "FCFS", "FCFS"), !.pri_scheme = "ALLEQUAL",
               !.to_scheme = "BASETIMEOUT", !.to_time = 1, !.MaxOutstanding = 1]

Small == {Ranked, Concat, Overlap}
Starving == {Starvation}

HalfTimeout == {[Ranked EXCEPT !.alg = Alg("FCFS", "FCFS", "FCFS"), !.pri_scheme = "ALLEQUAL", !.to_time = 2]}

\* What the theorems on the counters, and the one on faults, suppose.
ASSUME ChainsStayInRuns == ChainsStay
ASSUME FaultFreeInRuns == \A c \in Small \cup Starving : FaultFree(c)
=============================================================================
