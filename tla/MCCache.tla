------------------------------ MODULE MCCache ------------------------------
(***************************************************************************)
(* Small instances of Cache: two lines of two blocks, and reads and writes  *)
(* of six blocks, so that requests share blocks, share lines and drive each *)
(* other's lines out.                                                      *)
(***************************************************************************)
EXTENDS Cache

Base == [read |-> <<TRUE, FALSE, TRUE, FALSE>>, blkno |-> <<0, 1, 2, 4>>, bcount |-> <<1, 1, 2, 1>>,
         last |-> 5, linesize |-> 2, lockgran |-> 1, atomsperbit |-> 1, sharedreadlocks |-> TRUE,
         numsegs |-> 1, maxactive |-> 0, replacepolicy |-> "SLRU", nondirty |-> FALSE,
         writescheme |-> "BACK", prefetch |-> "ALL", writefill |-> "NONE", line_by_line |-> FALSE,
         maxscatgath |-> 0, flush |-> "none", flushempty |-> FALSE]

Small == {Base,
          \* whole lines are valid, dirty and locked: a write fills beside it
          [Base EXCEPT !.lockgran = 2, !.atomsperbit = 2, !.read[3] = FALSE, !.writefill = "ALL"],
          [Base EXCEPT !.writescheme = "THRU", !.sharedreadlocks = FALSE],
          [Base EXCEPT !.writescheme = "SYNCONLY", !.maxscatgath = 1, !.bcount[1] = 3],
          [Base EXCEPT !.nondirty = TRUE, !.numsegs = 2, !.maxactive = 2, !.flush = "periodic",
           !.lockgran = 2, !.blkno[2] = 2],
          [Base EXCEPT !.line_by_line = TRUE, !.bcount[1] = 3, !.blkno[3] = 0, !.flush = "idle", !.prefetch = "FRONT"],
          \* a lock covers a line of which only a part is valid, and is upgraded
          [Base EXCEPT !.lockgran = 2, !.sharedreadlocks = FALSE, !.prefetch = "REST", !.blkno = <<0, 0, 1, 4>>,
           !.bcount = <<1, 2, 1, 1>>, !.read[1] = FALSE, !.read[2] = TRUE]}

\* A replacement policy of the documentation that is not the segmented LRU
Fifo == {[Base EXCEPT !.replacepolicy = "FIFO"]}
=============================================================================
