------------------------------- MODULE MCDisk -------------------------------
(***************************************************************************)
(* Small disks for TLC: two tracks of four blocks, two segments of four     *)
(* blocks, and three requests of the host that overlap, follow each other   *)
(* or drive each other out of the buffer.  Each disk below has some of the  *)
(* parameters of the disk set.                                              *)
(***************************************************************************)
EXTENDS DiskProperties

R(b, n) == [blk |-> b, cnt |-> n, read |-> TRUE]
W(b, n) == [blk |-> b, cnt |-> n, read |-> FALSE]

\* Nothing set: no read-ahead, no write-back, first come first served.
Base == [ reqs |-> <<R(0, 2), W(1, 2), R(0, 3)>>, numblocks |-> 8, blkspertrack |-> 4, surfaces |-> 1,
          acctime |-> FALSE, dedicated |-> FALSE, numwritesegs |-> 1, segsize |-> 4, readwater |-> 50,
          writewater |-> 50, reqwater |-> TRUE, enablecache |-> TRUE, contread |-> "no",
          minreadahead |-> 0, maxreadahead |-> 0, keeprequestdata |-> 1, readaheadifidle |-> FALSE,
          readanyfreeblocks |-> FALSE, fastwrites |-> 0, preseeking |-> 0, immedread |-> FALSE,
          immedwrite |-> FALSE, writecomb |-> FALSE, stopinsector |-> FALSE, disconnectinseek |-> FALSE,
          write_hit_stop_readahead |-> FALSE, read_direct_to_buffer |-> FALSE,
          immedtrans_any_readhit |-> FALSE, almostreadhits |-> FALSE, sneakyfullreadhits |-> FALSE,
          sneakypartialreadhits |-> FALSE, sneakyintermediatereadhits |-> FALSE,
          readhitsonwritedata |-> FALSE, writeprebuffering |-> FALSE, neverdisconnect |-> FALSE,
          hold_bus_for_whole_read_xfer |-> FALSE, hold_bus_for_whole_write_xfer |-> FALSE,
          extra_write_disconnect |-> FALSE, garbage |-> TRUE ]

Stream  == [Base EXCEPT !.reqs = <<W(0, 2), W(2, 2), R(1, 2)>>]      \* two writes in sequence
Scatter == [Base EXCEPT !.reqs = <<W(4, 2), R(0, 2), W(2, 2)>>]
Across  == [Base EXCEPT !.reqs = <<W(2, 3), W(0, 2), R(0, 4)>>]      \* over the end of a track
Ahead   == [Base EXCEPT !.reqs = <<R(0, 3), R(5, 2), W(0, 2)>>, !.contread = "seg"]
Follow  == [Base EXCEPT !.reqs = <<R(0, 2), R(2, 2), R(0, 4)>>, !.contread = "seg", !.segsize = 8]

Disks ==
    { Base, [Base EXCEPT !.preseeking = 1, !.hold_bus_for_whole_read_xfer = TRUE,
                         !.hold_bus_for_whole_write_xfer = TRUE],
      [Base EXCEPT !.dedicated = TRUE],
      [Base EXCEPT !.neverdisconnect = TRUE, !.fastwrites = 1],
      [Stream EXCEPT !.fastwrites = 1, !.writecomb = TRUE],
      [Stream EXCEPT !.fastwrites = 2, !.writecomb = TRUE, !.readhitsonwritedata = TRUE],
      [Stream EXCEPT !.writeprebuffering = TRUE, !.reqs = <<R(4, 2), W(0, 2), W(2, 3)>>],
      [Scatter EXCEPT !.extra_write_disconnect = TRUE, !.dedicated = TRUE],
      [Across EXCEPT !.immedread = TRUE, !.immedwrite = TRUE],
      [Across EXCEPT !.numwritesegs = 2, !.segsize = 2, !.readwater = 100, !.writewater = 0],
      [Across EXCEPT !.enablecache = FALSE, !.reqwater = FALSE],
      [Ahead EXCEPT !.contread = "track", !.sneakyfullreadhits = TRUE, !.sneakypartialreadhits = TRUE,
                    !.sneakyintermediatereadhits = TRUE],
      [Ahead EXCEPT !.readanyfreeblocks = TRUE, !.write_hit_stop_readahead = TRUE, !.stopinsector = TRUE],
      [Ahead EXCEPT !.keeprequestdata = -1, !.read_direct_to_buffer = TRUE],
      [Ahead EXCEPT !.reqs = <<R(1, 2), R(2, 3), W(3, 2)>>, !.minreadahead = 1, !.maxreadahead = 2,
                    !.preseeking = 1],
      [Ahead EXCEPT !.reqs = <<R(1, 2), R(2, 3), W(3, 2)>>, !.contread = "dec", !.numblocks = 12,
                    !.segsize = 8],
      [Follow EXCEPT !.almostreadhits = TRUE, !.immedtrans_any_readhit = TRUE],
      [Follow EXCEPT !.neverdisconnect = TRUE],
      [Follow EXCEPT !.reqs = <<R(0, 2), R(2, 2), W(4, 2)>>, !.contread = "cyl", !.surfaces = 2],
      [Base EXCEPT !.reqs = <<W(0, 2)>>, !.acctime = TRUE] }

\* A write of blocks that are being read ahead
WriteUnderReadahead ==
    {[Base EXCEPT !.reqs = <<R(0, 1), W(1, 2), R(0, 3)>>, !.contread = "seg", !.readhitsonwritedata = TRUE]}
=============================================================================
