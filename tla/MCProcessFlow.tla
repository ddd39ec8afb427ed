---------------------------- MODULE MCProcessFlow ----------------------------
(***************************************************************************)
(* Small instances of ProcessFlow: two generators on one or two devices.    *)
(***************************************************************************)
EXTENDS ProcessFlow

\* One processor, one device, every class of request.
One == [numcpus |-> 1, endiocnt |-> 4, numdisks |-> 1, blksperdisk |-> 2, kinds |-> {"GENERAL"},
        classes |-> {"CRITICAL", "LIMITED", "NONE"}, thinks |-> {-1, 0, 1}, tmlimits |-> {1},
        sizes |-> {1}, locdists |-> {0}, causes |-> <<"COMPLETION">>, consttime |-> FALSE,
        longidle |-> FALSE, atonce |-> 1]

Small == {One,
          \* limits of different lengths overtake each other; accesses of constant time
          [One EXCEPT !.classes = {"LIMITED"}, !.tmlimits = {0, 2}, !.endiocnt = 4, !.consttime = TRUE],
          \* two processors, two devices, disks that disconnect, and events of the same time
          [One EXCEPT !.numcpus = 2, !.numdisks = 2, !.classes = {"CRITICAL"}, !.thinks = {1}, !.endiocnt = 4, !.atonce = 2,
                      !.causes = <<"DISCONNECT", "RECONNECT", "COMPLETION">>],
          \* sequential and local requests, some too long, and a simulation that stops when idle
          [One EXCEPT !.kinds = {"SEQ", "LOCAL"}, !.blksperdisk = 5, !.sizes = {0, 1, 2, 7}, !.locdists = {-1, 0, 2},
                      !.classes = {"CRITICAL"}, !.thinks = {0}, !.endiocnt = 4, !.longidle = TRUE]}
=============================================================================
