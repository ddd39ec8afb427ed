---------------------------- MODULE RequestPool ----------------------------
(***************************************************************************)
(* What a request queue promises its owner, whatever it schedules by:      *)
(* every request added waits until it is handed out, alone or in a batch   *)
(* with others, or is completed together with an access that covers it;    *)
(* every batch handed out is completed as it was handed out; and no request *)
(* is anywhere twice.                                                      *)
(***************************************************************************)
CONSTANT Reqs
VARIABLES waiting,  \* requests not yet handed out
          batches   \* sets of requests handed out together, not yet completed

poolvars == <<waiting, batches>>

Present == waiting \cup UNION batches

Add(r) == /\ r \notin Present
          /\ waiting' = waiting \cup {r}
          /\ UNCHANGED batches

HandOut(S) == /\ S # {} /\ S \subseteq waiting
              /\ waiting' = waiting \ S
              /\ batches' = batches \cup {S}

\* The batch S completes, and with it the waiting requests O it overlaps.
Complete(S, O) == /\ S \in batches /\ O \subseteq waiting
                  /\ waiting' = waiting \ O
                  /\ batches' = batches \ {S}

PoolInit == waiting = {} /\ batches = {}

PoolNext == \/ \E r \in Reqs : Add(r)
            \/ \E S \in SUBSET Reqs : HandOut(S)
            \/ \E S \in batches, O \in SUBSET waiting : Complete(S, O)

PoolSpec == PoolInit /\ [][PoolNext]_poolvars

\* No request is handed out twice, or handed out while it still waits.
HandedOutOnce == /\ \A S \in batches : S \cap waiting = {}
                 /\ \A S, T \in batches : S # T => S \cap T = {}
=============================================================================
