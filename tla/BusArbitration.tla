--------------------------- MODULE BusArbitration ---------------------------
(***************************************************************************)
(* The arbitration of one EXCLUSIVE bus (disksim_bus.c) as operators on a   *)
(* record: how it arbitrates, its state, the bus event that won the last    *)
(* arbitration and whose grant is still on its way (arbwinner), and the bus *)
(* events that wait (owners, oldest first).  A bus event is a record with   *)
(* at least the slot number of the device that asks.  An INTERLEAVED bus    *)
(* keeps no state.                                                         *)
(***************************************************************************)
EXTENDS Integers, Sequences, SequencesExt

CONSTANT NoEvent   \* the null pointer

ArbTypes == {"FIFO_ARB", "SLOTPRIORITY_ARB"}

FreeBus(t) == [arbtype |-> t, state |-> "FREE", arbwinner |-> NoEvent, owners |-> <<>>]

Waits(b, e) == \E i \in DOMAIN b.owners : b.owners[i] = e

\* Mutant: the latest, or the latest of the highest slots.
Wins_Latest(b, i) ==
    /\ i \in DOMAIN b.owners
    /\ \/ b.arbtype = "FIFO_ARB" /\ i = Len(b.owners)
       \/ /\ b.arbtype = "SLOTPRIORITY_ARB"
          /\ \A j \in DOMAIN b.owners : b.owners[j].slotno <= b.owners[i].slotno
          /\ \A j \in DOMAIN b.owners : b.owners[j].slotno = b.owners[i].slotno => j <= i

\* The waiting event arbitration takes: the oldest, or the oldest of those in
\* the highest slot.
Wins(b, i) ==
    /\ i \in DOMAIN b.owners
    /\ \/ b.arbtype = "FIFO_ARB" /\ i = 1
       \/ /\ b.arbtype = "SLOTPRIORITY_ARB"
          /\ \A j \in DOMAIN b.owners : b.owners[j].slotno <= b.owners[i].slotno
          /\ \A j \in DOMAIN b.owners : j < i => b.owners[j].slotno < b.owners[i].slotno

\* Mutant: a new asker goes before those that wait.
OwnershipGet_AtHead(b, e) ==
    IF b.state = "FREE"
      THEN [b EXCEPT !.state = "OWNED", !.arbwinner = e]
      ELSE [b EXCEPT !.owners = <<e>> \o @]

OwnershipGet(b, e) ==
    IF b.state = "FREE"
      THEN [b EXCEPT !.state = "OWNED", !.arbwinner = e]
      ELSE [b EXCEPT !.owners = Append(@, e)]

\* Mutant: a waiting event is granted the bus and keeps its place.
OwnershipRelease_Twice(b) ==
    IF b.owners = <<>>
      THEN {[b EXCEPT !.state = "FREE"]}
      ELSE {[b EXCEPT !.arbwinner = b.owners[i]] : i \in {j \in DOMAIN b.owners : Wins(b, j)}}

\* The bus after its release.  Arbitration has one outcome; as a set of them
\* it need not be named.
OwnershipRelease(b) ==
    IF b.owners = <<>>
      THEN {[b EXCEPT !.state = "FREE"]}
      ELSE {[b EXCEPT !.arbwinner = b.owners[i], !.owners = RemoveAt(@, i)] :
               i \in {j \in DOMAIN b.owners : Wins(b, j)}}

\* Mutant: the winner's grant is withdrawn and nobody else gets the bus.
RemoveFromArbitration_NoRelease(b, e) ==
    IF b.arbwinner = e
      THEN {[b EXCEPT !.arbwinner = NoEvent]}
      ELSE {[b EXCEPT !.owners = RemoveAt(@, i)] :
               i \in {j \in DOMAIN b.owners : b.owners[j] = e}}

\* A request that waits, or whose grant is on its way, no longer wants the bus.
RemoveFromArbitration(b, e) ==
    IF b.arbwinner = e
      THEN OwnershipRelease([b EXCEPT !.arbwinner = NoEvent])
      ELSE {[b EXCEPT !.owners = RemoveAt(@, i)] :
               i \in {j \in DOMAIN b.owners : b.owners[j] = e}}
=============================================================================
