------------------------------- MODULE MCBus -------------------------------
(* Five events of devices in three slots, two of which ask twice.           *)
EXTENDS Bus

FiveEvents == {[id |-> 1, slotno |-> 1], [id |-> 2, slotno |-> 2], [id |-> 3, slotno |-> 2],
               [id |-> 4, slotno |-> 3], [id |-> 5, slotno |-> 3]}
=============================================================================
