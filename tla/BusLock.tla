------------------------------ MODULE BusLock ------------------------------
(***************************************************************************)
(* What a bus promises the devices on it: one of them owns it at a time,    *)
(* and it has an owner whenever somebody asks for it.                       *)
(***************************************************************************)
CONSTANTS Events, NoEvent
VARIABLES asking,  \* those who wait for the bus
          owner    \* who has it, or is about to be told so

lockvars == <<asking, owner>>

Ask(e) == /\ e \notin asking /\ e # owner
          /\ IF owner = NoEvent
               THEN owner' = e /\ UNCHANGED asking
               ELSE asking' = asking \cup {e} /\ UNCHANGED owner

\* The owner gives the bus up, to one who asks if anyone does.
Pass == /\ owner # NoEvent
        /\ IF asking = {}
             THEN owner' = NoEvent /\ UNCHANGED asking
             ELSE owner' \in asking /\ asking' = asking \ {owner'}

Withdraw(e) == /\ e \in asking
               /\ asking' = asking \ {e}
               /\ UNCHANGED owner

LockInit == asking = {} /\ owner = NoEvent
LockNext == Pass \/ \E e \in Events : Ask(e) \/ Withdraw(e)
LockSpec == LockInit /\ [][LockNext]_lockvars
=============================================================================
