-------------------------------- MODULE Bus --------------------------------
(***************************************************************************)
(* One bus and the controllers and disks that ask for it.  A device asks    *)
(* with an event of its own, is told by a BUS_OWNERSHIP_GRANTED event that  *)
(* arrives arbtime later, and gives the bus up; a controller that changes   *)
(* its mind takes its event out of the arbitration                          *)
(* (controller_remove_type_from_buswait).  `holder' is the event whose      *)
(* device acts as the owner: the inbusowned, outbusowned and busowned       *)
(* fields of the devices, and what is handed from one to another without a  *)
(* word to the bus.                                                         *)
(***************************************************************************)
EXTENDS BusArbitration

CONSTANT Events  \* bus events, each with its slotno

ASSUME BusAssumption == /\ NoEvent \notin Events
                        /\ \A e \in Events : e.slotno \in Nat

VARIABLES bus, holder

vars == <<bus, holder>>

Involved(e) == e = bus.arbwinner \/ e = holder \/ Waits(bus, e)

\* bus_ownership_get
Get(e) == /\ ~Involved(e)
          /\ bus' = OwnershipGet(bus, e)
          /\ UNCHANGED holder

\* bus_event_arrive with BUS_OWNERSHIP_GRANTED
Granted == /\ bus.arbwinner # NoEvent
           /\ holder' = bus.arbwinner
           /\ bus' = [bus EXCEPT !.arbwinner = NoEvent]

\* bus_ownership_release, by the device that has the bus
Release == /\ holder # NoEvent
           /\ holder' = NoEvent
           /\ bus' \in OwnershipRelease(bus)

\* bus_remove_from_arbitration
Leave(e) == /\ e = bus.arbwinner \/ Waits(bus, e)
            /\ bus' \in RemoveFromArbitration(bus, e)
            /\ UNCHANGED holder

Init == bus \in {FreeBus(t) : t \in ArbTypes} /\ holder = NoEvent
Next == Granted \/ Release \/ \E e \in Events : Get(e) \/ Leave(e)
Spec == Init /\ [][Next]_vars

-----------------------------------------------------------------------------
\* Every variable keeps its type.
TypeOK ==
    /\ bus \in [arbtype : ArbTypes, state : {"FREE", "OWNED"},
                arbwinner : Events \cup {NoEvent}, owners : Seq(Events)]
    /\ holder \in Events \cup {NoEvent}

\* The bus is free exactly when nobody has it and nobody has been promised
\* it; it is never promised while somebody has it (ASSERT at
\* disksim_bus.c:350), and nobody waits for a free bus.
ExclusiveOwnership ==
    /\ bus.state = "FREE" <=> bus.arbwinner = NoEvent /\ holder = NoEvent
    /\ bus.arbwinner = NoEvent \/ holder = NoEvent
    /\ bus.state = "FREE" => bus.owners = <<>>

\* An event is in the arbitration once at most: not twice in the list, and
\* not in it when it has won.
AsksOnce ==
    /\ \A i, j \in DOMAIN bus.owners : bus.owners[i] = bus.owners[j] => i = j
    /\ ~Waits(bus, bus.arbwinner) /\ ~Waits(bus, holder)

\* What the bus and the devices on it rely on at every step.
BusInv == TypeOK /\ ExclusiveOwnership /\ AsksOnce

\* Nobody is passed over for the bus by a younger event, except in favour of
\* a higher slot on a bus that arbitrates by slot.
GrantOrder ==
    [][\A i, j \in DOMAIN bus.owners :
          /\ bus'.arbwinner = bus.owners[j] /\ bus.arbwinner # bus.owners[j]
          /\ bus'.arbwinner # bus.owners[i]
          => \/ i > j /\ (bus.arbtype = "SLOTPRIORITY_ARB" =>
                            bus.owners[i].slotno <= bus.owners[j].slotno)
             \/ /\ bus.arbtype = "SLOTPRIORITY_ARB"
                /\ bus.owners[i].slotno < bus.owners[j].slotno]_vars

\* The bus implements the lock: whoever has been granted it owns it, from the
\* arbitration on.
Lock == INSTANCE BusLock WITH
    asking <- {bus.owners[i] : i \in DOMAIN bus.owners},
    owner  <- IF holder # NoEvent THEN holder ELSE bus.arbwinner

ImplementsLock == Lock!LockSpec

\* The grant is an event of the simulation and is delivered; every device
\* that has the bus gives it up when its transfer, or its disconnection, is
\* done.
Fairness == WF_vars(Granted) /\ WF_vars(Release)
FairSpec == Spec /\ Fairness

\* Whoever waits for a first-come first-served bus stops waiting: it gets the
\* bus, or withdraws.
NobodyStarves ==
    \A e \in Events : bus.arbtype = "FIFO_ARB" /\ Waits(bus, e) ~> ~Waits(bus, e)
=============================================================================
