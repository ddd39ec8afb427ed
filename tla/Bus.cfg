SPECIFICATION FairSpec
CONSTANTS
  NoEvent = NoEvent
  Events <- FiveEvents
INVARIANTS BusInv
PROPERTIES GrantOrder ImplementsLock NobodyStarves
