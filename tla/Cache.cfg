SPECIFICATION FairSpec
CONSTANTS
  Reqs = {1, 2, 3, 4}
  Lines = {11, 12}
  Configs <- Small
  None = None
  MaxFlushes = 1
INVARIANTS CacheInv LocksExclude FillsLocked Coherent ReadsLatest OneWaiter NoLostWaiter
PROPERTIES AllDone
CHECK_DEADLOCK FALSE
