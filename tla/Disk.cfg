SPECIFICATION FairSpec
CONSTANTS
  Segs = {1, 2}
  Configs <- Disks
INVARIANTS DiskInv NoFault ReadsLatest ReachesMedium
PROPERTIES EventuallyServed
CHECK_DEADLOCK FALSE
