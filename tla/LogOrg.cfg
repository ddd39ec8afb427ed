SPECIFICATION FairSpec
CONSTANTS
  Organizations <- Configurations
  Workload <- WorkloadOf
  MaxRequests = 2
  SeqGive = 1
INVARIANTS OrgInv RightBlocks WritesAfterReads CopiesInTurn
PROPERTIES EventuallyDone
CHECK_DEADLOCK FALSE
