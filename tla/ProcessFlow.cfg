SPECIFICATION FairSpec
CONSTANTS
  Procs = {1, 2}
  Configs <- Small
INVARIANTS PfInv NoFault WakeupComes WorkIsRun
PROPERTIES EventuallyStops
CHECK_DEADLOCK FALSE
