SPECIFICATION Spec
CONSTANTS
  Reqs = {1, 2, 3, 4}
  Lines = {11, 12}
  Configs <- Fifo
  None = None
  MaxFlushes = 1
INVARIANTS LineWait
CHECK_DEADLOCK FALSE
