SPECIFICATION FairSpec
CONSTANTS
  Reqs = {1, 2, 3, 4, 5, 6, 7, 8}
  Devs = {11, 12, 13}
  Ctlrs = {21}
  NoCtlr = NoCtlr
  devno <- Devno
  bcount <- Bcount
  dependents <- Dependents
  queuectlr <- Queuectlr
  maxoutstanding <- Max
  maxreqsize <- Maxsize
  usequeue = TRUE
INVARIANTS DriverInv WithinLimits WaitsOnlyWhenFull
PROPERTIES WholeRequests EventuallyServed
CHECK_DEADLOCK FALSE
