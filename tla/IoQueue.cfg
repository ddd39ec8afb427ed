SPECIFICATION Spec
CONSTANTS
  Reqs = {1, 2, 3}
  Configs <- Small
INVARIANTS QueueInv NoFault WaitingIsOffered
PROPERTIES RankRespected OrderKept SubsumedIsCovered ImplementsPool
