SPECIFICATION Spec
CONSTANTS
  Reqs = {1, 2, 3}
  Configs <- HalfTimeout
INVARIANTS NoFault
