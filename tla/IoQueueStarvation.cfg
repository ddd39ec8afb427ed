SPECIFICATION FairSpec
CONSTANTS
  Reqs = {1, 2}
  Configs <- Starving
PROPERTIES EventuallyHandedOut
