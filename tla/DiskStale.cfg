SPECIFICATION Spec
CONSTANTS
  Segs = {1, 2}
  Configs <- WriteUnderReadahead
INVARIANTS OneVersion
CHECK_DEADLOCK FALSE
