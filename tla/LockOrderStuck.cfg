SPECIFICATION LockSpec
CONSTANTS
  Caller = {c1, c2}
  OpSets <- MixedSets
  ReclaimStarts = FALSE
SYMMETRY Symmetry
INVARIANT NobodyStuck
CHECK_DEADLOCK FALSE
