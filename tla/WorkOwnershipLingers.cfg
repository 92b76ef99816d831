SPECIFICATION OwnSpec
CONSTANTS
  Host = h
  Moved = m
  Conventional = {}
  MaxQueued = 3
INVARIANT NothingLingers
CHECK_DEADLOCK FALSE
