SPECIFICATION PoolSpec
CONSTANTS
  MaxInode = 4
  PoolCount = 3
  MaxOps = 4
INVARIANT CursorCovers
CHECK_DEADLOCK FALSE
