SPECIFICATION Spec
CONSTANTS
  MaxGen = 3
  Cpu = {c1, c2}
  Reader = {r1}
  Clock = Clock
  Batch = 3
  MaxTicks = 10
  Caller = {t1, t2}
  OpSets <- SafeSets
  ReclaimStarts = FALSE
  Host = h
  Moved = m
  Conventional = {}
  MaxQueued = 3
  Top = top
  Sub = {s1, s2}
  Plain = {f}
  Root = root
  Interior = {d1, d2}
  File = {g}
  MaxDelta = 2
  MaxBlob = 1
  Names = {1, 2}
  MergeParents = 2
  MergeHashes = {0, 1}
  Ties = {0}
SYMMETRY Symmetry
CONSTRAINT Sound
INVARIANTS
  WorkersTypeOK
  WokenUnlessAbandoned
  ClockWithinBatches
  NobodyStuck
  WorksHoldInodes
  PromotedFindsTree
  LookupsFindNamespace
  MergedIsNamespace
CHECK_DEADLOCK FALSE
