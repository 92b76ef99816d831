SPECIFICATION RootsSpec
CONSTANTS
  Name = {a, b}
  NoIno = NoIno
  NoEntry = NoEntry
  NoGen = NoGen
  NoBlob = NoBlob
  Hole = Hole
  CopyRounds = 2
  Ino = {i1, i2}
  Thread = {t1, t2}
  Region = 3
  MaxSeq = 3
  MaxGen = 3
  Churn = Churn
  Renamer = Renamer
  Plid = {t1, t2}
  Whole = Whole
SYMMETRY Symmetry
CONSTRAINT UntilRace
INVARIANTS
  TypeOK
  BlobIsNamespace
  CrashConsistent
  DiskIsNamespace
  StagedPlusTail
  RequestTypeOK
  RequestOwned
  TargetHeld
  RouteKept
  WorkPinsInode
PROPERTY HandoffCarriedOut
CHECK_DEADLOCK FALSE
