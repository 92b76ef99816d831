SPECIFICATION FairSpec
CONSTANTS
  Name = {a, b}
  Ino = {i1}
  NoIno = NoIno
  NoEntry = NoEntry
  NoGen = NoGen
  NoBlob = NoBlob
  Thread = {t1}
  Hole = Hole
  Region = 3
  CopyRounds = 2
  MaxSeq = 4
  MaxGen = 2
PROPERTIES
  PrefixImmutable
  SequenceContinues
  RefinesDirMap
  CompactionEnds
CHECK_DEADLOCK FALSE
