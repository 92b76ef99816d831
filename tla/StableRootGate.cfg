SPECIFICATION FairSpec
CONSTANTS
  Name = {a, b}
  Ino = {i1}
  NoIno = NoIno
  NoEntry = NoEntry
  NoGen = NoGen
  NoBlob = NoBlob
  Thread = {t1}
  Hole = Hole
  Region = 2
  CopyRounds = 1
  MaxSeq = 2
  MaxGen = 2
PROPERTY GateReleased
CHECK_DEADLOCK FALSE
