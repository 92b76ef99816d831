SPECIFICATION Spec
CONSTANTS
  Name = {a, b}
  Ino = {i1}
  NoIno = NoIno
  NoEntry = NoEntry
  NoGen = NoGen
  NoBlob = NoBlob
  Thread = {t1, t2}
  Hole = Hole
  Region = 3
  CopyRounds = 2
  MaxSeq = 5
  MaxGen = 2
PROPERTY InstallIsCurrent
CHECK_DEADLOCK FALSE
