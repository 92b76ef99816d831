SPECIFICATION Spec
CONSTANTS
  Name = {a, b}
  Ino = {i1}
  NoIno = NoIno
  NoEntry = NoEntry
  NoGen = NoGen
  NoBlob = NoBlob
  Thread = {t1}
  Hole = Hole
  Region = 3
  CopyRounds = 2
  MaxSeq = 5
  MaxGen = 2
PROPERTY PublishValidatesCut
CHECK_DEADLOCK FALSE
