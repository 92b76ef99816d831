SPECIFICATION Spec
CONSTANTS
  Block = {k1}
  LogSlots = 2
  MaxTid = 4
  Inode = {x, y}
  NoInode = NoInode
  Syncer = {t1, t2}
  LastTid = 4
  MaxHandle = 2
  Ino = {x, y, z}
  NoIno = NoIno
  Dtime = Dtime
  Slots = 1
  MaxOps = 5
  Owner = {x, y, z}
  AttrBlock = {t1, t2}
  NoAttrBlock = NoAttrBlock
  AttrSet = {t1, t2}
  Empty = Empty
  MaxRef = 2
  Node = {x, y}
  UpdateEvery = 1
  MinCheck = 1
  MaxCheck = 4
  MaxOrder = 2
  Tops = 2
  Blocks = 3
  f1 = f1
  f2 = f2
  Writer = {f1, f2}
  Lblks <- Sizes
  Pa = {t1, t2}
  GroupGoal = 2
  MaxLen = 2
  NoFile = NoFile
  NoPa = NoPa
  FileBlocks = 4
  Region = {x, y}
  NoRegion = NoRegion
  RootSpace = 2
  LeafSpace = 3
  MaxZeroout = 2
  MaxFlying = 1
SYMMETRY Symmetry
CONSTRAINT Sound
INVARIANTS
  StorageTypeOK
  RecoversDurable
  FsyncedSurvives
  OrphansFound
  SharedBlockSafe
  OneMounter
  BlocksAccounted
  TreeMapsFile
  ReadsWhatWasWritten
PROPERTIES
  BuddyIsBitmap
CHECK_DEADLOCK FALSE
