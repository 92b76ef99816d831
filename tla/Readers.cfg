SPECIFICATION Spec
CONSTANTS
  Blob = {b1, b2}
  NoBlob = NoBlob
  Thread = {t1, t2}
  LastGen = 2
  Parents = 2
  Hashes = 5
  MaxKeys = 7
  ErrorBounds = {1, 2, 3}
  RadixBits = {1, 3}
  DirName = {1, 2, 3}
  HashKey = {0, 1, 2}
  LastCursor = 2
  Collide = FALSE
  Room = {1, 2}
  MaxChanges = 2
  MaxInode = 4
  PoolCount = 3
  MaxOps = 4
  Looker = {l1}
  Depth = 2
  MaxMut = 1
  n3 = n3
  n4 = n4
  n5 = n5
  Entry = {b1, b2, n3, n4, n5}
  Hash <- Hashed
  Minor <- Refined
  LeafSpace = 2
  RootSpace = 2
  NodeSpace = 2
  EndOfHash = 99
  MaxEdits = 3
SYMMETRY Symmetry
CONSTRAINT Sound
INVARIANTS
  ReadersSafe
  EveryNameCompared
  ListingFaithful
  CursorCoversPool
  NeverStranded
  HashListing
PROPERTIES
  NamesFound
CHECK_DEADLOCK FALSE
