SPECIFICATION LibrarySpec
CONSTANTS
  short = short  long = long  huge = huge
  Threads = {t1, t2}
  Records = {short, long, huge}
  LengthOf <- Lengths
  PrintedAs <- Printed
  LevelOf <- Severities
  WRITE_BUF_SIZE = 3
  MaxSizes = {1, 6}
  OldSizes = {0, 2, 7}
  Null = Null
  a1 = a1  a2 = a2  a3 = a3  b1 = b1  b2 = b2  b3 = b3
  Elements = {a1, a2, a3, b1, b2, b3}
  KeyOf <- Itself
  HASH_VALUE <- Hashes
  HASH_INITIAL_NUM_BUCKETS = 2
  HASH_BKT_CAPACITY_THRESH = 3
  MaxBuckets = 16
  NULL = NULL
  Nodes = {n1, n2, n3, n4}
  Sections = {"light", "environment", "misc"}
  NoNode = NoNode
  object = object  broken = broken  big = big
  pair1 = pair1  pair2 = pair2  item1 = item1
  Texts = {object, broken, big}
  TextSize <- Sizes
  JsonTexts = {object, big}
  ItemOf <- Items
  JSON_CONF_FILE_MAX_SIZE = 3
  KeyPairs = {pair1, pair2}
  NoTree = NoTree  NoText = NoText  NoItem = NoItem
  Instants <- Clock
  Delays = {0, 1, 999, 1000, 2999}
SYMMETRY Symmetry
INVARIANTS
  TypeOK
  LapIntact
  SizeBound
  ListIntact
  Fsck
  FindsListed
  ChainsBounded
  ListsComplete
  EntriesWhole
  JsonReleased
  TextEnds
  DeadlineExact
PROPERTY
  DeleteAllEmpties
