SPECIFICATION FilesLiveSpec
CONSTANTS
  Procs = {p1, p2, p3}  Readers = {}  Blocks = {b1}  Values = {v1}
  OpMax = 1  MaxSize = 2  Threshold = 1  NoBlock = NoBlock  NoData = NoData
  ItProcs = {i1, i2, i3}  ItNames = {a}  ItInos = {1, 2, 3, 4}
  ItObjs = {o1, o2, o3, o4}  ItNone = none  ItMaxCalls = 4
  FileInos = {1, 2}  FileNames = {"a", "b"}  FileBytes = {7, 8}
  BLOCK_SIZE = 2  INODE_NUM_DIRECT = 1  INODE_NUM_INDIRECT = 2
  MetaBlocks = 2  NumBlocks = 6  BIT_PER_BLOCK = 3  MaxWrite = 3  DirSlots = 3
INVARIANTS ItSafe ItAlive FdSafe
PROPERTIES EndOpReturns ItReturns FdRefinesFile
