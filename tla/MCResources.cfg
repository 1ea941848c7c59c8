SPECIFICATION ResourcesSpec
CONSTANTS
  Procs = {p1, p2, p3}  Readers = {p1}  Blocks = {b1, b2}  Values = {v1, v2}
  OpMax = 1  MaxSize = 2  Threshold = 1  NoBlock = NoBlock  NoData = NoData
  FtProcs = {f1, f2}  FtFirst = f1  NFILE = 3  NOFILE = 3
  FtInodes = {i1}  FtPipes = {x1, x2}  FtNone = none  FtMaxCalls = 5
  PqCpus = {c1, c2, c3}  PqNodes = {n1, n2, n3}  PqNull = null  PqWild = wild
  PqMaxOps = 5
  KaPages = {1, 2}  PAGE_SIZE = 12  MIN_BLOCK_SIZE = 2
  RbKeys <- ElevenKeys
INVARIANTS LogSafe CheckpointPhases FtCounts FtPipeEnds PqSafe KaSafe RbSafe
PROPERTIES Atomic
SYMMETRY Symmetry
