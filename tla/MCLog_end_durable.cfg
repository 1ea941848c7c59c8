SPECIFICATION Spec
CONSTANTS
  Procs = {p1, p2, p3}
  Readers = {}
  Blocks = {b1, b2}
  Values = {v1, v2}
  OpMax = 1  MaxSize = 2  Threshold = 2
  NoBlock = NoBlock  NoData = NoData
INVARIANTS EndOpDurable
