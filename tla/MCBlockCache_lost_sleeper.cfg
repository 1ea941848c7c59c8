SPECIFICATION LiveSpec
CONSTANTS
  Procs = {p1, p2, p3}
  Blocks = {b1, b2}
  Objs = {o1, o2}
  Threshold = 1
  NoObj = NoObj
PROPERTIES SleeperWoken
