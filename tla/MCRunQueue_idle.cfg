SPECIFICATION RqSpec
CONSTANTS
  q1 = q1  q2 = q2  c1 = c1  c2 = c2
  RqProcs = {q1, q2}  RqCPUs = {k1, k2}  RqIdle = idle
  Containers = {root, c1, c2}  root_container = root
  Home <- Nested  Up <- Chain
  prio_to_weight = 1  KilledWeight = 3  WeightMod = 16  MaxRuntime = 1  RqMaxKills = 1
PROPERTIES RqIdleOnlyWhenEmpty
