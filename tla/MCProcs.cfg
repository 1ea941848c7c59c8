SPECIFICATION ProcsSpec
CONSTANTS
  Procs = {r, p1, p2}  root_proc = r  NoProc = NoProc
  q1 = q1  q2 = q2  c1 = c1  c2 = c2
  RqProcs = {q1, q2}  RqCPUs = {k1, k2}  RqIdle = idle
  Containers = {root, c1, c2}  root_container = root
  Home <- Nested  Up <- Chain
  prio_to_weight = 1  KilledWeight = 3  WeightMod = 16  MaxRuntime = 1  RqMaxKills = 1
  PidSize = 4  PidZeroed = 2  PidProcs = {1, 2, 3, 4, 5}
  PgProcs = {g1, g2, g3}  PgFirst = g1  PgFrames = 4  PgTop = 4  PgMaxCalls = 3
INVARIANTS TreeSafe RqSafe RqKilledAwake RqPreemptible PidSafe PgCounts PgIsolated
PROPERTIES KilledDies WaitReturns PidFoundIfAny
