SPECIFICATION ForkSpec
CONSTANTS
  PgProcs = {g1, g2}  PgFirst = g1  PgFrames = 4  PgTop = 4  PgMaxCalls = 4
INVARIANTS PgForkCopies
CHECK_DEADLOCK FALSE
