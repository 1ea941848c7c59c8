SPECIFICATION ChannelsSpec
CONSTANTS
  Readers = {r1}  Writers = {w1, w2}  Bytes = {b0, b1}
  PIPESIZE = 2  Wrap = 4  MaxN = 3  Nobody = Nobody
  ConReaders = {p1, p2}  INPUT_BUF = 3  ConMaxN = 2  ConMaxTyped = 3
  IpcProcs = {q1, q2, q3}  IpcKeys = {1}  MsgTypes = {1, 2}  MsgSizes = {1, 2}
  RcvTypes <- Selectors  RcvSizes = {1}  IdsSize = 1  SeqWrap = 2
  MAX_MSGNUM = 2  IpcMaxQueues = 2  IpcMaxMsgs = 3
INVARIANTS RingSafe NoSleepOnData ConSafe ConInodeLock IpcSafe IpcNoMissedWakeup
SYMMETRY Symmetry
CHECK_DEADLOCK FALSE
