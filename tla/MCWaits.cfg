SPECIFICATION WaitsSpec
CONSTANTS
  Procs = {p1, p2}  InitVal = 1  MaxVal = 2
  Kinds = {"HC", "SC", "V1"}  HostVers = {0, 1, 2}  OpCondTries = 6
  SdThreads = {s1, s2, s3}  SdMaxCalls = 4
INVARIANTS SemSafe SdResponseIsOurs SdSetUp SdqSafe
PROPERTIES WaiterReturns SdInitReturns SdqServed
