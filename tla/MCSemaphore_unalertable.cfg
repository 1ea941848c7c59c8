SPECIFICATION Spec
CONSTANTS
  Procs = {p1, p2}
  InitVal = 1  MaxVal = 1
INVARIANTS UnalertableCompletes
