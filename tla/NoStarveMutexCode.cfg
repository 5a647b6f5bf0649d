CONSTANTS
  Procs = {p1, p2}
  Calls = 2
SPECIFICATION Spec
INVARIANT MutualExclusion
