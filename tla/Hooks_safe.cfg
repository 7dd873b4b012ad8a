CONSTANTS
  Procs = {p, q}
  NoProc = NoProc
  Rounds = 0
  MaxInserts = 3
SYMMETRY Symmetric
SPECIFICATION Spec
INVARIANTS TypeOK ChainSound CountsOwnCalls
CHECK_DEADLOCK FALSE
