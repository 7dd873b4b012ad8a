CONSTANTS
  Procs = {r, a, b}
  Roots = {r}
  Conns = {x, y}
  NoProc = NoProc
  NoConn = NoConn
  MaxFaults = 1
  Urls = {u, v, empty}
  NoUrl = empty
  Dirs = {d, e, f}
  DirOf <- OwnDir
  NoEntry = NoEntry
  NoLine = NoLine
  HomeDirs = {}
SYMMETRY Symmetric
SPECIFICATION Spec
INVARIANTS TypeOK MutualExclusion SemNeverInterrupted MissedOnce HitAfterMiss LookupFindsEntry
PROPERTIES LogAppendOnly
CHECK_DEADLOCK FALSE
