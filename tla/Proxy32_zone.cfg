CONSTANTS
  Procs = {r, a, b}
  Roots = {r}
  Conns = {x, y}
  NoProc = NoProc
  NoConn = NoConn
  MaxFaults = 1
  Urls = {u, torn, empty}
  Torn = torn
  NoUrl = empty
  Dirs = {d}
  DirOf <- SharedDir
  NoEntry = NoEntry
  NoLine = NoLine
  HomeDirs = {}
SYMMETRY Symmetric
SPECIFICATION Spec
INVARIANTS TypeOK ThreadsExclusive
PROPERTIES LogAppendOnly
CHECK_DEADLOCK FALSE
