CONSTANTS
  Procs = {r, s, a, b}
  Roots = {r, s}
  Conns = {x, y}
  NoProc = NoProc
  NoConn = NoConn
  MaxFaults = 0
  Urls = {u, empty}
  NoUrl = empty
  Dirs = {d}
  DirOf <- SharedDir
  NoEntry = NoEntry
  NoLine = NoLine
  HomeDirs = {}
SPECIFICATION Spec
INVARIANT MutualExclusion
CHECK_DEADLOCK FALSE
