CONSTANTS
  Procs = {r, a, b}
  Roots = {r}
  Conns = {x, y}
  NoProc = NoProc
  NoConn = NoConn
  MaxFaults = 2
  Urls = {u, empty}
  NoUrl = empty
  Dirs = {d}
  DirOf <- SharedDir
  NoEntry = NoEntry
  NoLine = NoLine
  HomeDirs = {"cache"}
SYMMETRY Symmetric
SPECIFICATION Spec
PROPERTIES ImplementsCache
CHECK_DEADLOCK FALSE
