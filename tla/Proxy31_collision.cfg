CONSTANTS
  Procs = {r, a, b, c}
  Roots = {r}
  Conns = {x, y, z}
  NoProc = NoProc
  NoConn = NoConn
  MaxFaults = 0
  Urls = {u, empty}
  NoUrl = empty
  Dirs = {d}
  DirOf <- SharedDir
  NoEntry = NoEntry
  NoLine = NoLine
  HomeDirs = {"cache", "logfile"}
SYMMETRY Symmetric
SPECIFICATION Spec
INVARIANT MissedOnce
CHECK_DEADLOCK FALSE
