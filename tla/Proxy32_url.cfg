CONSTANTS
  Procs = {r, a}
  Roots = {r}
  Conns = {x, y}
  NoProc = NoProc
  NoConn = NoConn
  MaxFaults = 0
  Urls = {u, torn, empty}
  Torn = torn
  NoUrl = empty
  Dirs = {d}
  DirOf <- SharedDir
  NoEntry = NoEntry
  NoLine = NoLine
  HomeDirs = {}
SPECIFICATION Spec
INVARIANT LoggedIsRequested
CHECK_DEADLOCK FALSE
