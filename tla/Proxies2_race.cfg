CONSTANTS
  Versions = {"2-1", "2-2", "2-3", "2-4", "test", "test2"}
  Procs = {r, a, b}
  Roots = {r}
  Conns = {x, y}
  NoProc = NoProc
  NoConn = NoConn
  MaxFaults = 1
  Urls = {u, v, empty}
  NoUrl = empty
  Dirs = {d}
  DirOf <- SharedDir
  NoEntry = NoEntry
  NoLine = NoLine
  HomeDirs = {}
SYMMETRY Symmetric
SPECIFICATION Spec
INVARIANTS TypeOK EmptyOnlyWhileFilled HitStored OneAcceptor
PROPERTIES LogSettles
CHECK_DEADLOCK FALSE
