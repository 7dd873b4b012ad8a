CONSTANTS
  Procs = {r, a, b}
  Roots = {r}
  Conns = {x, y}
  NoProc = NoProc
  NoConn = NoConn
  MaxFaults = 1
  Urls = {empty}
  NoUrl = empty
  Dirs = {d}
  DirOf <- SharedDir
  NoEntry = NoEntry
  NoLine = NoLine
  HomeDirs = {"cache", "logfile"}
SPECIFICATION FairSpec
INVARIANTS NoLostZombie OneServer
PROPERTIES ZombiesReaped AcceptedClosed
CHECK_DEADLOCK FALSE
