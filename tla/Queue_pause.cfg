SPECIFICATION Spec
CONSTANTS
  Entry = {e1}
  Thread = {t1, t2}
  Names = {n1}
  e1 = e1
  t1 = t1
  t2 = t2
  n1 = n1
  EmptyName = EmptyName
  NoEntry = NoEntry
  NoThread = NoThread
  NoName = NoName
  Commands = {"DOWNLOAD", "PAUSE"}
  MaxDownloads = 1
  MutexMayBlock = FALSE
  MaxThreadList = 2
INVARIANT PauseStops
CHECK_DEADLOCK FALSE
