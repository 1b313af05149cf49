SPECIFICATION Spec
CONSTANTS
  Entry = {e1, e2}
  Thread = {t1, t2}
  Names = {n1, noname}
  e1 = e1
  e2 = e2
  t1 = t1
  t2 = t2
  n1 = n1
  noname = noname
  EmptyName = noname
  NoEntry = NoEntry
  NoThread = NoThread
  NoName = NoName
  Commands = {"DOWNLOAD", "STATUS", "PAUSE", "CANCEL", "RESTART", "NONE"}
  MaxDownloads = 1
  MutexMayBlock = TRUE
  MaxThreadList = 2
INVARIANT TypeOK
INVARIANT UniqueNames
INVARIANT StartedHasTransfer
INVARIANT Findable
PROPERTY StartsAreAsked
PROPERTY StopReaches
PROPERTY CancelRemoves
SYMMETRY Addresses
CHECK_DEADLOCK FALSE
