SPECIFICATION PromptSpec
CONSTANTS
  Entry = {e1, e2}
  Thread = {t1, t2}
  Names = {n1, n2}
  e1 = e1
  e2 = e2
  t1 = t1
  t2 = t2
  n1 = n1
  n2 = n2
  EmptyName = EmptyName
  NoEntry = NoEntry
  NoThread = NoThread
  NoName = NoName
  Commands = {"DOWNLOAD"}
  MaxDownloads = 1
  MutexMayBlock = FALSE
  MaxThreadList = 2
PROPERTY WaitingStarts
CHECK_DEADLOCK FALSE
