SPECIFICATION FairSpec
CONSTANTS
  Entry = {e1, e2}
  Thread = {t1, t2}
  Names = {n1, n2}
  e1 = e1
  e2 = e2
  t1 = t1
  t2 = t2
  n1 = n1
  n2 = n2
  EmptyName = EmptyName
  NoEntry = NoEntry
  NoThread = NoThread
  NoName = NoName
  Commands = {"DOWNLOAD", "PAUSE", "CANCEL"}
  MaxDownloads = 2
  MutexMayBlock = TRUE
  MaxThreadList = 1
PROPERTY HandlerReturns
PROPERTY EnoughSlots
PROPERTY ForgottenTransfersEnd
CHECK_DEADLOCK FALSE
