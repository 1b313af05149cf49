SPECIFICATION LifeSpec
CONSTANTS
  Entry = {e1, e2}
  Thread = {t1, t2}
  Names = {n1, n2}
  Urls = {u1, u2}
  e1 = e1
  e2 = e2
  t1 = t1
  t2 = t2
  n1 = n1
  n2 = n2
  u1 = u1
  u2 = u2
  BaseName <- OneName
  Digitless <- OtherName
  EmptyName = n2
  NoEntry = NoEntry
  NoThread = NoThread
  NoName = NoName
  NoUrl = NoUrl
  StrayUrl = StrayUrl
  NoIndex = NoIndex
  Commands = {"DOWNLOAD", "PAUSE", "CANCEL"}
  MaxDownloads = 2
  MutexMayBlock = FALSE
  MaxThreadList = 2
  MaxStarts = 3
  MaxServing = 1
INVARIANT LifeTypeOK
INVARIANT IndexTellsQueue
PROPERTY SurvivesRestart
PROPERTY ResumesBeforeServing
PROPERTY AskedInEachLife
SYMMETRY Addresses
CHECK_DEADLOCK FALSE
