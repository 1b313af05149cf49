SPECIFICATION Spec
CONSTANTS
  Thread = {t1, t2}
  t1 = t1
  t2 = t2
  Size = 2
  MaxLives = 3
  NoFile = NoFile
  ErrorPage = ErrorPage
  Foreign = Foreign
INVARIANT TypeOK
INVARIANT ResumesWhereItEnds
INVARIANT CompletedIsOnDisk
 
CONSTRAINT OneException
SYMMETRY Threads
CHECK_DEADLOCK FALSE
