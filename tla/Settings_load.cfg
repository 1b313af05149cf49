SPECIFICATION Spec
CONSTANTS
  Programs = {"dsserver", "dsclient"}
  NoFile = NoFile
INVARIANT TypeOK
INVARIANT RunsInitialised
INVARIANT LoadsEachLine
